-------------------------------- MODULE Analysis --------------------------------
(***************************************************************************)
(* The analysis of a project next to the runs of it: what is known and     *)
(* reported about a statement, and what happens when Meson executes it.    *)
(***************************************************************************)
EXTENDS MesonTree

CONSTANTS
  Projects,    \* families of projects: the first, the middle and the last
               \* statements of the root file that are combined with each
               \* other, files of directories, and root files to edit it to
  Versions     \* the versions of Meson the project is run with

VARIABLES
  later,       \* the edits still to come
  place, env, pending, version,
  passed,      \* the statements and conditions this run got past
  writer,      \* [variable -> the assignment that gave it its value]
  read         \* the assignments whose value this run used

runVars == <<place, env, pending, version, passed, writer, read>>
vars == <<treeVars, later, runVars>>

R == INSTANCE MesonRun

Init ==
  /\ \E family \in Projects :
       \E first \in family.first, middle \in family.middle, last \in family.last,
          dirs \in family.dirs, edits \in family.edits :
         /\ NewTree(Root :> first \o middle \o last @@ dirs)
         /\ later = [i \in DOMAIN edits |-> Root :> edits[i] @@ dirs]
  /\ place = <<>> /\ env = <<>> /\ pending = <<>> /\ version = <<>>
  /\ passed = {} /\ writer = <<>> /\ read = {}

Analyse == (PartialParse \/ Parse) /\ UNCHANGED <<later, runVars>>

Edit ==
  /\ later # <<>> /\ Clear(Head(later))
  /\ later' = Tail(later)
  /\ UNCHANGED runVars

\* The last files are run, once they are analysed.
Begin ==
  /\ parsed = "yes" /\ later = <<>> /\ version = <<>>
  /\ version' \in Versions
  /\ place' = <<Frame(File(Root), 1, 1)>>
  /\ env' = "meson" :> R!Value("meson")
  /\ UNCHANGED <<treeVars, later, pending, passed, writer, read>>

-----------------------------------------------------------------------------
\* What the next step evaluates, each with its statement or condition.
Evaluated(at, e) == [at |-> Key(at), node |-> e]

ConditionsReached ==
  LET conditions == Conditions(R!Current)
  IN  {Evaluated(Append(place, Frame(R!Current, c, 0)), conditions[c]) :
         c \in {d \in DOMAIN conditions : \A b \in 1 .. (d - 1) : R!Can(conditions[b], FALSE)}}

NextEvaluated ==
  IF ~R!InBlock THEN {}
  ELSE CASE Is(R!Current, "SelectionStatement") -> ConditionsReached
         [] Is(R!Current, "AssignmentStatement") -> {Evaluated(place, R!Current.kids[2])}
         [] Is(R!Current, "IterationStatement") -> {Evaluated(place, Items(R!Current))}
         [] OTHER -> {Evaluated(place, R!Current)}

\* The conditions the run got past when it is inside a branch, or after all.
Passed(next) ==
  IF ~R!InBlock THEN {}
  ELSE IF Is(R!Current, "SelectionStatement")
       THEN {Key(Append(place, Frame(R!Current, c, 0))) :
               c \in {d \in DOMAIN Conditions(R!Current) :
                        Len(next) > Len(place) => d <= Last(next).block}}
       ELSE {Key(place)}

\* The variables a node reads, also by their names.
RECURSIVE Reads(_)
Reads(n) ==
  LET unread == CASE Is(n, "AssignmentStatement") /\ n.name = "=" -> {1}
                  [] Is(n, "IterationStatement") -> {1}
                  [] OTHER -> {}
      Named == Is(n, "FunctionExpression") /\ n.name = "get_variable"
               /\ Args(n) # <<>> /\ Is(Args(n)[1], "StringLiteral")
  IN  When(Is(n, "IdExpression"), {n.name})
      \cup When(Is(n, "StringLiteral"), {P!Interpolated[t] : t \in (DOMAIN P!Interpolated) \cap ToSet(n.text)})
      \cup When(Named, {NameOf(Args(n)[1].text)})
      \cup UNION {Reads(n.kids[i]) : i \in DOMAIN n.kids \ unread}

ReadNow ==
  UNION {Reads(x.node) : x \in NextEvaluated}
  \cup (IF R!InBlock /\ Is(R!Current, "AssignmentStatement") /\ R!Current.name # "="
        THEN {R!Current.kids[1].name} ELSE {})

\* "+=" changes the value an assignment gave.
Written ==
  IF R!InBlock /\ Is(R!Current, "AssignmentStatement") /\ R!Current.name = "="
  THEN R!Current.kids[1].name :> Key(place) @@ writer
  ELSE [n \in {m \in DOMAIN writer : m \in DOMAIN env /\ env'[m] = env[m]} |-> writer[n]]

Step ==
  /\ \/ R!Advance
     \/ \E dir \in DOMAIN files \ {Root} : R!Enter(dir, File(dir))
  /\ passed' = passed \cup Passed(place')
  /\ read' = read \cup {writer[n] : n \in ReadNow \cap DOMAIN writer}
  /\ writer' = Written
  /\ UNCHANGED <<treeVars, later>>

Next == Analyse \/ Edit \/ Begin \/ Step

Spec == Init /\ [][Next]_vars
-----------------------------------------------------------------------------
(***************************************************************************)
(* What the analyzer does not follow, each with an example.                *)
(***************************************************************************)
AllNodes == UNION {Nodes(BuildDefinition(files[dir])) : dir \in DOMAIN files}

CallsOf(name, nodes) == {n \in nodes : Is(n, "FunctionExpression") /\ n.name = name}

\* The variables a statement gives a value to, itself or in its blocks.
Wrote(n) ==
  CASE Is(n, "AssignmentStatement") -> {n.kids[1].name}
    [] Is(n, "FunctionExpression") /\ n.name = "set_variable" ->
         IF Is(Args(n)[1], "StringLiteral") THEN NamesSet(n, {}) ELSE UNION {Reads(m) : m \in AllNodes}
    [] Is(n, "IterationStatement") -> ToSet(Ids(n))
    [] OTHER -> {}
Writes(nodes) == UNION {Wrote(n) : n \in nodes}

\* x = 'a'  foreach i : y  x = 1  endforeach: a loop that is not entered, or
\* left early, does not give its variables a value (typeanalyzer.cpp:1911).
HidesInLoop(n) ==
  /\ Is(n, "IterationStatement")
  /\ (ToSet(Ids(n)) \cup UNION {Wrote(s) : s \in ToSet(Blocks(n)[1])}) \cap Writes(AllNodes \ Nodes(n)) # {}

\* x = 'a'  foreach i : y  z = x  x = 1  endforeach: the body is visited once.
CarriesAround(n) ==
  /\ Is(n, "IterationStatement")
  /\ \E j, k \in DOMAIN Blocks(n)[1] :
       j <= k /\ Reads(Blocks(n)[1][j]) \cap Writes(Nodes(Blocks(n)[1][k])) # {}

\* set_variable(get_option('name'), 'a'): all that the name may be have the
\* new type, and none the old one (typeanalyzer.cpp:1446).  The directories
\* that subdir may enter are entered one after the other (:1496).
Chooses(n) == Is(n, "FunctionExpression") /\ n.name = "get_option" /\ Cardinality(P!GetOption(Args(n))) > 1
TakesSeveral(n) ==
  /\ Is(n, "FunctionExpression") /\ n.name \in {"set_variable", "subdir"}
  /\ ~Is(Args(n)[1], "StringLiteral") /\ \E m \in AllNodes : Chooses(m)

\* if c  subdir_done()  endif  x = 1  in a directory: what follows the call is
\* taken to be run (:816).
LeavesFile ==
  \E dir \in DOMAIN files \ {Root} : CallsOf("subdir_done", Nodes(BuildDefinition(files[dir]))) # {}

\* if c  set_variable('x', 'a')  else  x.to_string()  endif: set_variable changes
\* the scope before it is saved (:1467), and get_variable looks at the scope
\* alone (:1121), so in a later branch x has the types of an earlier one.
MixesBranches(n) ==
  /\ Is(n, "SelectionStatement")
  /\ \E b, c \in DOMAIN Blocks(n) :
       LET earlier == UNION {Nodes(s) : s \in ToSet(Blocks(n)[b])}
           later0 == UNION {Nodes(s) : s \in ToSet(Blocks(n)[c])}
       IN  /\ b < c
           /\ \/ Writes(CallsOf("set_variable", earlier)) \cap UNION {Reads(m) : m \in later0} # {}
              \/ Writes(earlier) \cap UNION {Reads(m) : m \in CallsOf("get_variable", later0)} # {}

Followed ==
  /\ ~LeavesFile
  /\ \A n \in AllNodes : ~(MixesBranches(n) \/ HidesInLoop(n) \/ CarriesAround(n) \/ TakesSeveral(n))
\* y = get_variable('x'),  y = {x: 1},  and  x  as a statement of a file or of the
\* body of a loop: none is a use of x (:1690-1735).
ReadsUnseen(n) ==
  \/ Is(n, "FunctionExpression") /\ n.name = "get_variable"
  \/ Is(n, "KeyValueItem") /\ Is(n.kids[1], "IdExpression")
  \/ n.type \in {"BuildDefinition", "IterationStatement"} /\ \E s \in ToSet(Blocks(n)[1]) : Bare(s)

\* if meson.version().version_compare('<1.2'), or one of several conditions:
\* the block is taken to run with 1.2 at least (:2445-2468).
Compares(n) == Is(n, "MethodExpression") /\ n.name = "version_compare"
MistakesVersion(n) ==
  \/ Compares(n) /\ Args(n)[1].text[1] # ">="
  \/ Is(n, "BinaryExpression") /\ n.name = "or" /\ \E m \in Nodes(n) : Compares(m)

\* v = meson.version()  v = '2': v is still taken for the version (:363).
KeepsVersion(n) ==
  /\ Is(n, "AssignmentStatement") /\ n.kids[2].name = "version"
  /\ \E m \in AllNodes \ {n} : n.kids[1].name \in Wrote(m)
-----------------------------------------------------------------------------
RECURSIVE HasType(_, _)
\* A value is of one of the types.  A list is of the type of a list only, and
\* its items are of what the list is said to hold.
HasType(v, types) ==
  \E t \in types :
    \/ t.tag = "any"
    \/ /\ v.kind = "list" /\ t.tag = "list"
       /\ \A i \in DOMAIN v.items : HasType(v.items[i], t.of)
    \/ /\ v.kind = "dict" /\ t.tag = "dict"
       /\ \A i \in DOMAIN v.items : HasType(v.items[i][2], t.of)
    \/ {v.kind, t.tag} \cap {"list", "dict"} = {} /\ Compatible(T(v.kind), T(t.tag))

\* Every expression a run evaluates was visited, and the value is of a type
\* that is shown for it, unless none is: through branches, loops,
\* subdirectories and edits.  An entry of a dictionary is no value.
TypesCoverRuns ==
  Followed =>
  \A x \in NextEvaluated : \E s \in sights :
    /\ s.at = x.at
    /\ \A e \in {n \in DOMAIN s.types : s.types[n] # {} /\ ~Is(n, "KeyValueItem")} :
         \A v \in R!Evaluate(e) : v.kind # "void" => HasType(v, s.types[e])

Errors == {"operator", "ternary", "condition", "function", "option", "positional", "keyword",
           "missing", "type", "count", "format", "method", "identifier", "void", "readonly", "loop",
           "ids", "directory", "syntax", "project"}

\* What is reported as an error is one, and what is reported as dead is not
\* reached: no run gets past it.
NoFalseErrors ==
  Followed => \A n \in found : n.kind \in Errors \cup {"dead"} => n.at \notin passed

\* An assignment that is reported as unused is never read.
UnusedIsUnread ==
  (\A n \in AllNodes : ~CarriesAround(n) /\ ~ReadsUnseen(n)) => \A n \in found : n.kind = "unused" => n.at \notin read

\* The number of a part of a version.
Plain(v) == [i \in DOMAIN v |-> FoldLeft(LAMBDA n, d : 10 * n + d, 0, v[i])]

SinceOf(e) ==
  {f.since : f \in CASE Is(e, "FunctionExpression") -> LookupFunction(e.name)
                     [] Is(e, "MethodExpression") -> AnyMethod(e.name)
                     [] OTHER -> {}}

\* A call that the version of this run does not have was warned about.
NewCallsAreWarned ==
  (\A n \in AllNodes : ~MistakesVersion(n) /\ ~KeepsVersion(n)) =>
  \A x \in NextEvaluated : \A e \in Nodes(x.node) :
    (\E v \in SinceOf(e) : R!Newer(Plain(v), version)) => [at |-> x.at, kind |-> "since", node |-> e] \in found

\* A loop over a list with two identifiers, or over a dictionary with one, is
\* reported when nothing else is known of the value.
LoopIdsReported ==
  R!InBlock /\ Is(R!Current, "IterationStatement") =>
    \A v \in R!Evaluate(Items(R!Current)) :
      /\ v.kind \in {"list", "dict"} /\ R!Bindings(v, Ids(R!Current)) = {}
      /\ \E s \in sights : s.at = Key(place) /\ TagsOf(s.types[Items(R!Current)]) = {v.kind}
      => [at |-> Key(place), kind |-> "ids", node |-> Items(R!Current)] \in found
=================================================================================
