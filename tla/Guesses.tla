-------------------------------- MODULE Guesses --------------------------------
(***************************************************************************)
(* The partial interpreter next to the runs of the program it looks at:    *)
(* when a run calls subdir, what it calls it with is one of the guesses.   *)
(***************************************************************************)
EXTENDS PartialInterpreter

CONSTANTS
  Programs,    \* the build files, in families: the first, the middle and the
               \* last statements that are combined with each other
  Paths        \* [text of a path -> "dir", "file" or "symlink"]

VARIABLES
  program,     \* the build file
  place, env, pending, version,
  called       \* the calls of subdir in this run: what with, and the guesses

vars == <<program, place, env, pending, version, called>>

R == INSTANCE MesonRun

Init ==
  /\ \E family \in Programs :
       \E first \in family[1], middle \in family[2], last \in family[3] :
         program = first \o middle \o last
  /\ R!Begin(BuildDefinition(program))
  /\ version = <<1>>
  /\ called = {}

\* subdir(e), with what is guessed for e at that place.
Subdir ==
  /\ R!IsCall("subdir")
  /\ \E v \in R!Evaluate(Args(R!Current)[1]) :
       /\ v.kind = "str"
       /\ called' = called \cup {[text |-> v.text, guesses |-> GuessSetVariable(place, R!Current)]}
  /\ place' = R!Advanced(place)
  /\ UNCHANGED <<program, env, pending, version>>

Next ==
  \/ Subdir
  \/ (R!Assign \/ R!Select \/ R!Iterate \/ R!EndBlock) /\ UNCHANGED <<program, called>>

Spec == Init /\ [][Next]_vars
-----------------------------------------------------------------------------
(***************************************************************************)
(* What the partial interpreter does not follow, each with an example.     *)
(***************************************************************************)
NodesOf(nodes) == UNION {Nodes(n) : n \in ToSet(nodes)}

NamesRead(nodes) ==
  {n.name : n \in {m \in nodes : Is(m, "IdExpression")}}
  \cup {Interpolated[a] : a \in (DOMAIN Interpolated) \cap UNION {ToSet(n.text) : n \in nodes}}

\* The names a statement reads; the left side of "=" is not read.
Reads(stmt) ==
  IF Is(stmt, "AssignmentStatement") THEN NamesRead(Nodes(stmt.kids[2])) ELSE NamesRead(Nodes(stmt))
Writes(stmt) == {n.kids[1].name : n \in {m \in Nodes(stmt) : Is(m, "AssignmentStatement")}}

\* x = 'a'  x += 'b': the pieces are kept apart (:492, :537).
AppendsText(n) ==
  Is(n, "AssignmentStatement") /\ n.name = "+=" /\ ~Is(n.kids[2], "ArrayLiteral")

\* x = f'@y@': only what is calculated for the call itself is filled in (:1299).
KeepsFormat(n) ==
  Is(n, "AssignmentStatement") /\ \E m \in Nodes(n.kids[2]) : Is(m, "StringLiteral") /\ m.name = "f"

\* x.split()[0]: the words of all that x may be are put into one array (:1357);
\* subdir(x.split(',')[0]): only an assignment looks at the separator (:1191).
SplitsWords(n) == Is(n, "MethodExpression") /\ n.name = "split" /\ Args(n) = <<>>
SplitsInCall(n) ==
  /\ Is(n, "FunctionExpression") /\ n.name = "subdir"
  /\ \E m \in Nodes(n) : Is(m, "MethodExpression") /\ m.name = "split"

\* if c  x = 'a'  else  subdir(x)  endif: the search goes from a branch to those
\* before it, and ends there (:630-653).
ReadsOtherBranch(n) ==
  /\ Is(n, "SelectionStatement")
  /\ \E b, c \in DOMAIN Blocks(n) :
       /\ b < c
       /\ \E s \in ToSet(Blocks(n)[b]), t \in ToSet(Blocks(n)[c]) :
            Is(s, "AssignmentStatement") /\ s.kids[1].name \in Reads(t)

\* foreach i : ...  x = x / i  endforeach: one round is looked at (:514-541).
CarriesAround(n) ==
  /\ Is(n, "IterationStatement")
  /\ \E j, k \in DOMAIN Blocks(n)[1] :
       j <= k /\ Reads(Blocks(n)[1][j]) \cap Writes(Blocks(n)[1][k]) # {}

\* foreach i : ...  endforeach  subdir(i): the variable of a loop (:720).
ReadsAfterLoop ==
  \E n \in NodesOf(program) :
    /\ Is(n, "IterationStatement")
    /\ \E s \in ToSet(program) : n \notin Nodes(s) /\ Reads(s) \cap ToSet(Ids(n)) # {}

Followed ==
  /\ \A n \in NodesOf(program) :
       ~(\/ AppendsText(n) \/ KeepsFormat(n) \/ SplitsWords(n) \/ SplitsInCall(n)
         \/ ReadsOtherBranch(n) \/ CarriesAround(n))
  /\ ~ReadsAfterLoop
-----------------------------------------------------------------------------
\* Whatever a run calls subdir with was guessed, in all programs that are
\* followed: through branches, loops, lists, dictionaries and string methods.
GuessesCoverRuns == Followed => \A c \in called : c.text \in c.guesses

Straight ==
  \A n \in NodesOf(program) :
    /\ n.type \notin {"SelectionStatement", "IterationStatement", "ConditionalExpression"}
    /\ n.name # "get_option"

\* x = ['a'] + ['b']: both lists are what x may be, each with its own x[0] (:775-798).
KeepsApart(n) ==
  /\ n.type \in {"BinaryExpression", "AssignmentStatement"} /\ n.name \in {"+", "+="}
  /\ \E kid \in ToSet(n.kids) : kid.type \in {"ArrayLiteral", "DictionaryLiteral"}

\* Where nothing is left to choose the guess is the value: an assignment
\* hides the earlier ones, and no directory is looked for that no run enters.
NoPhantoms ==
  Followed /\ Straight /\ (\A n \in NodesOf(program) : ~KeepsApart(n))
    => \A c \in called : c.guesses \subseteq {c.text}
===============================================================================
