-------------------------------- MODULE MesonTree --------------------------------
(***************************************************************************)
(* A tree (libanalyze/mesontree.cpp): the build files of one project, and  *)
(* what their analysis leaves behind.  The scope of the type analyzer is   *)
(* the one of the tree, and outlives the analysis.                         *)
(***************************************************************************)
EXTENDS TypeAnalyzer

VARIABLES
  parsed       \* "no", "now" or "yes"

treeVars == <<files, analyzer, found, sights, parsed>>

\* The version of a tree whose project call asks for none.
NoVersion == LET part == <<9, 9, 9, 9>> IN <<part, part, part>>

Predefined ==
  [name \in {"meson", "build_machine", "host_machine", "target_machine"} |-> {T(name)}]

NewTree(project) ==
  /\ files = project
  /\ analyzer = Fresh(<<>>, NoVersion)
  /\ found = {}
  /\ sights = {}
  /\ parsed = "no"

PartialParse ==
  /\ parsed = "no"
  /\ IF Root \in DOMAIN files
     THEN parsed' = "now" /\ BeginRoot(Predefined @@ analyzer.scope, analyzer.version)
     ELSE parsed' = "yes" /\ UNCHANGED <<analyzer, found>>
  /\ UNCHANGED <<files, sights>>

\* One step of the visitor.
Parse ==
  /\ parsed = "now" /\ Visit
  /\ parsed' = IF analyzer'.at = <<>> THEN "yes" ELSE "now"

\* The scope is not cleared.
Cleared == Fresh(analyzer.scope, NoVersion)

\* An edit: the tree is cleared, and will be parsed again.
Clear(project) ==
  /\ parsed = "yes"
  /\ files' = project
  /\ analyzer' = Cleared
  /\ found' = {}
  /\ sights' = {}
  /\ parsed' = "no"
==================================================================================
