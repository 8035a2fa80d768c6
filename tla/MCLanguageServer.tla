--------------------------- MODULE MCLanguageServer ---------------------------
(***************************************************************************)
(* Small instances of LanguageServer: a project with a subdirectory, and a *)
(* subproject.  The root meson.build may leave its subdirectory out.       *)
(***************************************************************************)
EXTENDS LanguageServer, TLC

CONSTANTS
  root, sub,             \* the trees
  main, subdir, subMain  \* their build files

MCWorkspaceOf == [t \in Trees |-> 1]
MCTreeOf == [f \in Files |-> IF f = subMain THEN sub ELSE root]
MCMainFile == [t \in Trees |-> IF t = sub THEN subMain ELSE main]
MCDisk == [f \in Files |-> "warns"]
MCCovers ==
  [t \in Trees |-> [x \in Texts |->
     {f \in Files : MCTreeOf[f] = t /\ (f = subdir => x # "nosubdir")}]]

\* The same with the subproject turned into a workspace folder of its own.
MCTwoWorkspaceOf == [t \in Trees |-> IF t = sub THEN 2 ELSE 1]

HandlerSymmetry == Permutations(Handlers)
=============================================================================
