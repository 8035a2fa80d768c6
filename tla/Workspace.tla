------------------------------ MODULE Workspace ------------------------------
(***************************************************************************)
(* A Workspace of the language server (liblangserver/workspace.hpp, .cpp): *)
(* the parsed source trees of one workspace folder, the two binary         *)
(* semaphores that guard them, and the update task that re-analyses a tree *)
(* after an edit.                                                          *)
(*                                                                         *)
(* A tree is what one MesonTree holds: the project of the folder (the root *)
(* tree) or one of its subprojects.  A file belongs to at most one tree,   *)
(* so what the code keeps per tree and path is kept here per file.  A text *)
(* is the whole contents of a build file; its diagnostics are represented  *)
(* by the text they were computed from.                                    *)
(***************************************************************************)
EXTENDS Naturals, FiniteSets

CONSTANTS
  NumWorkspaces,  \* number of workspace folders
  Trees,          \* the source trees of all workspaces
  RootTrees,      \* those of depth 0; the others are subprojects
  WorkspaceOf,    \* the workspace of each tree
  Files,          \* the build files
  TreeOf,         \* the tree each file belongs to
  MainFile,       \* the meson.build in the root directory of each tree
  Texts,          \* the contents a build file may have
  NoText,         \* no contents, no syntax tree, no diagnostics
  Faulty,         \* the texts the analysis has something to say about
  Covers,         \* Covers[t][x]: the files visited when MainFile[t] reads x
  Disk,           \* the text of each file on disk
  ParseMayThrow,  \* can MesonTree::partialParse throw?
  QueryMayThrow,  \* can the evaluation of a query throw?
  PublishMayThrow \* can diagnostics hold what JSON cannot express?

Workspaces == 1 .. NumWorkspaces
Contents == Texts \cup {NoText}
Entries == [file : Files, diag : Contents]

ASSUME WorkspaceAssumption ==
  /\ NumWorkspaces \in Nat \ {0}
  /\ RootTrees \subseteq Trees
  /\ WorkspaceOf \in [Trees -> Workspaces]
  /\ \A w \in Workspaces : \E t \in RootTrees : WorkspaceOf[t] = w
  /\ TreeOf \in [Files -> Trees]
  /\ MainFile \in [Trees -> Files]
  /\ NoText \notin Texts
  /\ Faulty \subseteq Texts
  /\ Disk \in [Files -> Texts]
  /\ Covers \in [Trees -> [Texts -> SUBSET Files]]
  /\ \A t \in Trees, x \in Texts :
       /\ MainFile[t] \in Covers[t][x]
       /\ \A f \in Covers[t][x] : TreeOf[f] = t
  /\ ParseMayThrow \in BOOLEAN
  /\ QueryMayThrow \in BOOLEAN
  /\ PublishMayThrow \in BOOLEAN

VARIABLES
  ast,         \* MesonTree::asts, ownedFiles: the text of the tree of a file
  overrides,   \* MesonTree::overrides: the contents received from the editor
  reading,     \* Workspace::reading, a binary semaphore
  writing,     \* Workspace::writing, a binary semaphore
  completing,  \* Workspace::completing
  task,        \* the update task of a workspace
  shown        \* the diagnostics the client displays for a file

treeVars == <<ast, overrides>>
workspaceVars == <<ast, overrides, reading, writing, completing, task, shown>>

-----------------------------------------------------------------------------
(***************************************************************************)
(* The trees.                                                              *)
(***************************************************************************)
FilesOf(t) == {f \in Files : TreeOf[f] = t}
FilesIn(w) == {f \in Files : WorkspaceOf[TreeOf[f]] = w}

\* A file is in ownedFiles exactly when its syntax tree is in asts.
Owned(w) == {f \in FilesIn(w) : ast[f] # NoText}

\* What MesonTree::parseFile reads: the editor's contents before the disk's.
Effective(ov, f) == IF ov[f] # NoText THEN ov[f] ELSE Disk[f]

\* The files the analysis of tree t visits, starting from its main file.
Visited(ov, t) == Covers[t][Effective(ov, MainFile[t])]

\* Seeded fault: only the main file is taken from the editor.
ParsedSubdirsFromDisk(ov, t, S) ==
  [f \in Files |-> IF TreeOf[f] # t THEN ast[f]
                   ELSE IF f \notin S THEN NoText
                   ELSE IF f = MainFile[t] THEN Effective(ov, f) ELSE Disk[f]]

\* The trees of partialParse on t, when it analyses the files S of t.
Parsed(ov, t, S) ==
  [f \in Files |-> IF TreeOf[f] # t THEN ast[f]
                   ELSE IF f \in S THEN Effective(ov, f) ELSE NoText]

Diagnosis(x) == IF x \in Faulty THEN x ELSE NoText

\* The files with an entry in the metadata.diagnostics of one of the trees.
Diagnosed(S) == {f \in S : Diagnosis(ast[f]) # NoText}

NoTask == [step |-> "none", tree |-> CHOOSE t \in Trees : TRUE,
           dangling |-> FALSE, old |-> {}, out |-> {}]

TaskSteps == {"none", "parse", "publish", "writing", "abort", "abortReading"}

-----------------------------------------------------------------------------
(***************************************************************************)
(* Publishing.  publishDiagnostics sends two notifications per file, one   *)
(* that clears it and one with its new diagnostics; the output mutex keeps *)
(* each whole.  They are one step here: the flicker between the two is not *)
(* modelled, the interleaving of several publishers file by file is.       *)
(***************************************************************************)
Publish(e) == shown' = [shown EXCEPT ![e.file] = e.diag]

\* The file is cleared, but its diagnostics quote text that is not UTF-8.
PublishThrows(e) ==
  /\ PublishMayThrow
  /\ e.diag # NoText
  /\ shown' = [shown EXCEPT ![e.file] = NoText]

Clearings(S) == {[file |-> f, diag |-> NoText] : f \in S}

\* Seeded fault: nothing for the files that have no diagnostics any more.
UpdateResultWithoutOld(new, t, old) ==
  {[file |-> f, diag |-> Diagnosis(new[f])] :
     f \in {g \in FilesOf(t) : Diagnosis(new[g]) # NoText}}

\* The result of update: the new diagnostics of the tree t, and an empty
\* list for every file that had some before and has none now.
UpdateResult(new, t, old) ==
  {[file |-> f, diag |-> Diagnosis(new[f])] :
     f \in {g \in FilesOf(t) : Diagnosis(new[g]) # NoText} \cup old}

-----------------------------------------------------------------------------
StartUpdate(w, t) ==
  task' = [task EXCEPT ![w] = [step |-> "parse", tree |-> t, dangling |-> FALSE,
                               old |-> Diagnosed(FilesOf(t)), out |-> {}]]

Clear(t) == ast' = [g \in Files |-> IF TreeOf[g] = t THEN NoText ELSE ast[g]]

\* Seeded faults: the tree is not cleared; the new contents are not kept.
PatchWithoutClear(w, f, x) ==
  IF f \in Owned(w)
  THEN /\ StartUpdate(w, TreeOf[f])
       /\ overrides' = [overrides EXCEPT ![f] = x]
       /\ UNCHANGED ast
  ELSE UNCHANGED <<task, ast, overrides>>

PatchWithoutOverride(w, f, x) ==
  IF f \in Owned(w)
  THEN StartUpdate(w, TreeOf[f]) /\ Clear(TreeOf[f]) /\ UNCHANGED overrides
  ELSE UNCHANGED <<task, ast, overrides>>

(***************************************************************************)
(* Workspace::patchFile once it has both semaphores: the tree that owns    *)
(* the file is cleared, the new contents override the disk's, and the      *)
(* update task starts, which now holds the semaphores.  Without such a     *)
(* tree patchFile returns and nobody releases them.                        *)
(***************************************************************************)
Patch(w, f, x) ==
  IF f \in Owned(w)
  THEN /\ StartUpdate(w, TreeOf[f])
       /\ Clear(TreeOf[f])
       /\ overrides' = [overrides EXCEPT ![f] = x]
  ELSE UNCHANGED <<task, ast, overrides>>

(***************************************************************************)
(* Workspace::update, run by the task on the tree it was started for.  If  *)
(* the tree was freed meanwhile the result is whatever the memory holds.   *)
(***************************************************************************)
ParseSucceeds(w) ==
  LET t == task[w].tree
      new == Parsed(overrides, t, Visited(overrides, t))
  IN /\ task[w].step = "parse"
     /\ ~task[w].dangling
     /\ ast' = new
     /\ task' = [task EXCEPT ![w].step = "publish",
                             ![w].out = UpdateResult(new, t, task[w].old)]
     /\ UNCHANGED <<overrides, reading, writing, completing, shown>>

\* The exception leaves the tree with the files analysed so far.
ParseThrows(w) ==
  LET t == task[w].tree IN
  /\ ParseMayThrow
  /\ task[w].step = "parse"
  /\ ~task[w].dangling
  /\ \E S \in SUBSET Visited(overrides, t) : ast' = Parsed(overrides, t, S)
  /\ task' = [task EXCEPT ![w].step = "abort",
                          ![w].out = Clearings(task[w].old)]
  /\ UNCHANGED <<overrides, reading, writing, completing, shown>>

ParseFreedTree(w) ==
  /\ task[w].step = "parse"
  /\ task[w].dangling
  /\ \/ \E new \in [FilesOf(task[w].tree) -> Contents] :
          task' = [task EXCEPT
            ![w].step = "publish",
            ![w].out = UpdateResult(new, task[w].tree, task[w].old)]
     \/ /\ ParseMayThrow
        /\ task' = [task EXCEPT ![w].step = "abort",
                                ![w].out = Clearings(task[w].old)]
  /\ UNCHANGED <<ast, overrides, reading, writing, completing, shown>>

TaskPublishes(w) ==
  /\ task[w].step \in {"publish", "abort"}
  /\ \E e \in task[w].out :
       /\ Publish(e)
       /\ task' = [task EXCEPT ![w].out = @ \ {e}]
  /\ UNCHANGED <<ast, overrides, reading, writing, completing>>

\* An exception while publishing ends update with both semaphores acquired.
TaskPublishThrows(w) ==
  /\ task[w].step \in {"publish", "abort"}
  /\ \E e \in task[w].out : PublishThrows(e)
  /\ task' = [task EXCEPT ![w] = NoTask]
  /\ UNCHANGED <<ast, overrides, reading, writing, completing>>

\* Seeded faults: reading is released before everything is published, either
\* for the rest of update or in the middle of it.
TaskReleasesReadingTwice(w) ==
  /\ task[w].step = "publish"
  /\ reading' = [reading EXCEPT ![w] = 1]
  /\ UNCHANGED <<ast, overrides, writing, completing, task, shown>>

TaskSkipsPublishing(w) ==
  /\ task[w].step = "publish"
  /\ task' = [task EXCEPT ![w].step = "writing"]
  /\ reading' = [reading EXCEPT ![w] = 1]
  /\ UNCHANGED <<ast, overrides, writing, completing, shown>>

\* Seeded faults: a failed update keeps reading, a successful one writing.
TaskAbortKeepsReading(w) ==
  /\ \/ task[w].step = "writing"
     \/ task[w].step = "abort" /\ task[w].out = {}
  /\ task' = [task EXCEPT ![w] = NoTask]
  /\ writing' = [writing EXCEPT ![w] = 1]
  /\ UNCHANGED <<ast, overrides, reading, completing, shown>>

TaskKeepsWriting(w) ==
  /\ task[w].step = "writing"
  /\ task' = [task EXCEPT ![w] = NoTask]
  /\ UNCHANGED <<ast, overrides, reading, writing, completing, shown>>

(***************************************************************************)
(* Once everything is published, update recomputes foundTrees (the same    *)
(* trees, or those of a reparse) and gives both semaphores back: reading   *)
(* first on success, writing first on failure.                             *)
(***************************************************************************)
TaskReleasesReading(w) ==
  /\ \/ /\ task[w].step = "publish"
        /\ task[w].out = {}
        /\ task' = [task EXCEPT ![w].step = "writing"]
     \/ /\ task[w].step = "abortReading"
        /\ task' = [task EXCEPT ![w] = NoTask]
  /\ reading' = [reading EXCEPT ![w] = 1]
  /\ UNCHANGED <<ast, overrides, writing, completing, shown>>

TaskReleasesWriting(w) ==
  /\ \/ /\ task[w].step = "writing"
        /\ task' = [task EXCEPT ![w] = NoTask]
     \/ /\ task[w].step = "abort"
        /\ task[w].out = {}
        /\ task' = [task EXCEPT ![w].step = "abortReading"]
  /\ writing' = [writing EXCEPT ![w] = 1]
  /\ UNCHANGED <<ast, overrides, reading, completing, shown>>

TaskStep(w) ==
  \/ ParseSucceeds(w)
  \/ ParseThrows(w)
  \/ ParseFreedTree(w)
  \/ TaskPublishes(w)
  \/ TaskPublishThrows(w)
  \/ TaskReleasesReading(w)
  \/ TaskReleasesWriting(w)
=============================================================================
