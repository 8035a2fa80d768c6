------------------------------ MODULE ServiceProofs ------------------------------
(***************************************************************************)
(* A workspace is the monitor that AnalysisService describes, for any      *)
(* number of workspaces, trees, files, threads and messages, whatever is   *)
(* edited, closed, asked, reconfigured or thrown: edits and queries do not *)
(* overlap, what the editor sent wins, and answers are current.  Where a   *)
(* reparse frees the trees under their users, nothing is said of what they *)
(* see then; that it harms nobody else is part of what is proved.          *)
(***************************************************************************)
EXTENDS LanguageServerProofs

-----------------------------------------------------------------------------
USE DEF workspaceVars, treeVars, threadVars, serverVars, clientVars

(***************************************************************************)
(* The tree of a file is made from what the editor sent, always: every     *)
(* step that changes one of the two brings them into line.                 *)
(***************************************************************************)
LEMMA ParsedFromEditor ==
  ASSUME TypeOK, EditorWinsOverDisk, NEW t, NEW S, NEW f \in Files,
         overrides[f] # NoText
  PROVE  Parsed(overrides, t, S)[f] \in {NoText, overrides[f]}
BY DEF Parsed, Effective, EditorWinsOverDisk

LEMMA UpdateEditorWins ==
  ASSUME TypeOK, EditorWinsOverDisk, NEW w \in Workspaces, Update(w)
  PROVE  EditorWinsOverDisk'
<1>1. UNCHANGED overrides
  BY DEF Update, TaskStep, ParseSucceeds, ParseThrows, ParseFreedTree,
     TaskPublishes, TaskPublishThrows, TaskReleasesReading, TaskReleasesWriting
<1>2. \/ UNCHANGED ast
      \/ \E t, S : ast' = Parsed(overrides, t, S)
  BY DEF Update, TaskStep, ParseSucceeds, ParseThrows, ParseFreedTree,
     TaskPublishes, TaskPublishThrows, TaskReleasesReading, TaskReleasesWriting
<1>3. CASE UNCHANGED ast
  BY <1>1, <1>3 DEF EditorWinsOverDisk
<1>4. ASSUME NEW t, NEW S, ast' = Parsed(overrides, t, S)
      PROVE  EditorWinsOverDisk'
  BY <1>1, <1>4, ParsedFromEditor DEF EditorWinsOverDisk
<1> QED BY <1>2, <1>3, <1>4

\* A step of a thread that leaves trees, edits and updates alone.
Aside(h) ==
  /\ UNCHANGED <<ast, overrides, task>>
  /\ dangling' \subseteq dangling

LEMMA StepAside ==
  ASSUME NEW h \in Threads, Step(h)
  PROVE  PatchFile(h) \/ DropCache(h) \/ Reparse(h) \/ Aside(h)
BY DEF Step, Aside, AcquireSmph, ForeignChange, ReleaseSmph, Owns, AcquireWriting,
   AcquireReading, Read, ReadThrows, Answer, Format, EraseCachedContents,
   UpdateOptions, ClearDiagnostics, PublishOld, ReparseThrows, PublishNew,
   PublishNewThrows, Initialized, Shutdown

LEMMA StepEditorWins ==
  ASSUME TypeOK, EditorWinsOverDisk, NEW h \in Threads, Step(h)
  PROVE  EditorWinsOverDisk'
<1>1. CASE PatchFile(h)
  <2>1. CASE msg[h].file \in Owned(at[h])
    BY <1>1, <2>1 DEF PatchFile, Patch, Clear, EditorWinsOverDisk, TypeOK
  <2>2. CASE msg[h].file \notin Owned(at[h])
    BY <1>1, <2>2 DEF PatchFile, Patch, EditorWinsOverDisk
  <2> QED BY <2>1, <2>2
<1>2. CASE DropCache(h)
  BY <1>2 DEF DropCache, EditorWinsOverDisk, TypeOK
<1>3. CASE Reparse(h)
  BY <1>3 DEF Reparse, EditorWinsOverDisk, TypeOK
<1>4. CASE Aside(h)
  BY <1>4 DEF Aside, EditorWinsOverDisk
<1> QED BY <1>1, <1>2, <1>3, <1>4, StepAside

(***************************************************************************)
(* Contents that the editor sent win over those on disk, for every file of *)
(* every tree at any time: whatever is parsed anew, fails or is closed.    *)
(***************************************************************************)
THEOREM EditorWins == Spec => []EditorWinsOverDisk
<1>1. Init => EditorWinsOverDisk
  BY DEF Init, EditorWinsOverDisk
<1>2. TypeOK /\ EditorWinsOverDisk /\ [Next]_vars => EditorWinsOverDisk'
  <2> SUFFICES ASSUME TypeOK, EditorWinsOverDisk, [Next]_vars
               PROVE  EditorWinsOverDisk'
    OBVIOUS
  <2>1. CASE Environment
    <3>1. UNCHANGED <<ast, overrides>>
      BY <2>1, EnvironmentStarts DEF Start
    <3> QED BY <3>1 DEF EditorWinsOverDisk
  <2>2. CASE UNCHANGED vars
    BY <2>2 DEF vars, EditorWinsOverDisk
  <2> QED
    BY <2>1, <2>2, StepEditorWins, UpdateEditorWins DEF Next, Rest
<1> QED BY <1>1, <1>2, TypeCorrect, PTL DEF Spec


-----------------------------------------------------------------------------
(***************************************************************************)
(* Why answers are current: an update works on a tree of its workspace,    *)
(* and a thread that found the workspace of its file stays there.  What a  *)
(* reader of freed trees sees is not a text from before an edit, since the *)
(* edits of its workspace are forgotten.                                   *)
(***************************************************************************)
TasksAtHome ==
  \A w \in Workspaces :
    task[w].step # "none" => WorkspaceOf[task[w].tree] = w

\* Where a thread needs the workspace of its file.
Placed == {"writing", "reading", "acquire", "read", "answer", "drop"}

ThreadsAtHome ==
  \A h \in Threads : pc[h] \in Placed => msg[h].file \in FilesIn(at[h])

FreedSeeNoEdits ==
  \A h \in dangling :
    pc[h] \in {"read", "answer"} /\ overrides[msg[h].file] = NoText

ServiceInv ==
  /\ TasksAtHome
  /\ ThreadsAtHome
  /\ FreedSeeNoEdits
  /\ AnswersSeeAcceptedEdits

\* All that is known of a state before a step.
Known == TypeOK /\ SemaphoresInv /\ EditorWinsOverDisk /\ ServiceInv

LEMMA StartKeepsService == ASSUME Known, Environment PROVE ServiceInv'
<1>1. PICK h \in Threads, m \in Messages :
        Start(h, m) /\ \A g \in Threads \ {h} : at'[g] = at[g]
  BY EnvironmentStarts DEF Known
<1>2. /\ UNCHANGED <<ast, overrides, task, seen, dangling>>
      /\ msg' = [msg EXCEPT ![h] = m] /\ pc[h] = "idle"
      /\ pc' = [pc EXCEPT ![h] = Entry(m.kind)]
  BY <1>1 DEF Start
<1>3. Entry(m.kind) \notin Placed
  BY DEF Messages, Entry, Kinds, QueryKinds, Placed
<1>4. TasksAtHome'
  BY <1>2 DEF Known, ServiceInv, TasksAtHome
<1>5. ThreadsAtHome'
  BY <1>1, <1>2, <1>3 DEF Known, TypeOK, ServiceInv, ThreadsAtHome, FilesIn
<1>6. FreedSeeNoEdits'
  BY <1>1, <1>2 DEF Known, TypeOK, ServiceInv, FreedSeeNoEdits
<1>7. AnswersSeeAcceptedEdits'
  BY <1>2, <1>3 DEF Known, TypeOK, ServiceInv, AnswersSeeAcceptedEdits, Placed
<1> QED BY <1>4, <1>5, <1>6, <1>7 DEF ServiceInv

-----------------------------------------------------------------------------
(***************************************************************************)
(* An update changes its own tree, and only while it has reading.          *)
(***************************************************************************)
LEMMA ParsedElsewhere ==
  ASSUME NEW ov, NEW t, NEW S, NEW f \in Files, TreeOf[f] # t
  PROVE  Parsed(ov, t, S)[f] = ast[f]
BY DEF Parsed

LEMMA UpdateChanges ==
  ASSUME Known, NEW w \in Workspaces, Update(w)
  PROVE  /\ UNCHANGED <<overrides, completing, threadVars, smph>>
         /\ \A f \in Files : ast'[f] # ast[f] =>
              UpdateReads(w) /\ ~task[w].dangling /\ f \in FilesIn(w)
         /\ \A v \in Workspaces \ {w} : /\ task'[v] = task[v]
                                        /\ reading'[v] = reading[v]
                                        /\ writing'[v] = writing[v]
         /\ UpdateReads(w)' => UpdateReads(w)
         /\ task'[w].dangling => task[w].dangling
         /\ task'[w].step # "none" =>
              /\ task[w].step # "none" /\ task'[w].tree = task[w].tree
              /\ task'[w].dangling = task[w].dangling
<1>0. /\ task \in [Workspaces -> Tasks]
      /\ task[w].step # "none" => WorkspaceOf[task[w].tree] = w
      /\ reading \in [Workspaces -> {0, 1}] /\ writing \in [Workspaces -> {0, 1}]
  BY DEF Known, TypeOK, ServiceInv, TasksAtHome
<1> USE <1>0 DEF Update, Tasks, UpdateReads
<1>1. CASE ParseSucceeds(w)
  <2>1. \A f \in Files : ast'[f] # ast[f] => f \in FilesIn(w)
    BY <1>1, ParsedElsewhere DEF ParseSucceeds, FilesIn
  <2> QED BY <1>1, <2>1 DEF ParseSucceeds
<1>2. CASE ParseThrows(w)
  <2>1. \A f \in Files : ast'[f] # ast[f] => f \in FilesIn(w)
    BY <1>2, ParsedElsewhere DEF ParseThrows, FilesIn
  <2> QED BY <1>2, <2>1 DEF ParseThrows
<1>3. CASE ParseFreedTree(w)
  <2>1. \/ \E o : task' = [task EXCEPT ![w].step = "publish", ![w].out = o]
        \/ \E o : task' = [task EXCEPT ![w].step = "abort", ![w].out = o]
    BY <1>3, Zenon DEF ParseFreedTree
  <2>2. ASSUME NEW s \in {"publish", "abort"}, NEW o,
               task' = [task EXCEPT ![w].step = s, ![w].out = o]
        PROVE  /\ task'[w].step = s /\ task'[w].tree = task[w].tree
               /\ task'[w].dangling = task[w].dangling
               /\ \A v \in Workspaces \ {w} : task'[v] = task[v]
    BY <2>2
  <2>3. /\ task'[w].step \in {"publish", "abort"} /\ task'[w].tree = task[w].tree
        /\ task'[w].dangling = task[w].dangling
        /\ \A v \in Workspaces \ {w} : task'[v] = task[v]
    BY <2>1, <2>2
  <2> QED BY <1>3, <2>3 DEF ParseFreedTree
<1>4. CASE TaskPublishes(w)
  BY <1>4 DEF TaskPublishes
<1>5. CASE TaskPublishThrows(w)
  BY <1>5 DEF TaskPublishThrows, NoTask
<1>6. CASE TaskReleasesReading(w)
  BY <1>6 DEF TaskReleasesReading, NoTask
<1>7. CASE TaskReleasesWriting(w)
  BY <1>7 DEF TaskReleasesWriting, NoTask
<1> QED BY <1>1, <1>2, <1>3, <1>4, <1>5, <1>6, <1>7 DEF TaskStep

LEMMA UpdateKeepsService ==
  ASSUME Known, NEW w \in Workspaces, Update(w) PROVE ServiceInv'
<1>1. ThreadsAtHome' /\ FreedSeeNoEdits' /\ AnswersSeeAcceptedEdits'
  BY UpdateChanges
  DEF Known, ServiceInv, ThreadsAtHome, FreedSeeNoEdits, AnswersSeeAcceptedEdits, FilesIn
<1>2. TasksAtHome'
  BY UpdateChanges DEF Known, ServiceInv, TasksAtHome
<1> QED BY <1>1, <1>2 DEF ServiceInv

-----------------------------------------------------------------------------
(***************************************************************************)
(* Steps of threads.                                                       *)
(***************************************************************************)
\* How a thread gets to where it needs the workspace of its file.
LEMMA StepPlaced ==
  ASSUME TypeOK, NEW h \in Threads, Step(h), pc'[h] \in Placed
  PROVE  /\ msg'[h] = msg[h] /\ at'[h] = at[h]
         /\ \/ /\ Owns(h) /\ msg[h].file \in Owned(at[h])
               /\ pc'[h] \notin {"reading", "read", "answer"}
            \/ /\ pc[h] \in Placed /\ pc[h] # "answer"
               /\ pc'[h] = "reading" => pc[h] = "writing"
               /\ pc'[h] # "writing"
               /\ pc'[h] = "answer" => Read(h)
BY DEF TypeOK, Placed, Step, AcquireSmph, ForeignChange, ReleaseSmph, Owns, AcquireWriting,
   PatchFile, AcquireReading, Read, ReadThrows, Answer, Format,
   EraseCachedContents, DropCache, UpdateOptions, ClearDiagnostics,
   PublishOld, Reparse, ReparseThrows, PublishNew, PublishNewThrows, Initialized,
   Shutdown, Finish, Continue, Goto

\* A thread sees something only for itself.
LEMMA StepSees ==
  ASSUME TypeOK, NEW h \in Threads, Step(h)
  PROVE  \A g \in Threads \ {h} : seen'[g] = seen[g]
BY DEF TypeOK, Step, AcquireSmph, ForeignChange, ReleaseSmph, Owns, AcquireWriting,
   PatchFile, AcquireReading, Read, ReadThrows, Answer, Format,
   EraseCachedContents, DropCache, UpdateOptions, ClearDiagnostics,
   PublishOld, Reparse, ReparseThrows, PublishNew, PublishNewThrows,
   Initialized, Shutdown, Finish, Continue

\* A reader of freed trees goes on to answer, or forgets them.
LEMMA FreedStep ==
  ASSUME TypeOK, NEW h \in Threads, Step(h), pc[h] \in {"read", "answer"},
         h \in dangling'
  PROVE  Read(h) /\ pc'[h] = "answer" /\ msg'[h] = msg[h]
BY DEF TypeOK, Step, AcquireSmph, ForeignChange, ReleaseSmph, Owns, AcquireWriting,
   PatchFile, AcquireReading, Read, ReadThrows, Answer, Format,
   EraseCachedContents, DropCache, UpdateOptions, ClearDiagnostics,
   PublishOld, Reparse, ReparseThrows, PublishNew, PublishNewThrows, Initialized,
   Shutdown, Finish, Goto

LEMMA AsideKeepsService ==
  ASSUME Known, NEW h \in Threads, Step(h), Aside(h) PROVE ServiceInv'
<1>1. OnlyMoves(h) /\ UNCHANGED <<ast, overrides, task>> /\ dangling' \subseteq dangling
  BY StepMoves DEF Known, Aside
<1>2. TasksAtHome'
  BY <1>1 DEF Known, ServiceInv, TasksAtHome
<1>3. \A g \in Threads \ {h} :
        pc'[g] = pc[g] /\ msg'[g] = msg[g] /\ at'[g] = at[g] /\ seen'[g] = seen[g]
  BY <1>1, StepSees DEF OnlyMoves, Known
<1>4. ThreadsAtHome'
  <2>1. pc'[h] \in Placed => msg'[h].file \in FilesIn(at'[h])
    BY StepPlaced DEF Known, ServiceInv, ThreadsAtHome, Owned
  <2> QED BY <1>3, <2>1 DEF Known, ServiceInv, ThreadsAtHome, FilesIn
<1>5. FreedSeeNoEdits'
  <2> SUFFICES ASSUME NEW g \in dangling'
               PROVE  pc'[g] \in {"read", "answer"} /\ overrides[msg'[g].file] = NoText
    BY <1>1 DEF FreedSeeNoEdits
  <2>1. g \in Threads /\ pc[g] \in {"read", "answer"} /\ overrides[msg[g].file] = NoText
    BY <1>1 DEF Known, TypeOK, ServiceInv, FreedSeeNoEdits
  <2>2. CASE g = h
    BY <2>1, <2>2, FreedStep DEF Known
  <2>3. CASE g # h
    BY <1>3, <2>1, <2>3
  <2> QED BY <2>2, <2>3
<1>6. AnswersSeeAcceptedEdits'
  <2>1. ASSUME pc'[h] = "answer"
        PROVE  /\ msg'[h] = msg[h] /\ msg[h].file \in Files
               /\ seen'[h] = ast[msg[h].file] \/ overrides[msg[h].file] = NoText
    <3>1. Read(h) /\ msg'[h] = msg[h]
      BY <2>1, StepPlaced DEF Known, Placed
    <3> QED
      BY <3>1 DEF Read, Known, TypeOK, Messages, ServiceInv, FreedSeeNoEdits
  <2> QED
    BY <1>1, <1>3, <2>1
    DEF Known, ServiceInv, AnswersSeeAcceptedEdits, EditorWinsOverDisk
<1> QED BY <1>2, <1>4, <1>5, <1>6 DEF ServiceInv

\* Edits are only forgotten, by a close or a reparse, and nobody moves into
\* the workspace of a file.
LEMMA ForgettingKeepsService ==
  ASSUME Known, NEW h \in Threads, Step(h), pc'[h] \notin Placed,
         \A f \in Files : overrides'[f] \in {NoText, overrides[f]},
         \A g \in dangling' :
           g \in dangling \/ (pc[g] = "read" /\ overrides'[msg[g].file] = NoText),
         \A w \in Workspaces :
           task'[w].step = task[w].step /\ task'[w].tree = task[w].tree,
         h \notin dangling, pc[h] # "read"
  PROVE  ServiceInv'
<1>1. \A g \in Threads \ {h} :
        pc'[g] = pc[g] /\ msg'[g] = msg[g] /\ at'[g] = at[g] /\ seen'[g] = seen[g]
  BY StepMoves, StepSees DEF OnlyMoves, Known
<1>2. \A g \in Threads : msg[g].file \in Files
  BY DEF Known, TypeOK, Messages
<1>3. dangling' \subseteq Threads
  BY StepType DEF Known, TypeOK
<1>4. TasksAtHome'
  BY DEF Known, ServiceInv, TasksAtHome
<1>5. ThreadsAtHome'
  BY <1>1 DEF Known, ServiceInv, ThreadsAtHome, FilesIn
<1>6. FreedSeeNoEdits'
  BY <1>1, <1>2, <1>3 DEF Known, ServiceInv, FreedSeeNoEdits
<1>7. AnswersSeeAcceptedEdits'
  BY <1>1, <1>2 DEF Known, ServiceInv, AnswersSeeAcceptedEdits, Placed
<1> QED BY <1>4, <1>5, <1>6, <1>7 DEF ServiceInv

LEMMA DropKeepsService ==
  ASSUME Known, NEW h \in Threads, DropCache(h) PROVE ServiceInv'
<1>1. /\ UNCHANGED <<task, dangling>> /\ pc[h] = "drop" /\ pc'[h] = "idle"
      /\ \A f \in Files : overrides'[f] \in {NoText, overrides[f]}
  BY DEF DropCache, Finish, Goto, Known, TypeOK
<1>2. h \notin dangling
  BY <1>1 DEF Known, ServiceInv, FreedSeeNoEdits
<1> QED BY <1>1, <1>2, ForgettingKeepsService DEF Step, Placed

LEMMA ReparseKeepsService ==
  ASSUME Known, NEW h \in Threads, Reparse(h) PROVE ServiceInv'
<1> DEFINE w == at[h]
<1>1. /\ pc[h] = "reparse" /\ pc'[h] \in {"publishNew", "publishOld"}
      /\ dangling' = dangling \cup {g \in Threads : pc[g] = "read" /\ at[g] = w}
      /\ overrides' = [f \in Files |-> IF f \in FilesIn(w) THEN NoText ELSE overrides[f]]
  BY DEF Reparse, Goto, Known, TypeOK
<1>2. h \notin dangling
  BY <1>1 DEF Known, ServiceInv, FreedSeeNoEdits
<1>3. \A f \in Files : overrides'[f] \in {NoText, overrides[f]}
  BY <1>1
<1>4. ASSUME NEW g \in dangling', g \notin dangling
      PROVE  pc[g] = "read" /\ overrides'[msg[g].file] = NoText
  <2>1. g \in Threads /\ pc[g] = "read" /\ at[g] = w
    BY <1>1, <1>4
  <2>2. msg[g].file \in FilesIn(w) /\ msg[g].file \in Files
    BY <2>1 DEF Known, TypeOK, Messages, ServiceInv, ThreadsAtHome, Placed
  <2> QED BY <1>1, <2>1, <2>2
<1>5. \A v \in Workspaces : task'[v].step = task[v].step /\ task'[v].tree = task[v].tree
  BY DEF Reparse, Known, TypeOK, Tasks
<1> QED BY <1>1, <1>2, <1>3, <1>4, <1>5, ForgettingKeepsService DEF Step, Placed

\* The edit has reading: nobody in its workspace is about to answer.
LEMMA PatchKeepsService ==
  ASSUME Known, NEW h \in Threads, PatchFile(h) PROVE ServiceInv'
<1> DEFINE w == at[h]
<1> DEFINE f == msg[h].file
<1>1. /\ OnlyMoves(h) /\ UNCHANGED <<msg, at, seen, dangling>>
      /\ pc[h] = "reading" /\ pc'[h] = "unlock" /\ reading[w] = 1
      /\ f \in FilesIn(w) /\ f \in Files /\ w \in Workspaces
  BY StepMoves
  DEF Step, PatchFile, Goto, Known, TypeOK, Messages, ServiceInv, ThreadsAtHome, Placed
<1>2. ThreadsAtHome'
  BY <1>1 DEF Known, ServiceInv, ThreadsAtHome, OnlyMoves, FilesIn, Placed
<1>3. TasksAtHome'
  BY <1>1
  DEF PatchFile, Patch, StartUpdate, Known, TypeOK, ServiceInv, TasksAtHome, FilesIn
<1>4. \A g \in Threads : pc[g] \in {"read", "answer"} =>
        msg[g].file \in Files /\ msg[g].file # f
  <2> SUFFICES ASSUME NEW g \in Threads, pc[g] \in {"read", "answer"}
               PROVE  msg[g].file \in Files /\ msg[g].file # f
    OBVIOUS
  <2>1. msg[g].file \in FilesIn(at[g]) /\ msg[g].file \in Files /\ at[g] \in Workspaces
    BY DEF Known, TypeOK, Messages, ServiceInv, ThreadsAtHome, Placed
  <2>2. at[g] # w
    BY <1>1, <2>1 DEF Known, SemaphoresInv, OneReads, Readers
  <2> QED BY <1>1, <2>1, <2>2 DEF FilesIn
<1>5. \A g \in Files \ {f} : overrides'[g] = overrides[g]
  BY DEF PatchFile, Patch, Known, TypeOK
<1>6. FreedSeeNoEdits'
  BY <1>1, <1>4, <1>5 DEF Known, TypeOK, ServiceInv, FreedSeeNoEdits, OnlyMoves
<1>7. AnswersSeeAcceptedEdits'
  BY <1>1, <1>4, <1>5 DEF Known, ServiceInv, AnswersSeeAcceptedEdits, OnlyMoves
<1> QED BY <1>2, <1>3, <1>6, <1>7 DEF ServiceInv

-----------------------------------------------------------------------------
LEMMA InitService == Init => ServiceInv
<1> SUFFICES ASSUME Init PROVE ServiceInv
  OBVIOUS
<1>1. dangling = {} /\ \A h \in Threads : pc[h] = "idle"
  BY DEF Init
<1>2. \A w \in Workspaces : task[w].step = "none"
  BY DEF Init, NoTask
<1> QED
  BY <1>1, <1>2 DEF ServiceInv, TasksAtHome, ThreadsAtHome, FreedSeeNoEdits,
                    AnswersSeeAcceptedEdits, Placed

LEMMA NextService == Known /\ [Next]_vars => ServiceInv'
<1> SUFFICES ASSUME Known, [Next]_vars PROVE ServiceInv'
  OBVIOUS
<1>1. CASE UNCHANGED vars
  BY <1>1
  DEF vars, Known, ServiceInv, TasksAtHome, ThreadsAtHome, FreedSeeNoEdits,
      AnswersSeeAcceptedEdits, FilesIn
<1>2. ASSUME NEW h \in Threads, Step(h) PROVE ServiceInv'
  BY <1>2, StepAside, AsideKeepsService, DropKeepsService, PatchKeepsService,
     ReparseKeepsService
<1> QED
  BY <1>1, <1>2, StartKeepsService, UpdateKeepsService DEF Next, Rest

(***************************************************************************)
(* What the other theorems rest on holds at any time.                      *)
(***************************************************************************)
THEOREM ServiceInvariant == Spec => []Known
<1>1. Init => ServiceInv
  BY InitService
<1>2. Spec => [](TypeOK /\ SemaphoresInv /\ EditorWinsOverDisk)
  BY TypeCorrect, OneHolder, EditorWins, PTL
<1>3. Init /\ TypeOK /\ SemaphoresInv /\ EditorWinsOverDisk => Known
  BY InitService DEF Known
<1>4. Known /\ [Next]_vars /\ (TypeOK /\ SemaphoresInv /\ EditorWinsOverDisk)' => Known'
  BY NextService DEF Known
<1> QED BY <1>2, <1>3, <1>4, PTL DEF Spec

(***************************************************************************)
(* An answer about an edited file is made from the last edit that was      *)
(* accepted, however many threads, edits and reparses there are.           *)
(***************************************************************************)
THEOREM AnswersCurrent == Spec => []AnswersSeeAcceptedEdits
<1>1. Known => AnswersSeeAcceptedEdits
  BY DEF Known, ServiceInv
<1> QED BY <1>1, ServiceInvariant, PTL

-----------------------------------------------------------------------------
(***************************************************************************)
(* A tree only changes while both semaphores of its workspace are taken,   *)
(* by patchFile or by the update it has started, or in a reparse.          *)
(***************************************************************************)
TreesLocked ==
  \A w \in Workspaces :
    (\E f \in FilesIn(w) : ast'[f] # ast[f]) =>
      \/ reading'[w] = 0 /\ writing'[w] = 0
      \/ \E h \in Threads : Reparse(h) /\ at[h] = w

LEMMA PatchLocked ==
  ASSUME Known, NEW h \in Threads, PatchFile(h) PROVE TreesLocked
<1> DEFINE w == at[h]
<1>1. w \in Workspaces
  BY DEF PatchFile, Known, TypeOK
<1>2. \A f \in Files : ast'[f] # ast[f] => f \in FilesIn(w)
  BY DEF PatchFile, Patch, Clear, Known, TypeOK, Owned, FilesIn
<1>3. reading'[w] = 0 /\ writing'[w] = 0
  BY <1>1 DEF PatchFile, Known, TypeOK, SemaphoresInv, OneWrites, Patchers
<1> QED BY <1>2, <1>3 DEF TreesLocked, FilesIn

LEMMA UpdateLocked ==
  ASSUME Known, NEW w \in Workspaces, Update(w) PROVE TreesLocked
<1>1. ASSUME NEW f \in Files, ast'[f] # ast[f]
      PROVE  f \in FilesIn(w) /\ reading'[w] = 0 /\ writing'[w] = 0
  <2>1. f \in FilesIn(w)
    BY <1>1, UpdateChanges
  <2>2. ParseSucceeds(w) \/ ParseThrows(w)
    BY <1>1 DEF Update, TaskStep, ParseFreedTree, TaskPublishes, TaskPublishThrows,
                TaskReleasesReading, TaskReleasesWriting
  <2>3. reading[w] = 0 /\ writing[w] = 0
    BY <2>2 DEF ParseSucceeds, ParseThrows, Known, SemaphoresInv, OneReads, OneWrites,
                UpdateReads, UpdateWrites
  <2> QED BY <2>1, <2>2, <2>3 DEF ParseSucceeds, ParseThrows
<1> QED BY <1>1 DEF TreesLocked, FilesIn

LEMMA NextLocked == Known /\ [Next]_vars => TreesLocked
<1> SUFFICES ASSUME Known, [Next]_vars PROVE TreesLocked
  OBVIOUS
<1>1. CASE UNCHANGED ast
  BY <1>1 DEF TreesLocked
<1>2. ASSUME NEW h \in Threads, Step(h) PROVE TreesLocked
  <2>1. CASE Reparse(h)
    <3>1. \A f \in Files : ast'[f] # ast[f] => f \in FilesIn(at[h])
      BY <2>1 DEF Reparse
    <3> QED BY <2>1, <3>1 DEF TreesLocked, FilesIn
  <2>2. CASE DropCache(h) \/ Aside(h)
    BY <1>1, <2>2 DEF DropCache, Aside
  <2> QED BY <1>2, <2>1, <2>2, StepAside, PatchLocked
<1>3. CASE Environment
  BY <1>1, <1>3, EnvironmentStarts DEF Known, Start
<1> QED
  BY <1>1, <1>2, <1>3, UpdateLocked DEF Next, Rest, vars

(***************************************************************************)
(* The trees of a workspace only change in the hands of an edit or update  *)
(* that holds reading and writing, also while other threads try, or as a   *)
(* whole when the workspace is parsed anew.                                *)
(***************************************************************************)
THEOREM ChangesLocked == Spec => TreesChangeUnderLock
<1>1. Known /\ [Next]_vars
      => [\A w \in Workspaces :
            (\E f \in FilesIn(w) : ast'[f] # ast[f]) =>
              \/ reading'[w] = 0 /\ writing'[w] = 0
              \/ \E h \in Threads : Reparse(h) /\ at[h] = w]_vars
  BY NextLocked DEF TreesLocked
<1> QED BY <1>1, ServiceInvariant, PTL DEF Spec, TreesChangeUnderLock

-----------------------------------------------------------------------------
(***************************************************************************)
(* The refinement: every step is one of the monitor of AnalysisService, or *)
(* changes nothing that its clients see.                                   *)
(***************************************************************************)
Answering(h) == IF pc[h] = "answer" THEN seen[h] ELSE NoText

Sessions == [w \in Workspaces |-> Session(w)]
Answers == [h \in Threads |-> Answering(h)]
FreedSet == {w \in Workspaces : Freed(w)}

\* Who has reading decides whose session it is.
LEMMA SessionOf ==
  ASSUME NEW w \in Workspaces
  PROVE  /\ UpdateReads(w) => Session(w) = "edit"
         /\ ~UpdateReads(w) /\ Readers(w) # {} => Session(w) = "query"
         /\ ~UpdateReads(w) /\ Readers(w) = {} => Session(w) = "idle"
BY DEF Session

LEMMA SessionKept ==
  ASSUME NEW w \in Workspaces, UpdateReads(w)' <=> UpdateReads(w),
         Readers(w)' = {} <=> Readers(w) = {}
  PROVE  Session(w)' = Session(w)
BY DEF Session

LEMMA FreedKept ==
  ASSUME NEW w \in Workspaces, Readers(w)' = Readers(w), dangling' = dangling,
         UpdateReads(w)' <=> UpdateReads(w),
         UpdateReads(w) => task'[w].dangling = task[w].dangling
  PROVE  Freed(w)' <=> Freed(w)
BY DEF Freed

Unseen ==
  /\ UNCHANGED <<ast, overrides>>
  /\ \A w \in Workspaces : Session(w)' = Session(w) /\ (Freed(w)' <=> Freed(w))
  /\ \A h \in Threads : Answering(h)' = Answering(h)

LEMMA UnseenStutters == Unseen => UNCHANGED Service!vars
<1> SUFFICES ASSUME Unseen PROVE UNCHANGED Service!vars
  OBVIOUS
<1>1. Sessions' = Sessions /\ FreedSet' = FreedSet /\ Answers' = Answers
  BY DEF Unseen, Sessions, FreedSet, Answers
<1> QED BY <1>1 DEF Unseen, Service!vars, Sessions, FreedSet, Answers, Answering

\* A thread that is neither before nor after a step a reader is not seen.
LEMMA OtherStep ==
  ASSUME Known, NEW h \in Threads, OnlyMoves(h),
         UNCHANGED <<ast, overrides, task, dangling>>,
         pc[h] \notin {"read", "answer"}, pc'[h] \notin {"read", "answer"},
         \A g \in Threads \ {h} : seen'[g] = seen[g]
  PROVE  Unseen
<1>1. \A w \in Workspaces : Readers(w)' = Readers(w)
  BY DEF OnlyMoves, Readers
<1>2. \A w \in Workspaces : Session(w)' = Session(w) /\ (Freed(w)' <=> Freed(w))
  BY <1>1, SessionKept, FreedKept DEF UpdateReads
<1>3. \A g \in Threads : Answering(g)' = Answering(g)
  BY DEF OnlyMoves, Answering
<1> QED BY <1>2, <1>3 DEF Unseen

\* What happened to the session of one workspace, and to the answer of one
\* thread, in the words of AnalysisService.
LEMMA SessionSet ==
  ASSUME NEW v \in Workspaces, NEW s, Session(v)' = s,
         \A w \in Workspaces \ {v} : Session(w)' = Session(w)
  PROVE  Sessions' = [Sessions EXCEPT ![v] = s]
BY DEF Sessions

LEMMA AnswerSet ==
  ASSUME NEW h \in Threads, NEW x, Answering(h)' = x,
         \A g \in Threads \ {h} : Answering(g)' = Answering(g)
  PROVE  Answers' = [Answers EXCEPT ![h] = x]
BY DEF Answers

LEMMA FreedSame ==
  ASSUME \A w \in Workspaces : Freed(w)' <=> Freed(w) PROVE FreedSet' = FreedSet
BY DEF FreedSet

\* The session of v ends, and with it what it has lost.
LEMMA FreedEnds ==
  ASSUME NEW v \in Workspaces, Readers(v)' = {}, ~(UpdateReads(v)'),
         \A w \in Workspaces \ {v} : Freed(w)' <=> Freed(w)
  PROVE  FreedSet' = FreedSet \ {v}
<1>1. ~(Freed(v)')
  BY DEF Freed
<1> QED BY <1>1 DEF FreedSet

LEMMA PatchRefines ==
  ASSUME Known, NEW h \in Threads, PatchFile(h),
         NEW v, v = at[h], NEW f, f = msg[h].file, f \in Owned(v)
  PROVE  f \in Files /\ Service!BeginEdit(f, msg[h].text)
<1>1. f \in Files /\ v \in Workspaces /\ WorkspaceOf[TreeOf[f]] = v
  BY DEF Known, TypeOK, Owned, FilesIn
<1>2. Readers(v) = {} /\ ~UpdateReads(v)
  BY <1>1 DEF PatchFile, Known, SemaphoresInv, OneReads
<1>3. /\ OnlyMoves(h) /\ pc[h] = "reading" /\ pc'[h] = "unlock"
      /\ UNCHANGED <<seen, dangling>>
  BY StepMoves DEF Step, PatchFile, Goto, Known, TypeOK
<1>4. /\ UpdateReads(v)' /\ ~task'[v].dangling
      /\ \A w \in Workspaces \ {v} :
           UpdateReads(w)' = UpdateReads(w) /\ task'[w] = task[w]
  BY <1>1 DEF PatchFile, Patch, StartUpdate, Known, TypeOK, UpdateReads
<1>5. \A w \in Workspaces : Readers(w)' = Readers(w)
  BY <1>3 DEF OnlyMoves, Readers
<1>6. Session(v) = "idle" /\ Session(v)' = "edit"
  BY <1>1, <1>2, <1>4 DEF Session
<1>7. \A w \in Workspaces \ {v} : Session(w)' = Session(w)
  BY <1>4, <1>5, SessionKept
<1>8. Answers' = Answers
  BY <1>3 DEF OnlyMoves, Answering, Answers
<1>9. /\ overrides' = [overrides EXCEPT ![f] = msg[h].text]
      /\ ast' = [g \in Files |-> IF TreeOf[g] = TreeOf[f] THEN NoText ELSE ast[g]]
  BY <1>1 DEF PatchFile, Patch, Clear
<1>10. Sessions' = [Sessions EXCEPT ![v] = "edit"] /\ Sessions[v] = "idle"
  BY <1>1, <1>6, <1>7, SessionSet DEF Sessions
<1>11. FreedSet' = FreedSet
  <2>1. ~Freed(v) /\ ~(Freed(v)')
    BY <1>1, <1>2, <1>4, <1>5 DEF Freed
  <2>2. \A w \in Workspaces \ {v} : Freed(w)' <=> Freed(w)
    BY <1>3, <1>4, <1>5, FreedKept
  <2> QED BY <2>1, <2>2, FreedSame
<1> QED
  BY <1>1, <1>8, <1>9, <1>10, <1>11
  DEF Service!BeginEdit, Service!Home, Sessions, Answers, Answering, FreedSet

LEMMA DropRefines ==
  ASSUME Known, NEW h \in Threads, DropCache(h)
  PROVE  \/ \E f \in Files : Service!Forget(f)
         \/ UNCHANGED Service!vars
<1>1. /\ OnlyMoves(h) /\ pc[h] = "drop" /\ pc'[h] = "idle"
      /\ UNCHANGED <<ast, task, dangling>>
      /\ \A g \in Threads \ {h} : seen'[g] = seen[g]
  BY StepMoves DEF Step, DropCache, Finish, Goto, Known, TypeOK
<1>2. \A w \in Workspaces : Readers(w)' = Readers(w)
  BY <1>1 DEF OnlyMoves, Readers
<1>3. \A w \in Workspaces : Session(w)' = Session(w) /\ (Freed(w)' <=> Freed(w))
  BY <1>1, <1>2, SessionKept, FreedKept DEF UpdateReads
<1>4. \A g \in Threads : Answering(g)' = Answering(g)
  BY <1>1 DEF OnlyMoves, Answering
<1>5. PICK f \in Files : f = msg[h].file
  BY DEF Known, TypeOK, Messages
<1>6. CASE overrides' = [overrides EXCEPT ![f] = NoText]
  <2>1. Sessions' = Sessions /\ FreedSet' = FreedSet /\ Answers' = Answers
    BY <1>3, <1>4 DEF Sessions, FreedSet, Answers
  <2>2. Service!Forget(f)
    BY <1>1, <1>6, <2>1
    DEF Service!Forget, Sessions, FreedSet, Answers, Answering
  <2> QED BY <2>2
<1>7. CASE UNCHANGED overrides
  BY <1>1, <1>3, <1>4, <1>7, UnseenStutters DEF Unseen
<1> QED BY <1>5, <1>6, <1>7 DEF DropCache

\* A reparse may take the trees from whoever has the session.
LEMMA ReparseRefines ==
  ASSUME Known, NEW h \in Threads, Reparse(h), NEW v, v = at[h]
  PROVE  v \in Workspaces /\ Service!Reload(v)
<1>1. /\ OnlyMoves(h) /\ v \in Workspaces /\ UNCHANGED seen
      /\ pc[h] = "reparse" /\ pc'[h] \in {"publishNew", "publishOld"}
      /\ dangling' = dangling \cup {g \in Threads : pc[g] = "read" /\ at[g] = v}
  BY StepMoves DEF Step, Reparse, Goto, Known, TypeOK
<1>2. \A w \in Workspaces :
        /\ task'[w].step = task[w].step
        /\ task[w].dangling => task'[w].dangling
        /\ w # v => task'[w].dangling = task[w].dangling
  BY DEF Reparse, Known, TypeOK, Tasks
<1>3. \A w \in Workspaces : Readers(w)' = Readers(w)
  BY <1>1 DEF OnlyMoves, Readers
<1>4. \A w \in Workspaces : UpdateReads(w)' <=> UpdateReads(w)
  BY <1>2 DEF UpdateReads
<1>5. Sessions' = Sessions /\ Answers' = Answers
  <2>1. \A w \in Workspaces : Session(w)' = Session(w)
    BY <1>3, <1>4, SessionKept
  <2>2. \A g \in Threads : Answering(g)' = Answering(g)
    BY <1>1 DEF OnlyMoves, Answering
  <2> QED BY <2>1, <2>2 DEF Sessions, Answers
<1>6. FreedSet' = FreedSet \/ (Session(v) # "idle" /\ FreedSet' = FreedSet \cup {v})
  <2>1. \A w \in Workspaces \ {v} : Freed(w)' <=> Freed(w)
    <3> SUFFICES ASSUME NEW w \in Workspaces \ {v} PROVE Freed(w)' <=> Freed(w)
      OBVIOUS
    <3>1. Readers(w) \cap dangling' = Readers(w) \cap dangling
      BY <1>1 DEF Readers
    <3> QED BY <1>2, <1>3, <1>4, <3>1 DEF Freed
  <2>2. Freed(v) => Freed(v)'
    BY <1>1, <1>2, <1>3, <1>4 DEF Freed
  <2>3. Freed(v)' => Session(v) # "idle"
    BY <1>1, <1>3, <1>4 DEF Freed, Session
  <2> QED BY <1>1, <2>1, <2>2, <2>3 DEF FreedSet
<1>7. PICK S \in SUBSET FilesIn(v) :
        ast' = [f \in Files |-> CASE f \notin FilesIn(v) -> ast[f]
                                  [] f \in S -> Disk[f]
                                  [] OTHER -> NoText]
  <2> DEFINE R == {f \in FilesIn(v) : FromDisk(f) = Disk[f]}
  <2>1. \A f \in FilesIn(v) : FromDisk(f) = IF f \in R THEN Disk[f] ELSE NoText
    BY DEF FromDisk
  <2>2. ast' = [f \in Files |-> CASE f \notin FilesIn(v) -> ast[f]
                                  [] f \in R -> Disk[f]
                                  [] OTHER -> NoText]
    BY <2>1 DEF Reparse
  <2> QED BY <2>2
<1>8. /\ FilesIn(v) = {f \in Files : Service!Home(f) = v}
      /\ overrides' = [f \in Files |-> IF Service!Home(f) = v THEN NoText ELSE overrides[f]]
  BY DEF Reparse, FilesIn, Service!Home
<1>9. ast' = [f \in Files |-> CASE Service!Home(f) # v -> ast[f]
                                [] f \in S -> Disk[f]
                                [] OTHER -> NoText]
  BY <1>7, <1>8
<1> QED
  BY <1>1, <1>5, <1>6, <1>8, <1>9
  DEF Service!Reload, Sessions, Answers, Answering, FreedSet

\* A query begins, looks and ends.
LEMMA QueryRefines ==
  ASSUME Known, NEW h \in Threads, NEW v, v = at[h], NEW f, f = msg[h].file,
         AcquireReading(h) \/ Read(h) \/ ReadThrows(h) \/ Answer(h)
  PROVE  /\ v \in Workspaces /\ f \in Files
         /\ \/ Service!BeginQuery(v)
            \/ Service!Look(h, f)
            \/ Service!EndQuery(h, v)
<1>0. /\ OnlyMoves(h) /\ v \in Workspaces /\ f \in Files
      /\ UNCHANGED <<ast, overrides, task>>
      /\ \A g \in Threads \ {h} : seen'[g] = seen[g]
  BY StepMoves
  DEF Step, Known, TypeOK, Messages, AcquireReading, Read, ReadThrows, Answer, Finish
<1>1. \A w \in Workspaces : UpdateReads(w)' = UpdateReads(w)
  BY <1>0 DEF UpdateReads
<1>2. \A g \in Threads \ {h} : Answering(g)' = Answering(g)
  BY <1>0 DEF OnlyMoves, Answering
<1>3. CASE AcquireReading(h)
  <2>1. pc[h] = "acquire" /\ pc'[h] = "read" /\ at'[h] = v /\ UNCHANGED dangling
    BY <1>3 DEF AcquireReading, Goto, Known, TypeOK
  <2>2. Readers(v) = {} /\ ~UpdateReads(v) /\ Readers(v)' = {h}
    BY <1>0, <1>3, <2>1 DEF AcquireReading, Known, SemaphoresInv, OneReads, OnlyMoves, Readers
  <2>3. \A w \in Workspaces \ {v} : Readers(w)' = Readers(w)
    BY <1>0, <2>1 DEF OnlyMoves, Readers
  <2>4. Session(v) = "idle" /\ Session(v)' = "query"
    BY <1>0, <1>1, <2>2 DEF Session
  <2>5. \A w \in Workspaces \ {v} : Session(w)' = Session(w)
    BY <1>1, <2>3, SessionKept
  <2>6. Answers' = Answers
    BY <1>2, <2>1 DEF Answering, Answers
  <2>7. Sessions' = [Sessions EXCEPT ![v] = "query"] /\ Sessions[v] = "idle"
    BY <1>0, <2>4, <2>5, SessionSet DEF Sessions
  <2>8. FreedSet' = FreedSet
    <3>1. h \notin dangling
      BY <2>1 DEF Known, ServiceInv, FreedSeeNoEdits
    <3>2. ~Freed(v) /\ ~(Freed(v)')
      BY <1>0, <1>1, <2>1, <2>2, <3>1 DEF Freed
    <3>3. \A w \in Workspaces \ {v} : Freed(w)' <=> Freed(w)
      BY <1>0, <1>1, <2>1, <2>3, FreedKept
    <3> QED BY <3>2, <3>3, FreedSame
  <2> QED
    BY <1>0, <2>6, <2>7, <2>8
    DEF Service!BeginQuery, Sessions, Answers, Answering, FreedSet
<1>4. CASE Read(h)
  <2>1. /\ pc[h] = "read" /\ pc'[h] = "answer" /\ at'[h] = v
        /\ seen'[h] \in Contents /\ (h \in dangling \/ seen'[h] = ast[f])
        /\ UNCHANGED dangling
    BY <1>0, <1>4 DEF Read, Goto, Known, TypeOK
  <2>2. \A w \in Workspaces : Readers(w)' = Readers(w)
    BY <1>0, <2>1 DEF OnlyMoves, Readers
  <2>3. Sessions[v] = "query" /\ Service!Home(f) = v
    <3>1. h \in Readers(v)
      BY <2>1 DEF Readers
    <3>2. ~UpdateReads(v)
      BY <1>0, <3>1 DEF Known, SemaphoresInv, OneReads
    <3>3. f \in FilesIn(v)
      BY <2>1 DEF Known, ServiceInv, ThreadsAtHome, Placed
    <3> QED BY <1>0, <3>1, <3>2, <3>3, SessionOf DEF FilesIn, Sessions, Service!Home
  <2>4. Sessions' = Sessions /\ FreedSet' = FreedSet
    <3>1. \A w \in Workspaces : Session(w)' = Session(w) /\ (Freed(w)' <=> Freed(w))
      BY <1>0, <1>1, <2>1, <2>2, SessionKept, FreedKept
    <3> QED BY <3>1 DEF Sessions, FreedSet
  <2>5. \E x \in Contents : x = seen'[h] /\ (v \notin FreedSet => x = ast[f])
    <3>1. h \in dangling => v \in FreedSet
      BY <1>0, <2>1 DEF Freed, FreedSet, Readers
    <3> QED BY <2>1, <3>1
  <2>6. Answers' = [Answers EXCEPT ![h] = seen'[h]]
    <3>1. Answering(h)' = seen'[h]
      BY <2>1 DEF Answering
    <3> QED BY <1>2, <3>1, AnswerSet
  <2>7. \E x \in Contents :
          /\ Service!Home(f) \notin FreedSet => x = ast[f]
          /\ Answers' = [Answers EXCEPT ![h] = x]
    BY <2>3, <2>5, <2>6
  <2> QED
    BY <1>0, <2>3, <2>4, <2>7
    DEF Service!Look, Sessions, Answers, Answering, FreedSet
<1>5. CASE ReadThrows(h) \/ Answer(h)
  <2>1. /\ pc[h] \in {"read", "answer"} /\ pc'[h] = "idle"
        /\ dangling' = dangling \ {h}
    BY <1>5 DEF ReadThrows, Answer, Finish, Goto, Known, TypeOK
  <2>2. h \in Readers(v)
    BY <2>1 DEF Readers
  <2>3. ~UpdateReads(v) /\ Readers(v) = {h}
    BY <1>0, <2>2 DEF Known, SemaphoresInv, OneReads
  <2>4. Readers(v)' = {} /\ ~(UpdateReads(v)')
    <3>1. \A g \in Threads \ {h} : g \notin Readers(v)'
      BY <1>0, <2>3 DEF OnlyMoves, Readers
    <3> QED BY <1>0, <1>1, <2>1, <2>3, <3>1 DEF Readers
  <2>5. \A w \in Workspaces \ {v} : Readers(w)' = Readers(w) /\ h \notin Readers(w)
    BY <1>0, <2>1 DEF OnlyMoves, Readers
  <2>6. Session(v) = "query" /\ Session(v)' = "idle"
    BY <1>0, <2>3, <2>4 DEF Session
  <2>7. \A w \in Workspaces \ {v} : Session(w)' = Session(w)
    BY <1>1, <2>5, SessionKept
  <2>8. Answers' = [Answers EXCEPT ![h] = NoText]
    <3>1. Answering(h)' = NoText
      BY <2>1 DEF Answering
    <3> QED BY <1>2, <3>1, AnswerSet
  <2>9. Sessions' = [Sessions EXCEPT ![v] = "idle"] /\ Sessions[v] = "query"
    BY <1>0, <2>6, <2>7, SessionSet DEF Sessions
  <2>10. FreedSet' = FreedSet \ {v}
    <3>1. \A w \in Workspaces \ {v} : Freed(w)' <=> Freed(w)
      BY <1>0, <1>1, <2>1, <2>5 DEF Freed
    <3> QED BY <1>0, <2>4, <3>1, FreedEnds
  <2> QED
    BY <1>0, <2>8, <2>9, <2>10
    DEF Service!EndQuery, Sessions, Answers, Answering, FreedSet
<1> QED BY <1>0, <1>3, <1>4, <1>5

\* All other steps of a thread are not seen.
LEMMA StepRefines ==
  ASSUME Known, NEW h \in Threads, Step(h)
  PROVE  Service!Next \/ UNCHANGED Service!vars
<1> DEFINE Queries == AcquireReading(h) \/ Read(h) \/ ReadThrows(h) \/ Answer(h)
<1>1. OnlyMoves(h) /\ \A g \in Threads \ {h} : seen'[g] = seen[g]
  BY StepMoves, StepSees DEF Known
<1>2. PICK v, f : v = at[h] /\ f = msg[h].file
  OBVIOUS
<1>3. CASE PatchFile(h) /\ f \in Owned(v)
  <2>1. PICK x \in Contents : x = msg[h].text
    BY DEF Known, TypeOK, Messages
  <2>2. Service!BeginEdit(f, x) /\ f \in Files
    BY <1>2, <1>3, <2>1, PatchRefines
  <2> QED BY <2>1, <2>2 DEF Service!Next
<1>4. CASE PatchFile(h) /\ f \notin Owned(v)
  <2>1. /\ UNCHANGED <<ast, overrides, task, dangling>>
        /\ pc[h] = "reading" /\ pc'[h] = "unlock"
    BY <1>2, <1>4 DEF PatchFile, Patch, Goto, Known, TypeOK
  <2> QED BY <1>1, <2>1, OtherStep, UnseenStutters
<1>5. CASE DropCache(h)
  BY <1>5, DropRefines DEF Service!Next
<1>6. CASE Queries
  BY <1>2, <1>6, QueryRefines DEF Service!Next
<1>7. CASE Reparse(h)
  BY <1>2, <1>7, ReparseRefines DEF Service!Next
<1>8. CASE Aside(h) /\ ~Queries
  <2>1. /\ pc[h] \notin {"read", "answer"} /\ pc'[h] \notin {"read", "answer"}
        /\ UNCHANGED dangling
    <3>1. ~PatchFile(h) => UNCHANGED dangling \/ Reparse(h)
      BY <1>8
      DEF Step, AcquireSmph, ForeignChange, ReleaseSmph, Owns, AcquireWriting, Format,
          EraseCachedContents, DropCache, UpdateOptions, ClearDiagnostics,
          PublishOld, ReparseThrows, PublishNew, PublishNewThrows, Initialized,
          Shutdown
    <3>2. pc[h] \notin {"read", "answer"} /\ pc'[h] \notin {"read", "answer"}
      BY <1>8
      DEF Known, TypeOK, Step, AcquireSmph, ForeignChange, ReleaseSmph, Owns, AcquireWriting,
          PatchFile, Format, EraseCachedContents, DropCache, UpdateOptions,
          ClearDiagnostics, PublishOld, Reparse, ReparseThrows, PublishNew,
          PublishNewThrows, Initialized, Shutdown, Finish, Continue, Goto
    <3>3. PatchFile(h) => UNCHANGED dangling
      BY DEF PatchFile
    <3>4. CASE Reparse(h)
      <4>1. dangling' = dangling
        BY <1>8, <3>4 DEF Reparse, Aside
      <4> QED BY <3>2, <4>1
    <3> QED BY <3>1, <3>2, <3>3, <3>4
  <2> QED BY <1>1, <1>8, <2>1, OtherStep, UnseenStutters DEF Aside
<1> QED BY <1>3, <1>4, <1>5, <1>6, <1>7, <1>8, StepAside

\* An update analyses the tree its edit cleared, and ends the edit.
LEMMA VisitedInTree ==
  ASSUME TypeOK, NEW t \in Trees
  PROVE  Visited(overrides, t) \subseteq {g \in Files : TreeOf[g] = t}
<1>1. MainFile[t] \in Files /\ Effective(overrides, MainFile[t]) \in Texts
  BY WorkspaceAssumption DEF TypeOK, Effective, Contents
<1> QED BY <1>1, WorkspaceAssumption DEF Visited

LEMMA UpdateRefines ==
  ASSUME Known, NEW w \in Workspaces, Update(w)
  PROVE  Service!Next \/ UNCHANGED Service!vars
<1>0. /\ UNCHANGED <<overrides, threadVars>> /\ Answers' = Answers
      /\ \A v \in Workspaces : Readers(v)' = Readers(v)
      /\ \A v \in Workspaces \ {w} :
           UpdateReads(v)' = UpdateReads(v) /\ task'[v] = task[v]
      /\ task \in [Workspaces -> Tasks]
  BY UpdateChanges
  DEF Answers, Answering, Readers, UpdateReads, Known, TypeOK
<1>1. \A v \in Workspaces \ {w} : Session(v)' = Session(v) /\ (Freed(v)' <=> Freed(v))
  BY <1>0, SessionKept, FreedKept
<1>2. UpdateReads(w)' => UpdateReads(w) /\ task'[w].dangling = task[w].dangling
  BY UpdateChanges DEF UpdateReads
<1>3. ASSUME UpdateReads(w)' <=> UpdateReads(w)
      PROVE  Sessions' = Sessions /\ FreedSet' = FreedSet
  <2>1. Session(w)' = Session(w) /\ (Freed(w)' <=> Freed(w))
    BY <1>0, <1>2, <1>3, SessionKept, FreedKept
  <2> QED BY <1>1, <2>1 DEF Sessions, FreedSet
<1>4. CASE ParseSucceeds(w) \/ ParseThrows(w)
  <2>1. PICK t : t = task[w].tree
    OBVIOUS
  <2>2. /\ UpdateReads(w) /\ UpdateReads(w)' /\ t \in Trees /\ WorkspaceOf[t] = w
        /\ ~task[w].dangling
    BY <1>0, <1>4, <2>1
    DEF ParseSucceeds, ParseThrows, UpdateReads, Tasks, Known, ServiceInv, TasksAtHome
  <2>3. Sessions[w] = "edit" /\ w \notin FreedSet
    <3>1. Readers(w) = {}
      BY <2>2 DEF Known, SemaphoresInv, OneReads
    <3> QED BY <2>2, <3>1, SessionOf DEF Sessions, Freed, FreedSet
  <2>4. PICK S \in SUBSET Visited(overrides, t) : ast' = Parsed(overrides, t, S)
    BY <1>4, <2>1 DEF ParseSucceeds, ParseThrows
  <2>5. S \in SUBSET {g \in Files : TreeOf[g] = t}
    BY <2>2, <2>4, VisitedInTree DEF Known
  <2>6. ast' = [g \in Files |->
                  CASE TreeOf[g] # t -> ast[g]
                    [] g \in S -> IF overrides[g] # NoText THEN overrides[g] ELSE Disk[g]
                    [] OTHER -> NoText]
    BY <2>4, <2>5 DEF Parsed, Effective
  <2>7. Service!Rebuild(t)
    BY <1>0, <1>3, <2>2, <2>3, <2>5, <2>6
    DEF Service!Rebuild, Sessions, Answers, Answering, FreedSet
  <2> QED BY <2>2, <2>7 DEF Service!Next
<1>5. CASE UNCHANGED ast /\ (UpdateReads(w)' <=> UpdateReads(w))
  BY <1>0, <1>3, <1>5 DEF Service!vars, Sessions, Answers, Answering, FreedSet
<1>6. CASE UNCHANGED ast /\ UpdateReads(w) /\ ~(UpdateReads(w)')
  <2>1. Readers(w) = {}
    BY <1>6 DEF Known, SemaphoresInv, OneReads
  <2>2. Session(w) = "edit" /\ Session(w)' = "idle"
    BY <1>0, <1>6, <2>1, SessionOf DEF Session
  <2>3. Sessions' = [Sessions EXCEPT ![w] = "idle"] /\ Sessions[w] = "edit"
    BY <1>1, <2>2, SessionSet DEF Sessions
  <2>4. FreedSet' = FreedSet \ {w}
    BY <1>0, <1>1, <1>6, <2>1, FreedEnds
  <2>5. Service!EndEdit(w)
    BY <1>0, <1>6, <2>3, <2>4
    DEF Service!EndEdit, Sessions, Answers, Answering, FreedSet
  <2> QED BY <2>5 DEF Service!Next
<1>7. ParseSucceeds(w) \/ ParseThrows(w) \/ UNCHANGED ast
  BY DEF Update, TaskStep, ParseFreedTree, TaskPublishes, TaskPublishThrows,
      TaskReleasesReading, TaskReleasesWriting
<1> QED BY <1>2, <1>4, <1>5, <1>6, <1>7

(***************************************************************************)
(* A workspace is the monitor that AnalysisService describes: its          *)
(* semaphores, update tasks and handler threads never let an edit and a    *)
(* query overlap, and no step shows a client a tree that is neither the    *)
(* one before the edit nor one built from what editors sent or, after a    *)
(* reparse, from disk.                                                     *)
(***************************************************************************)
THEOREM Implements == Spec => ImplementsService
<1>1. Init => Service!Init
  <2> SUFFICES ASSUME Init PROVE Service!Init
    OBVIOUS
  <2>1. \A w \in Workspaces : Session(w) = "idle" /\ ~Freed(w)
    BY DEF Init, Session, UpdateReads, Readers, NoTask, Freed
  <2>2. ast \in [Files -> Contents]
    BY InitType DEF TypeOK
  <2> QED BY <2>1, <2>2 DEF Init, Service!Init
<1>2. Known /\ [Next]_vars => [Service!Next]_(Service!vars)
  <2> SUFFICES ASSUME Known, [Next]_vars
               PROVE  Service!Next \/ UNCHANGED Service!vars
    OBVIOUS
  <2>1. CASE Environment
    <3>1. PICK h \in Threads, m \in Messages :
            Start(h, m) /\ \A g \in Threads \ {h} : at'[g] = at[g]
      BY <2>1, EnvironmentStarts DEF Known
    <3>2. Entry(m.kind) \notin {"read", "answer"}
      BY DEF Entry, Messages, Kinds, QueryKinds
    <3>3. OnlyMoves(h) /\ UNCHANGED <<ast, overrides, task, seen, dangling>>
          /\ pc[h] \notin {"read", "answer"} /\ pc'[h] \notin {"read", "answer"}
      BY <3>1, <3>2 DEF Start, OnlyMoves, Known, TypeOK
    <3> QED BY <3>3, OtherStep, UnseenStutters
  <2>2. CASE UNCHANGED vars
    BY <2>2 DEF vars, Service!vars, Session, UpdateReads, Readers, Freed
  <2> QED BY <2>1, <2>2, StepRefines, UpdateRefines DEF Next, Rest
<1> QED
  BY <1>1, <1>2, ServiceInvariant, PTL DEF Spec, ImplementsService, Service!Spec
================================================================================
