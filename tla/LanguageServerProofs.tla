------------------------- MODULE LanguageServerProofs -------------------------
(***************************************************************************)
(* Proofs about LanguageServer, for any number of workspaces, trees,       *)
(* files, threads and messages: the types, and the mutual exclusion that   *)
(* the two semaphores of a workspace and smph are there for.               *)
(***************************************************************************)
EXTENDS LanguageServer, TLAPS

-----------------------------------------------------------------------------
(***************************************************************************)
(* Facts about the constants and the helpers.                              *)
(***************************************************************************)
LEMMA SomeTree == \E t \in Trees : TRUE
BY WorkspaceAssumption DEF Workspaces

LEMMA SomeFile == \E f \in Files : TRUE
BY SomeTree, WorkspaceAssumption

LEMMA NoMessageType == NoMessage \in Messages
BY SomeFile DEF NoMessage, Messages, Kinds, Contents

LEMMA NoTaskType == NoTask \in Tasks
BY SomeTree DEF NoTask, Tasks, TaskSteps

\* A diagnosis is a text or none, whatever it is a diagnosis of.
LEMMA DiagnosisType == ASSUME NEW x PROVE Diagnosis(x) \in Contents
BY WorkspaceAssumption DEF Diagnosis, Contents

\* What the analysis reads is a text, from the editor or from disk.
LEMMA EffectiveType ==
  ASSUME NEW ov \in [Files -> Contents], NEW f \in Files
  PROVE  Effective(ov, f) \in Texts
BY WorkspaceAssumption DEF Effective, Contents

LEMMA ParsedType ==
  ASSUME ast \in [Files -> Contents], NEW ov \in [Files -> Contents],
         NEW t, NEW S
  PROVE  Parsed(ov, t, S) \in [Files -> Contents]
BY EffectiveType, WorkspaceAssumption DEF Parsed, Contents

LEMMA FromDiskType == ASSUME NEW f \in Files PROVE FromDisk(f) \in Contents
BY WorkspaceAssumption DEF FromDisk, Contents

LEMMA UpdateResultType ==
  ASSUME NEW new, NEW t, NEW old \in SUBSET Files
  PROVE  UpdateResult(new, t, old) \in SUBSET Entries
BY DiagnosisType DEF UpdateResult, Entries, FilesOf

LEMMA ClearingsType ==
  ASSUME NEW S \in SUBSET Files PROVE Clearings(S) \in SUBSET Entries
BY DEF Clearings, Entries, Contents

LEMMA ReparseResultType ==
  ASSUME NEW S \in SUBSET Files, NEW b
  PROVE  ReparseResult(S, b) \in SUBSET Entries
BY DiagnosisType DEF ReparseResult, Entries

\* A task with another step, another list to publish or freed trees.
LEMMA TaskWith ==
  ASSUME NEW r \in Tasks
  PROVE  /\ \A s \in TaskSteps : [r EXCEPT !.step = s] \in Tasks
         /\ \A o \in SUBSET Entries : [r EXCEPT !.out = o] \in Tasks
         /\ \A b \in BOOLEAN : [r EXCEPT !.dangling = b] \in Tasks
         /\ \A s \in TaskSteps, o \in SUBSET Entries :
              [r EXCEPT !.step = s, !.out = o] \in Tasks
BY DEF Tasks

LEMMA InitType == Init => TypeOK
<1> SUFFICES ASSUME Init PROVE TypeOK
  OBVIOUS
<1>1. AtStart \in SUBSET Entries
  BY ReparseResultType DEF AtStart
<1>2. 1 \in Workspaces
  BY WorkspaceAssumption DEF Workspaces
<1>3. /\ initial \in SUBSET Entries
      /\ shown \in [Files -> Contents]
  <2>1. CASE "initialized" \in MessageKinds
    BY <2>1, <1>1 DEF Init, Contents
  <2>2. CASE "initialized" \notin MessageKinds
    BY <2>2, DiagnosisType DEF Init, Contents
  <2> QED BY <2>1, <2>2
<1>4. ast \in [Files -> Contents]
  BY FromDiskType DEF Init
<1>5. task \in [Workspaces -> Tasks] /\ msg \in [Threads -> Messages]
  BY NoTaskType, NoMessageType DEF Init
<1> QED
  BY <1>2, <1>3, <1>4, <1>5, LanguageServerAssumption
  DEF Init, TypeOK, Contents, Labels

-----------------------------------------------------------------------------
(***************************************************************************)
(* Types are preserved: first by the messages, then by the handlers, then  *)
(* by the update tasks.                                                    *)
(***************************************************************************)
USE DEF workspaceVars, treeVars, threadVars, serverVars, clientVars

LEMMA EntryType == ASSUME NEW k \in Kinds PROVE Entry(k) \in Labels
BY DEF Kinds, QueryKinds, Entry, Labels

LEMMA StartType ==
  ASSUME TypeOK, NEW h \in Threads, NEW m \in Messages, Start(h, m),
         client' \in [Files -> Contents], at' \in [Threads -> Workspaces]
  PROVE  TypeOK'
<1>1. m.kind \in Kinds
  BY DEF Messages
<1>2. Entry(m.kind) \in Labels
  BY <1>1, EntryType
<1>3. sent' \in 0 .. MaxMessages
  BY LanguageServerAssumption DEF Start, TypeOK
<1> QED
  BY <1>2, <1>3 DEF Start, TypeOK

\* Whatever happens outside makes one thread start on a message.
LEMMA EnvironmentStarts ==
  ASSUME TypeOK, Environment
  PROVE  \E h \in Threads, m \in Messages :
           /\ Start(h, m)
           /\ client' \in [Files -> Contents]
           /\ at' \in [Threads -> Workspaces]
           /\ \A g \in Threads \ {h} : at'[g] = at[g]
<1> DEFINE Goal == \E h \in Threads, m \in Messages :
                     /\ Start(h, m)
                     /\ client' \in [Files -> Contents]
                     /\ at' \in [Threads -> Workspaces]
                     /\ \A g \in Threads \ {h} : at'[g] = at[g]
<1> USE DEF Receive
<1>1. ASSUME NEW h \in Handlers, SendChange(h) PROVE Goal
  <2>1. PICK f \in Files, x \in Texts :
          Receive(h, Message("change", f, x)) /\ client' = [client EXCEPT ![f] = x]
    BY <1>1 DEF SendChange
  <2>2. Message("change", f, x) \in Messages
    BY DEF Message, Messages, Kinds, Contents
  <2> QED BY <2>1, <2>2 DEF TypeOK, Threads, Contents
<1>2. ASSUME NEW h \in Handlers, SendClose(h) PROVE Goal
  <2>1. PICK f \in Files :
          /\ Receive(h, Message("close", f, NoText))
          /\ client' = [client EXCEPT ![f] = NoText]
    BY <1>2 DEF SendClose
  <2>2. Message("close", f, NoText) \in Messages
    BY DEF Message, Messages, Kinds, Contents
  <2> QED BY <2>1, <2>2 DEF TypeOK, Threads, Contents
<1>3. ASSUME NEW h \in Handlers, SendQuery(h) PROVE Goal
  <2>1. PICK k \in QueryKinds \cup {"format"}, f \in Files :
          Receive(h, Message(k, f, client[f])) /\ UNCHANGED client
    BY <1>3 DEF SendQuery
  <2>2. Message(k, f, client[f]) \in Messages
    BY DEF Message, Messages, Kinds, QueryKinds, TypeOK
  <2> QED BY <2>1, <2>2 DEF TypeOK, Threads
<1>4. ASSUME NEW h \in Handlers, SendConfiguration(h) PROVE Goal
  <2>1. PICK b \in BOOLEAN :
          /\ Receive(h, [NoMessage EXCEPT !.kind = "config", !.ignore = b])
          /\ UNCHANGED client
    BY <1>4 DEF SendConfiguration
  <2>2. [NoMessage EXCEPT !.kind = "config", !.ignore = b] \in Messages
    BY NoMessageType DEF Messages, Kinds
  <2> QED BY <2>1, <2>2 DEF TypeOK, Threads
<1>5. ASSUME NEW h \in Handlers, SendForeign(h) \/ SendInitialized(h) \/ SendShutdown(h)
      PROVE  Goal
  <2>1. /\ [NoMessage EXCEPT !.kind = "foreign"] \in Messages
        /\ [NoMessage EXCEPT !.kind = "initialized"] \in Messages
        /\ [NoMessage EXCEPT !.kind = "shutdown"] \in Messages
    BY NoMessageType DEF Messages, Kinds
  <2> QED
    BY <1>5, <2>1 DEF SendForeign, SendInitialized, SendShutdown, TypeOK, Threads
<1>6. ASSUME NEW w \in Workspaces, WrapFileChanges(w) PROVE Goal
  <2>1. [NoMessage EXCEPT !.kind = "wrap"] \in Messages
    BY NoMessageType DEF Messages, Kinds
  <2> QED
    BY <1>6, <2>1 DEF WrapFileChanges, TypeOK, Threads
<1> QED BY <1>1, <1>2, <1>3, <1>4, <1>5, <1>6 DEF Environment

LEMMA EnvironmentType == TypeOK /\ Environment => TypeOK'
BY EnvironmentStarts, StartType

\* An edit in a tree starts its update with the old diagnostics of the tree.
LEMMA PatchType ==
  ASSUME TypeOK, NEW w \in Workspaces, NEW f \in Files, NEW x \in Contents,
         Patch(w, f, x)
  PROVE  /\ task' \in [Workspaces -> Tasks]
         /\ ast' \in [Files -> Contents]
         /\ overrides' \in [Files -> Contents]
<1>1. CASE f \in Owned(w)
  <2>1. TreeOf[f] \in Trees
    BY WorkspaceAssumption
  <2>2. Diagnosed(FilesOf(TreeOf[f])) \in SUBSET Files
    BY DEF Diagnosed, FilesOf
  <2>3. [step |-> "parse", tree |-> TreeOf[f], dangling |-> FALSE,
         old |-> Diagnosed(FilesOf(TreeOf[f])), out |-> {}] \in Tasks
    BY <2>1, <2>2 DEF Tasks, TaskSteps
  <2>4. ast' \in [Files -> Contents] /\ overrides' \in [Files -> Contents]
    BY <1>1 DEF Patch, Clear, TypeOK, Contents
  <2> QED BY <1>1, <2>3, <2>4 DEF Patch, StartUpdate, TypeOK
<1>2. CASE f \notin Owned(w)
  BY <1>2 DEF Patch, TypeOK
<1> QED BY <1>1, <1>2

LEMMA StepType ==
  ASSUME TypeOK, NEW h \in Threads, Step(h) PROVE TypeOK'
<1> USE DEF TypeOK, Goto, Labels
<1>0. msg[h] \in Messages /\ msg[h].file \in Files /\ msg[h].text \in Contents
      /\ msg[h].ignore \in BOOLEAN
  BY DEF Messages
<1> DEFINE Moved == /\ pc' \in [Threads -> Labels]
                    /\ msg' \in [Threads -> Messages]
                    /\ at' \in [Threads -> Workspaces]
                    /\ seen' \in [Threads -> Contents]
<1>1. Finish(h) => Moved
  BY NoMessageType, WorkspaceAssumption DEF Finish, Workspaces, Contents
<1>2. ASSUME NEW l \in Labels, at[h] < NumWorkspaces,
             at' = [at EXCEPT ![h] = @ + 1], Goto(h, l), UNCHANGED <<msg, seen>>
      PROVE  Moved
  <2>1. at[h] + 1 \in Workspaces
    BY <1>2, WorkspaceAssumption DEF Workspaces
  <2> QED BY <1>2, <2>1
<1>3. CASE AcquireSmph(h)
  BY <1>3, <1>0 DEF AcquireSmph
<1>4. CASE ReleaseSmph(h) \/ ForeignChange(h)
  BY <1>4, <1>1 DEF ReleaseSmph, ForeignChange
<1>5. CASE Owns(h)
  <2> DEFINE none == IF msg[h].kind = "change"
                     THEN Goto(h, "unlock") /\ UNCHANGED <<msg, at, seen>>
                     ELSE Finish(h)
  <2>1. Continue(h, "owns", none) => Moved
    BY <1>1, <1>2 DEF Continue
  <2>2. Moved
    BY <1>5, <2>1 DEF Owns
  <2> QED BY <1>5, <2>2 DEF Owns
<1>6. CASE AcquireWriting(h)
  BY <1>6 DEF AcquireWriting
<1>7. CASE PatchFile(h)
  BY <1>7, <1>0, PatchType DEF PatchFile
<1>8. CASE AcquireReading(h)
  <2>1. completing' \in [Workspaces -> BOOLEAN]
    BY <1>8, Zenon DEF AcquireReading
  <2> QED BY <1>8, <2>1 DEF AcquireReading
<1>9. CASE Read(h)
  BY <1>9, <1>0 DEF Read
<1>10. CASE ReadThrows(h)
  BY <1>10, <1>1 DEF ReadThrows
<1>11. CASE Answer(h)
  BY <1>11, <1>1 DEF Answer
<1>12. CASE Format(h)
  BY <1>12, <1>0, EffectiveType DEF Format, Contents
<1>13. CASE EraseCachedContents(h)
  BY <1>13, <1>0 DEF EraseCachedContents, Contents
<1>14. CASE DropCache(h)
  BY <1>14, <1>1 DEF DropCache, Contents
<1>15. CASE UpdateOptions(h)
  BY <1>15, <1>0 DEF UpdateOptions
<1>16. CASE ClearDiagnostics(h)
  BY <1>16 DEF ClearDiagnostics, Diagnosed, FilesIn
<1>17. CASE PublishOld(h)
  BY <1>17 DEF PublishOld, Publish, Contents
<1>18. CASE Reparse(h)
  <2>1. ast' \in [Files -> Contents] /\ overrides' \in [Files -> Contents]
    BY <1>18, FromDiskType DEF Reparse, Contents
  <2>2. FilesIn(at[h]) \in SUBSET Files
    BY DEF FilesIn
  <2>3. out' \in [Threads -> SUBSET Entries]
    BY <1>18, <2>2, ReparseResultType DEF Reparse
  <2>4. task' \in [Workspaces -> Tasks]
    <3>1. PICK b \in BOOLEAN : task' = [task EXCEPT ![at[h]].dangling = b]
      BY <1>18 DEF Reparse, Tasks
    <3>2. [task[at[h]] EXCEPT !.dangling = b] \in Tasks
      <4>1. task[at[h]] \in Tasks
        OBVIOUS
      <4> QED BY <4>1, TaskWith
    <3> QED BY <3>1, <3>2
  <2> QED BY <1>18, <2>1, <2>3, <2>4 DEF Reparse
<1>19. CASE ReparseThrows(h)
  BY <1>19, <1>1 DEF ReparseThrows
<1>20. CASE PublishNew(h)
  <2>1. CASE out[h] = {}
    <3>1. Moved
      BY <1>20, <1>1, <1>2, <2>1 DEF PublishNew, Continue
    <3> QED BY <1>20, <2>1, <3>1 DEF PublishNew
  <2>2. CASE out[h] # {}
    <3>1. PICK e \in out[h] : /\ Publish(e)
                              /\ out' = [out EXCEPT ![h] = @ \ {e}]
                              /\ UNCHANGED <<pc, msg, at, seen, initial>>
      BY <1>20, <2>2 DEF PublishNew
    <3>2. e \in Entries
      OBVIOUS
    <3> QED BY <1>20, <3>1, <3>2 DEF PublishNew, Publish, Entries
  <2> QED BY <2>1, <2>2
<1>23. CASE PublishNewThrows(h)
  <2>1. shown' \in [Files -> Contents]
    BY <1>23 DEF PublishNewThrows, PublishThrows, Contents
  <2>2. out' \in [Threads -> SUBSET Entries]
    BY <1>23 DEF PublishNewThrows
  <2> QED BY <1>1, <1>23, <2>1, <2>2 DEF PublishNewThrows
<1>21. CASE Initialized(h)
  BY <1>21 DEF Initialized
<1>22. CASE Shutdown(h)
  BY <1>22, <1>1 DEF Shutdown
<1> QED
  BY <1>3, <1>4, <1>5, <1>6, <1>7, <1>8, <1>9, <1>10, <1>11, <1>12, <1>13,
     <1>14, <1>15, <1>16, <1>17, <1>18, <1>19, <1>20, <1>21, <1>22, <1>23 DEF Step

LEMMA UpdateType ==
  ASSUME TypeOK, NEW w \in Workspaces, Update(w) PROVE TypeOK'
<1> USE DEF TypeOK
<1>0. /\ task[w] \in Tasks
      /\ task[w].tree \in Trees
      /\ task[w].old \in SUBSET Files
      /\ task[w].out \in SUBSET Entries
  BY DEF Tasks
<1> UNCHANGED <<threadVars, serverVars, clientVars>>
  BY DEF Update
<1>1. CASE ParseSucceeds(w)
  <2> DEFINE new == Parsed(overrides, task[w].tree, Visited(overrides, task[w].tree))
  <2>1. ast' \in [Files -> Contents]
    BY <1>1, ParsedType DEF ParseSucceeds
  <2>2. UpdateResult(new, task[w].tree, task[w].old) \in SUBSET Entries
    BY <1>0, UpdateResultType
  <2>3. task' \in [Workspaces -> Tasks]
    BY <1>1, <2>2, TaskWith DEF ParseSucceeds, TaskSteps
  <2> QED BY <1>1, <2>1, <2>3 DEF ParseSucceeds
<1>2. CASE ParseThrows(w)
  <2>1. ast' \in [Files -> Contents]
    BY <1>2, ParsedType DEF ParseThrows
  <2>2. task' \in [Workspaces -> Tasks]
    BY <1>2, <1>0, ClearingsType, TaskWith DEF ParseThrows, TaskSteps
  <2> QED BY <1>2, <2>1, <2>2 DEF ParseThrows
<1>3. CASE ParseFreedTree(w)
  <2>1. \E s \in TaskSteps, o \in SUBSET Entries :
          task' = [task EXCEPT ![w] = [task[w] EXCEPT !.step = s, !.out = o]]
    <3>1. \A new : UpdateResult(new, task[w].tree, task[w].old) \in SUBSET Entries
      BY <1>0, UpdateResultType
    <3>2. Clearings(task[w].old) \in SUBSET Entries
      BY <1>0, ClearingsType
    <3>3. "publish" \in TaskSteps /\ "abort" \in TaskSteps
      BY DEF TaskSteps
    <3>4. CASE \E new \in [FilesOf(task[w].tree) -> Contents] :
                 task' = [task EXCEPT
                   ![w].step = "publish",
                   ![w].out = UpdateResult(new, task[w].tree, task[w].old)]
      <4>1. PICK new : task' = [task EXCEPT ![w] =
                         [task[w] EXCEPT !.step = "publish",
                            !.out = UpdateResult(new, task[w].tree, task[w].old)]]
        BY <3>4
      <4> QED BY <3>1, <3>3, <4>1
    <3>5. CASE task' = [task EXCEPT ![w].step = "abort",
                                   ![w].out = Clearings(task[w].old)]
      <4>1. task' = [task EXCEPT ![w] =
              [task[w] EXCEPT !.step = "abort", !.out = Clearings(task[w].old)]]
        BY <3>5
      <4> QED BY <3>2, <3>3, <4>1
    <3> QED BY <1>3, <3>4, <3>5 DEF ParseFreedTree
  <2>2. task' \in [Workspaces -> Tasks]
    <3>1. PICK s \in TaskSteps, o \in SUBSET Entries :
            task' = [task EXCEPT ![w] = [task[w] EXCEPT !.step = s, !.out = o]]
      BY <2>1
    <3>2. [task[w] EXCEPT !.step = s, !.out = o] \in Tasks
      BY <1>0, TaskWith
    <3> QED BY <3>1, <3>2
  <2> QED BY <1>3, <2>2 DEF ParseFreedTree
<1>4. CASE TaskPublishes(w)
  <2>1. PICK e \in task[w].out :
          Publish(e) /\ task' = [task EXCEPT ![w].out = @ \ {e}]
    BY <1>4 DEF TaskPublishes
  <2>2. task' \in [Workspaces -> Tasks]
    <3>1. [task[w] EXCEPT !.out = task[w].out \ {e}] \in Tasks
      <4>1. task[w].out \ {e} \in SUBSET Entries
        BY <1>0
      <4> QED BY <1>0, <4>1, TaskWith
    <3>2. task' = [task EXCEPT ![w] = [task[w] EXCEPT !.out = task[w].out \ {e}]]
      BY <2>1
    <3> QED BY <3>1, <3>2
  <2>3. shown' \in [Files -> Contents]
    BY <1>0, <2>1 DEF Publish, Entries
  <2> QED BY <1>4, <2>2, <2>3 DEF TaskPublishes
<1>7. CASE TaskPublishThrows(w)
  <2>1. task' \in [Workspaces -> Tasks]
    BY <1>7, NoTaskType DEF TaskPublishThrows
  <2>2. shown' \in [Files -> Contents]
    BY <1>7 DEF TaskPublishThrows, PublishThrows, Contents
  <2> QED BY <1>7, <2>1, <2>2 DEF TaskPublishThrows
<1>5. CASE TaskReleasesReading(w)
  <2>1. task' \in [Workspaces -> Tasks]
    <3>1. [task[w] EXCEPT !.step = "writing"] \in Tasks
      BY <1>0, TaskWith DEF TaskSteps
    <3>2. \/ task' = [task EXCEPT ![w] = NoTask]
          \/ task' = [task EXCEPT ![w] = [task[w] EXCEPT !.step = "writing"]]
      BY <1>5 DEF TaskReleasesReading
    <3> QED BY <3>1, <3>2, NoTaskType
  <2> QED BY <1>5, <2>1 DEF TaskReleasesReading
<1>6. CASE TaskReleasesWriting(w)
  <2>1. task' \in [Workspaces -> Tasks]
    <3>1. [task[w] EXCEPT !.step = "abortReading"] \in Tasks
      BY <1>0, TaskWith DEF TaskSteps
    <3>2. \/ task' = [task EXCEPT ![w] = NoTask]
          \/ task' = [task EXCEPT ![w] = [task[w] EXCEPT !.step = "abortReading"]]
      BY <1>6 DEF TaskReleasesWriting
    <3> QED BY <3>1, <3>2, NoTaskType
  <2> QED BY <1>6, <2>1 DEF TaskReleasesWriting
<1> QED
  BY <1>1, <1>2, <1>3, <1>4, <1>5, <1>6, <1>7 DEF Update, TaskStep

LEMMA NextType == TypeOK /\ [Next]_vars => TypeOK'
<1>1. TypeOK /\ UNCHANGED vars => TypeOK'
  BY DEF vars, TypeOK
<1> QED
  BY <1>1, EnvironmentType, StepType, UpdateType DEF Next, Rest

(***************************************************************************)
(* Every variable keeps its type.                                          *)
(***************************************************************************)
THEOREM TypeCorrect == Spec => []TypeOK
BY InitType, NextType, PTL DEF Spec

-----------------------------------------------------------------------------
(***************************************************************************)
(* The semaphores of the language server do their work, whatever the       *)
(* messages, the exceptions and the order the threads run in.  The proof   *)
(* follows SemaphoresInv: most steps leave every semaphore alone and give  *)
(* nobody a new role (Quiet); eight steps take or release one.             *)
(***************************************************************************)
USE DEF workspaceVars, treeVars, threadVars, serverVars, clientVars

(***************************************************************************)
(* Where a thread is tells what it handles.                                *)
(***************************************************************************)
LEMMA Whereabouts ==
  ASSUME NEW k \in Kinds
  PROVE  /\ "smph" \in Stages(k) => k \in {"change", "foreign", "wrap"}
         /\ "unlock" \in Stages(k) => k \in {"change", "wrap"}
         /\ "owns" \in Stages(k) =>
              k \in {"change", "close", "format"} \cup QueryKinds
         /\ "writing" \in Stages(k) => k = "change"
         /\ "reading" \in Stages(k) => k = "change"
         /\ "acquire" \in Stages(k) => k \in QueryKinds
         /\ "read" \in Stages(k) => k \in QueryKinds
         /\ "answer" \in Stages(k) => k \in QueryKinds
         /\ "format" \in Stages(k) => k = "format"
         /\ "erase" \in Stages(k) => k = "close"
         /\ "drop" \in Stages(k) => k = "close"
         /\ "options" \in Stages(k) => k = "config"
         /\ "clear" \in Stages(k) => k \in {"config", "wrap"}
         /\ "publishOld" \in Stages(k) => k \in {"config", "wrap"}
         /\ "reparse" \in Stages(k) => k \in {"config", "wrap"}
         /\ "publishNew" \in Stages(k) => k \in {"config", "wrap", "initialized"}
         /\ "greet" \in Stages(k) => k = "initialized"
         /\ "shutdown" \in Stages(k) => k = "shutdown"
         /\ "idle" \notin Stages(k)
BY DEF Stages, Kinds, QueryKinds

LEMMA Itineraries ==
  /\ Stages("change") = {"smph", "owns", "writing", "reading", "unlock"}
  /\ Stages("foreign") = {"smph"}
  /\ Stages("close") = {"erase", "owns", "drop"}
  /\ \A k \in QueryKinds : Stages(k) = {"owns", "acquire", "read", "answer"}
  /\ Stages("format") = {"format", "owns"}
  /\ Stages("config") =
       {"options", "clear", "publishOld", "reparse", "publishNew"}
  /\ Stages("initialized") = {"greet", "publishNew"}
  /\ Stages("shutdown") = {"shutdown"}
  /\ Stages("wrap") = {"smph", "clear", "publishOld", "reparse", "publishNew",
                       "unlock", "dead"}
BY DEF Stages, QueryKinds

LEMMA EntryOnTrack == ASSUME NEW k \in Kinds PROVE Entry(k) \in Stages(k)
BY DEF Entry, Stages, Kinds, QueryKinds

Roles == \A w \in Workspaces : OneReads(w) /\ OneWrites(w) /\ ReaderCompletes(w)

\* Thread h may move; the others stay where they are.
OnlyMoves(h) ==
  \A g \in Threads \ {h} : pc'[g] = pc[g] /\ msg'[g] = msg[g] /\ at'[g] = at[g]

LEMMA StepMoves ==
  ASSUME TypeOK, NEW h \in Threads, Step(h) PROVE OnlyMoves(h)
BY DEF TypeOK, Step, OnlyMoves, AcquireSmph, ForeignChange, ReleaseSmph, Owns, AcquireWriting,
       PatchFile, AcquireReading, Read, ReadThrows, Answer, Format,
       EraseCachedContents, DropCache, UpdateOptions, ClearDiagnostics,
       PublishOld, Reparse, ReparseThrows, PublishNew, PublishNewThrows, Initialized, Shutdown,
       Goto, Finish, Continue


\* A thread that starts on a message is where the handler begins.
LEMMA StartOnTrack ==
  ASSUME TypeOK, OnTrack, NEW h \in Threads, NEW m \in Messages, Start(h, m)
  PROVE  OnTrack'
<1>1. m.kind \in Kinds
  BY DEF Messages
<1> QED BY <1>1, EntryOnTrack DEF TypeOK, OnTrack, Start

\* A thread that ends is idle; one that moves on stays on the track.
LEMMA StepOnTrack ==
  ASSUME TypeOK, OnTrack, NEW h \in Threads, Step(h) PROVE OnTrack'
<1> DEFINE k == msg[h].kind
<1>1. k \in Kinds
  BY DEF TypeOK, Messages
<1>2. ASSUME pc'[h] = "idle" \/ (msg'[h].kind = k /\ pc'[h] \in Stages(k))
      PROVE  OnTrack'
  BY <1>2, StepMoves DEF OnlyMoves, OnTrack
<1>3. pc[h] = "idle" \/ pc[h] \in Stages(k)
  BY DEF OnTrack
<1> DEFINE Onward == pc'[h] = "idle" \/ (msg'[h].kind = k /\ pc'[h] \in Stages(k))
<1> USE <1>1, <1>3, Whereabouts, Itineraries DEF TypeOK, Goto, Finish, Continue
<1>4. CASE AcquireSmph(h) \/ ForeignChange(h) \/ ReleaseSmph(h)
  BY <1>2, <1>4 DEF AcquireSmph, ForeignChange, ReleaseSmph, QueryKinds
<1>5. CASE Owns(h)
  BY <1>2, <1>5 DEF Owns, QueryKinds
<1>6. CASE AcquireWriting(h) \/ PatchFile(h)
  BY <1>2, <1>6 DEF AcquireWriting, PatchFile, QueryKinds
<1>7. CASE AcquireReading(h) \/ Read(h) \/ ReadThrows(h) \/ Answer(h)
  BY <1>2, <1>7 DEF AcquireReading, Read, ReadThrows, Answer, QueryKinds
<1>8. CASE Format(h) \/ EraseCachedContents(h) \/ DropCache(h)
  BY <1>2, <1>8 DEF Format, EraseCachedContents, DropCache, QueryKinds
<1>9. CASE UpdateOptions(h) \/ ClearDiagnostics(h)
  BY <1>2, <1>9 DEF UpdateOptions, ClearDiagnostics, QueryKinds
<1>12. CASE PublishOld(h)
  <2>1. k \in {"config", "wrap"} /\ msg'[h].kind = k
    BY <1>12 DEF PublishOld
  <2>2. pc'[h] \in {"publishOld", "reparse", "publishNew"}
    <3>1. CASE toClear[h] = {}
      BY <1>12, <3>1 DEF PublishOld
    <3>2. CASE toClear[h] # {}
      <4>1. UNCHANGED pc
        BY <1>12, <3>2 DEF PublishOld
      <4>2. pc[h] = "publishOld"
        BY <1>12 DEF PublishOld
      <4> QED BY <4>1, <4>2
    <3> QED BY <3>1, <3>2
  <2>3. pc'[h] \in Stages(k)
    BY <2>1, <2>2, Itineraries
  <2> QED BY <1>2, <2>1, <2>3
<1>10. CASE Reparse(h) \/ ReparseThrows(h) \/ PublishNew(h)
  BY <1>2, <1>10 DEF Reparse, ReparseThrows, PublishNew, QueryKinds
<1>13. CASE PublishNewThrows(h)
  BY <1>2, <1>13 DEF PublishNewThrows, QueryKinds
<1>11. CASE Initialized(h) \/ Shutdown(h)
  BY <1>2, <1>11 DEF Initialized, Shutdown, QueryKinds
<1> QED
  BY <1>4, <1>5, <1>6, <1>7, <1>8, <1>9, <1>10, <1>11, <1>12, <1>13 DEF Step

-----------------------------------------------------------------------------
(***************************************************************************)
(* Steps that neither take nor release a semaphore.                        *)
(***************************************************************************)
SemaphoresSame == UNCHANGED <<smph, reading, writing, completing>>

TasksHoldNoMore ==
  \A w \in Workspaces : /\ UpdateReads(w)' => UpdateReads(w)
                        /\ UpdateWrites(w)' => UpdateWrites(w)

\* Thread h gets no role it did not have.
NoNewRole(h) ==
  /\ h \in InSmph' => h \in InSmph
  /\ \A w \in Workspaces :
       /\ h \in Readers(w)' => h \in Readers(w) /\ msg'[h] = msg[h]
       /\ h \in Patchers(w)' => h \in Patchers(w)

LEMMA Quiet ==
  ASSUME OneInSmph, Roles, NEW h \in Threads, OnlyMoves(h), NoNewRole(h),
         SemaphoresSame, TasksHoldNoMore
  PROVE  OneInSmph' /\ Roles'
<1>1. InSmph' \subseteq InSmph
  BY DEF InSmph, OnlyMoves, NoNewRole
<1>2. \A w \in Workspaces : Readers(w)' \subseteq Readers(w)
  BY DEF Readers, OnlyMoves, NoNewRole
<1>3. \A w \in Workspaces : Patchers(w)' \subseteq Patchers(w)
  BY DEF Patchers, OnlyMoves, NoNewRole
<1>4. \A w \in Workspaces, g \in Threads :
        g \in Readers(w)' => msg'[g] = msg[g]
  BY DEF OnlyMoves, NoNewRole
<1>5. OneInSmph'
  BY <1>1 DEF OneInSmph, SemaphoresSame
<1>6. ASSUME NEW w \in Workspaces PROVE OneReads(w)'
  BY <1>2, <1>6 DEF Roles, OneReads, SemaphoresSame, TasksHoldNoMore
<1>7. ASSUME NEW w \in Workspaces PROVE OneWrites(w)'
  BY <1>3, <1>7 DEF Roles, OneWrites, SemaphoresSame, TasksHoldNoMore
<1>8. ASSUME NEW w \in Workspaces PROVE ReaderCompletes(w)'
  <2>1. \A g \in Readers(w)' : g \in Threads /\ g \in Readers(w) /\ msg'[g] = msg[g]
    BY <1>2, <1>4, <1>8 DEF Readers
  <2> QED
    BY <2>1, <1>8 DEF Roles, ReaderCompletes, SemaphoresSame, TasksHoldNoMore
<1> QED BY <1>5, <1>6, <1>7, <1>8 DEF Roles

LEMMA StartQuiet ==
  ASSUME TypeOK, OneInSmph, Roles, NEW h \in Threads, NEW m \in Messages,
         Start(h, m), at' \in [Threads -> Workspaces],
         \A g \in Threads \ {h} : at'[g] = at[g]
  PROVE  OneInSmph' /\ Roles'
<1>0. m.kind \in Kinds
  BY DEF Messages
<1>1. OnlyMoves(h)
  BY DEF TypeOK, Start, OnlyMoves
<1>2. pc'[h] = Entry(m.kind) /\ msg'[h] = m
  BY DEF TypeOK, Start
<1>3. pc'[h] \notin {"read", "answer", "reading"} /\ h \notin InSmph'
  BY <1>0, <1>2 DEF InSmph, Entry, Kinds, QueryKinds
<1>4. NoNewRole(h)
  BY <1>3 DEF NoNewRole, Readers, Patchers
<1>5. SemaphoresSame /\ TasksHoldNoMore
  BY DEF Start, SemaphoresSame, TasksHoldNoMore, UpdateReads, UpdateWrites
<1> QED BY <1>1, <1>4, <1>5, Quiet

QuietStep(h) ==
  \/ Owns(h) \/ Read(h) \/ ReadThrows(h) \/ Format(h)
  \/ EraseCachedContents(h) \/ DropCache(h)
  \/ UpdateOptions(h) \/ ClearDiagnostics(h) \/ PublishOld(h)
  \/ Reparse(h) \/ ReparseThrows(h)
  \/ PublishNew(h) \/ PublishNewThrows(h)
  \/ Initialized(h) \/ Shutdown(h)

LEMMA QuietStepQuiet ==
  ASSUME TypeOK, OnTrack, OneInSmph, Roles, NEW h \in Threads, QuietStep(h)
  PROVE  OneInSmph' /\ Roles'
<1> DEFINE k == msg[h].kind
<1>1. k \in Kinds
  BY DEF TypeOK, Messages
<1>2. OnlyMoves(h)
  BY StepMoves DEF QuietStep, Step
<1>3. SemaphoresSame
  BY DEF QuietStep, SemaphoresSame, Owns, Read, ReadThrows, Format,
     EraseCachedContents, DropCache, UpdateOptions, ClearDiagnostics,
     PublishOld, Reparse, ReparseThrows, PublishNew, PublishNewThrows, Initialized, Shutdown
<1>4. TasksHoldNoMore
  <2>1. CASE Reparse(h)
    <3>1. \A w \in Workspaces : task'[w].step = task[w].step
      BY <2>1 DEF Reparse, TypeOK, Tasks
    <3> QED BY <3>1 DEF TasksHoldNoMore, UpdateReads, UpdateWrites
  <2>2. CASE task' = task
    BY <2>2 DEF TasksHoldNoMore, UpdateReads, UpdateWrites
  <2> QED
    BY <2>1, <2>2 DEF QuietStep, Owns, Read, ReadThrows, Format,
       EraseCachedContents, DropCache, UpdateOptions, ClearDiagnostics,
       PublishOld, ReparseThrows, PublishNew, PublishNewThrows, Initialized, Shutdown
<1>5. NoNewRole(h)
  <2>1. pc[h] = "idle" \/ pc[h] \in Stages(k)
    BY DEF OnTrack
  <2>2. CASE Read(h)
    BY <2>2 DEF Read, Goto, TypeOK, NoNewRole, InSmph, Readers, Patchers
  <2>3. ASSUME pc'[h] \notin {"read", "answer", "reading"},
               h \in InSmph' => h \in InSmph
        PROVE  NoNewRole(h)
    BY <2>3 DEF NoNewRole, Readers, Patchers
  <2>4. CASE Owns(h)
    BY <2>3, <2>4 DEF Owns, Goto, Finish, Continue, TypeOK, InSmph
  <2> USE <1>1, <2>1, <2>3, Whereabouts DEF Goto, Finish, TypeOK, InSmph
  <2>5. CASE ReadThrows(h) \/ DropCache(h) \/ Shutdown(h)
    BY <2>5 DEF ReadThrows, DropCache, Shutdown
  <2>6. CASE Format(h) \/ EraseCachedContents(h)
    BY <2>6 DEF Format, EraseCachedContents
  <2>7. CASE UpdateOptions(h) \/ ClearDiagnostics(h) \/ Initialized(h)
    BY <2>7 DEF UpdateOptions, ClearDiagnostics, Initialized
  <2>8. CASE PublishOld(h)
    BY <2>8 DEF PublishOld
  <2>9. CASE Reparse(h) \/ ReparseThrows(h)
    BY <2>9 DEF Reparse, ReparseThrows
  <2>10. CASE PublishNew(h)
    BY <2>10 DEF PublishNew, Continue
  <2>11. CASE PublishNewThrows(h)
    BY <2>11 DEF PublishNewThrows
  <2> QED
    BY <2>2, <2>4, <2>5, <2>6, <2>7, <2>8, <2>9, <2>10, <2>11 DEF QuietStep
<1> QED BY <1>2, <1>3, <1>4, <1>5, Quiet

-----------------------------------------------------------------------------
(***************************************************************************)
(* Steps that take or release a semaphore, one lemma for each.             *)
(***************************************************************************)
LEMMA AcquireSmphKeepsRoles ==
  ASSUME TypeOK, OnTrack, OneInSmph, Roles, NEW h \in Threads, AcquireSmph(h)
  PROVE  OneInSmph' /\ Roles'
<1>1. OnlyMoves(h)
  BY StepMoves DEF Step
<1>2. InSmph = {}
  BY DEF AcquireSmph, OneInSmph
<1>3. InSmph' \subseteq {h}
  BY <1>1, <1>2 DEF OnlyMoves, InSmph
<1>4. OneInSmph'
  BY <1>3 DEF AcquireSmph, OneInSmph
<1>5. \A w \in Workspaces : /\ Readers(w)' = Readers(w) \ {h}
                            /\ Patchers(w)' = Patchers(w) \ {h}
  BY <1>1 DEF AcquireSmph, Goto, TypeOK, OnlyMoves, Readers, Patchers
<1>6. ASSUME NEW w \in Workspaces
      PROVE  OneReads(w)' /\ OneWrites(w)' /\ ReaderCompletes(w)'
  BY <1>5, <1>6 DEF AcquireSmph, Roles, OneReads, OneWrites, ReaderCompletes,
                    UpdateReads, UpdateWrites
<1> QED BY <1>4, <1>6 DEF Roles

\* smph is taken by an edit that has ended.
LEMMA ForeignChangeKeepsRoles ==
  ASSUME TypeOK, OneInSmph, Roles, NEW h \in Threads, ForeignChange(h)
  PROVE  OneInSmph' /\ Roles'
<1>1. OnlyMoves(h)
  BY StepMoves DEF Step
<1>2. InSmph = {}
  BY DEF ForeignChange, OneInSmph
<1>3. pc'[h] = "idle"
  BY DEF ForeignChange, Finish, Goto, TypeOK
<1>4. InSmph' = {}
  BY <1>1, <1>2, <1>3 DEF OnlyMoves, InSmph
<1>5. OneInSmph'
  BY <1>4 DEF OneInSmph
<1>6. \A w \in Workspaces : /\ Readers(w)' = Readers(w) \ {h}
                            /\ Patchers(w)' = Patchers(w) \ {h}
  BY <1>1, <1>3 DEF OnlyMoves, Readers, Patchers
<1>7. ASSUME NEW w \in Workspaces
      PROVE  OneReads(w)' /\ OneWrites(w)' /\ ReaderCompletes(w)'
  <2>1. \A g \in Readers(w)' : g \in Readers(w) /\ msg'[g] = msg[g]
    BY <1>1, <1>6 DEF OnlyMoves, Readers
  <2> QED
    BY <1>6, <1>7, <2>1 DEF ForeignChange, Roles, OneReads, OneWrites, ReaderCompletes,
                            UpdateReads, UpdateWrites
<1> QED BY <1>5, <1>7 DEF Roles

\* Whoever releases smph is the one who has it.
LEMMA ReleaseSmphKeepsRoles ==
  ASSUME TypeOK, OnTrack, OneInSmph, Roles, NEW h \in Threads, ReleaseSmph(h)
  PROVE  OneInSmph' /\ Roles'
<1>1. OnlyMoves(h)
  BY StepMoves DEF Step
<1>2. msg[h].kind \in Kinds
  BY DEF TypeOK, Messages
<1>3. h \in InSmph
  BY <1>2, Whereabouts DEF ReleaseSmph, OnTrack, InSmph
<1>4. pc'[h] = "idle"
  BY DEF ReleaseSmph, Finish, Goto, TypeOK
<1>5. h \notin InSmph'
  BY <1>4 DEF InSmph
<1>6. InSmph' = {}
  BY <1>1, <1>3, <1>5 DEF OneInSmph, OnlyMoves, InSmph
<1>7. OneInSmph'
  BY <1>6 DEF OneInSmph
<1>8. \A w \in Workspaces : Readers(w)' = Readers(w) /\ Patchers(w)' = Patchers(w)
  BY <1>1, <1>4 DEF ReleaseSmph, OnlyMoves, Readers, Patchers
<1>9. \A g \in Threads : pc'[g] # "idle" => msg'[g] = msg[g]
  BY <1>1, <1>4 DEF OnlyMoves
<1>10. ASSUME NEW w \in Workspaces
       PROVE  OneReads(w)' /\ OneWrites(w)' /\ ReaderCompletes(w)'
  <2>1. OneReads(w)' /\ OneWrites(w)'
    BY <1>8, <1>10 DEF ReleaseSmph, Roles, OneReads, OneWrites, UpdateReads,
                       UpdateWrites
  <2>2. \A g \in Readers(w)' : g \in Readers(w) /\ msg'[g] = msg[g]
    BY <1>8, <1>9, <1>10 DEF Readers
  <2>3. ReaderCompletes(w)'
    BY <2>2 DEF ReleaseSmph, Roles, ReaderCompletes, UpdateReads
  <2> QED BY <2>1, <2>3
<1> QED BY <1>7, <1>10 DEF Roles

LEMMA AcquireWritingKeepsRoles ==
  ASSUME TypeOK, OnTrack, OneInSmph, Roles, NEW h \in Threads, AcquireWriting(h)
  PROVE  OneInSmph' /\ Roles'
<1> DEFINE v == at[h]
<1>0. v \in Workspaces /\ msg[h].kind \in Kinds
  BY DEF TypeOK, Messages
<1>1. OnlyMoves(h) /\ UNCHANGED <<msg, at>> /\ pc'[h] = "reading"
  BY StepMoves DEF Step, AcquireWriting, Goto, TypeOK
<1>2. OneInSmph'
  <2>1. InSmph' = InSmph
    BY <1>1, <1>0, Whereabouts DEF AcquireWriting, OnlyMoves, InSmph, OnTrack
  <2> QED BY <2>1 DEF AcquireWriting, OneInSmph
<1>3. Patchers(v) = {} /\ ~UpdateWrites(v)
  BY <1>0 DEF AcquireWriting, Roles, OneWrites
<1>4. ASSUME NEW w \in Workspaces
      PROVE  OneReads(w)' /\ OneWrites(w)' /\ ReaderCompletes(w)'
  <2>1. Readers(w)' = Readers(w)
    BY <1>1 DEF AcquireWriting, OnlyMoves, Readers
  <2>2. OneReads(w)' /\ ReaderCompletes(w)'
    BY <1>4, <2>1 DEF AcquireWriting, Roles, OneReads, ReaderCompletes, UpdateReads
  <2>3. CASE w = v
    <3>1. Patchers(w)' \subseteq {h} /\ ~UpdateWrites(w)'
      BY <1>1, <1>3, <2>3 DEF AcquireWriting, OnlyMoves, Patchers, UpdateWrites
    <3>2. writing'[w] = 0
      BY <1>0, <2>3 DEF AcquireWriting, TypeOK
    <3> QED BY <2>2, <3>1, <3>2 DEF OneWrites
  <2>4. CASE w # v
    <3>1. Patchers(w)' = Patchers(w) /\ writing'[w] = writing[w]
      BY <1>0, <1>1, <2>4 DEF AcquireWriting, OnlyMoves, Patchers, TypeOK
    <3>2. OneWrites(w)'
      BY <1>4, <3>1 DEF AcquireWriting, Roles, OneWrites, UpdateWrites
    <3> QED BY <2>2, <3>2
  <2> QED BY <2>3, <2>4
<1> QED BY <1>2, <1>4 DEF Roles

\* patchFile hands its permit of writing and that of reading to the update.
LEMMA PatchFileKeepsRoles ==
  ASSUME TypeOK, OnTrack, OneInSmph, Roles, NEW h \in Threads, PatchFile(h)
  PROVE  OneInSmph' /\ Roles'
<1> DEFINE v == at[h]
<1>0. v \in Workspaces /\ msg[h].kind \in Kinds
  BY DEF TypeOK, Messages
<1>1. OnlyMoves(h) /\ UNCHANGED <<msg, at>> /\ pc'[h] = "unlock"
  BY StepMoves DEF Step, PatchFile, Goto, TypeOK
<1>2. OneInSmph'
  <2>1. InSmph' = InSmph
    BY <1>1, <1>0, Whereabouts DEF PatchFile, OnlyMoves, InSmph, OnTrack
  <2> QED BY <2>1 DEF PatchFile, OneInSmph
<1>3. Readers(v) = {} /\ ~UpdateReads(v) /\ ~completing[v]
  BY <1>0 DEF PatchFile, Roles, OneReads, ReaderCompletes
<1>4. h \in Patchers(v) /\ writing[v] = 0
  BY <1>0 DEF PatchFile, Patchers, Roles, OneWrites
<1>5. \A w \in Workspaces \ {v} : task'[w] = task[w] /\ reading'[w] = reading[w]
  BY <1>0 DEF PatchFile, Patch, StartUpdate, TypeOK
<1>6. reading'[v] = 0
  BY <1>0 DEF PatchFile, TypeOK
<1>7. \A w \in Workspaces : Readers(w)' = Readers(w)
  BY <1>1 DEF PatchFile, OnlyMoves, Readers
<1>8. \A w \in Workspaces : Patchers(w)' = Patchers(w) \ {h}
  BY <1>1 DEF PatchFile, OnlyMoves, Patchers
<1>9. ASSUME NEW w \in Workspaces
      PROVE  OneReads(w)' /\ OneWrites(w)' /\ ReaderCompletes(w)'
  <2>1. CASE w = v
    <3>1. Patchers(w)' = {}
      BY <1>4, <1>8, <2>1 DEF Roles, OneWrites
    <3>2. OneReads(w)'
      BY <1>3, <1>6, <1>7, <2>1 DEF OneReads
    <3>3. OneWrites(w)'
      BY <1>4, <3>1, <2>1 DEF PatchFile, OneWrites
    <3>4. ReaderCompletes(w)'
      BY <1>3, <2>1 DEF PatchFile, ReaderCompletes
    <3> QED BY <3>2, <3>3, <3>4
  <2>2. CASE w # v
    <3>1. Patchers(w)' = Patchers(w)
      BY <1>8, <2>2 DEF Patchers
    <3>2. OneReads(w)' /\ OneWrites(w)'
      BY <1>5, <1>7, <1>9, <2>2, <3>1
      DEF PatchFile, Roles, OneReads, OneWrites, UpdateReads, UpdateWrites
    <3>3. ReaderCompletes(w)'
      BY <1>1, <1>5, <1>7, <1>9, <2>2
      DEF PatchFile, Roles, ReaderCompletes, UpdateReads
    <3> QED BY <3>2, <3>3
  <2> QED BY <2>1, <2>2
<1> QED BY <1>2, <1>9 DEF Roles

LEMMA AcquireReadingKeepsRoles ==
  ASSUME TypeOK, OnTrack, OneInSmph, Roles, NEW h \in Threads, AcquireReading(h)
  PROVE  OneInSmph' /\ Roles'
<1> DEFINE v == at[h]
<1>0. v \in Workspaces /\ msg[h].kind \in Kinds
  BY DEF TypeOK, Messages
<1>1. OnlyMoves(h) /\ UNCHANGED <<msg, at>> /\ pc'[h] = "read"
  BY StepMoves DEF Step, AcquireReading, Goto, TypeOK
<1>2. OneInSmph'
  <2>1. InSmph' = InSmph
    BY <1>1, <1>0, Whereabouts DEF AcquireReading, OnlyMoves, InSmph, OnTrack
  <2> QED BY <2>1 DEF AcquireReading, OneInSmph
<1>3. Readers(v) = {} /\ ~UpdateReads(v) /\ ~completing[v]
  BY <1>0 DEF AcquireReading, Roles, OneReads, ReaderCompletes
<1>4. \A w \in Workspaces \ {v} :
        reading'[w] = reading[w] /\ completing'[w] = completing[w]
  BY <1>0 DEF AcquireReading, TypeOK
<1>5. reading'[v] = 0
  BY <1>0 DEF AcquireReading, TypeOK
<1>6. completing'[v] => msg[h].kind = "completion"
  BY <1>0, <1>3, Zenon DEF AcquireReading, TypeOK
<1>7. \A w \in Workspaces : Readers(w)' = IF w = v THEN {h} ELSE Readers(w)
  BY <1>1, <1>3 DEF AcquireReading, OnlyMoves, Readers
<1>8. \A w \in Workspaces : Patchers(w)' = Patchers(w)
  BY <1>1 DEF AcquireReading, OnlyMoves, Patchers
<1>9. ASSUME NEW w \in Workspaces
      PROVE  OneReads(w)' /\ OneWrites(w)' /\ ReaderCompletes(w)'
  <2>1. OneWrites(w)'
    BY <1>8, <1>9 DEF AcquireReading, Roles, OneWrites, UpdateWrites
  <2>2. CASE w = v
    <3>1. OneReads(w)'
      BY <1>3, <1>5, <1>7, <2>2 DEF AcquireReading, OneReads, UpdateReads
    <3>2. ReaderCompletes(w)'
      BY <1>1, <1>3, <1>5, <1>6, <1>7, <2>2
      DEF AcquireReading, ReaderCompletes, UpdateReads
    <3> QED BY <2>1, <3>1, <3>2
  <2>3. CASE w # v
    <3>1. OneReads(w)'
      BY <1>4, <1>7, <1>9, <2>3 DEF AcquireReading, Roles, OneReads, UpdateReads
    <3>2. ReaderCompletes(w)'
      BY <1>1, <1>4, <1>7, <1>9, <2>3
      DEF AcquireReading, Roles, ReaderCompletes, UpdateReads
    <3> QED BY <2>1, <3>1, <3>2
  <2> QED BY <2>2, <2>3
<1> QED BY <1>2, <1>9 DEF Roles

\* The reader was the only one, so reading is free for anybody.
LEMMA AnswerKeepsRoles ==
  ASSUME TypeOK, OnTrack, OneInSmph, Roles, NEW h \in Threads, Answer(h)
  PROVE  OneInSmph' /\ Roles'
<1> DEFINE v == at[h]
<1>0. v \in Workspaces /\ msg[h].kind \in Kinds
  BY DEF TypeOK, Messages
<1>1. OnlyMoves(h) /\ pc'[h] = "idle"
  BY StepMoves DEF Step, Answer, Finish, Goto, TypeOK
<1>2. OneInSmph'
  <2>1. InSmph' \subseteq InSmph
    BY <1>1 DEF OnlyMoves, InSmph
  <2> QED BY <2>1 DEF Answer, OneInSmph
<1>3. h \in Readers(v)
  BY DEF Answer, Readers
<1>4. ~UpdateReads(v) /\ Readers(v) = {h}
  BY <1>0, <1>3 DEF Roles, OneReads
<1>5. \A w \in Workspaces \ {v} :
        reading'[w] = reading[w] /\ completing'[w] = completing[w]
  BY <1>0 DEF Answer, TypeOK
<1>6. ~completing'[v]
  <2>1. completing[v] => msg[h].kind = "completion"
    BY <1>0, <1>3 DEF Roles, ReaderCompletes
  <2>2. completing'[v] = (completing[v] /\ msg[h].kind # "completion")
    BY <1>0, Zenon DEF Answer, TypeOK
  <2> QED BY <2>1, <2>2
<1>7. \A w \in Workspaces : Readers(w)' = Readers(w) \ {h}
  BY <1>1 DEF OnlyMoves, Readers
<1>8. \A w \in Workspaces : Patchers(w)' = Patchers(w)
  BY <1>1 DEF Answer, OnlyMoves, Patchers
<1>9. \A w \in Workspaces, g \in Threads : g \in Readers(w)' => msg'[g] = msg[g]
  BY <1>1, <1>7 DEF OnlyMoves
<1>10. ASSUME NEW w \in Workspaces
       PROVE  OneReads(w)' /\ OneWrites(w)' /\ ReaderCompletes(w)'
  <2>1. OneWrites(w)'
    BY <1>8, <1>10 DEF Answer, Roles, OneWrites, UpdateWrites
  <2>2. CASE w = v
    BY <1>4, <1>6, <1>7, <2>1, <2>2
    DEF Answer, OneReads, ReaderCompletes, UpdateReads
  <2>3. CASE w # v
    <3>1. OneReads(w)'
      BY <1>5, <1>7, <1>10, <2>3 DEF Answer, Roles, OneReads, UpdateReads
    <3>2. \A g \in Readers(w)' : g \in Readers(w) /\ msg'[g] = msg[g]
      BY <1>7, <1>9, <1>10 DEF Readers
    <3>3. ReaderCompletes(w)'
      BY <1>5, <1>10, <2>3, <3>2 DEF Answer, Roles, ReaderCompletes, UpdateReads
    <3> QED BY <2>1, <3>1, <3>3
  <2> QED BY <2>2, <2>3
<1> QED BY <1>2, <1>10 DEF Roles

-----------------------------------------------------------------------------
(***************************************************************************)
(* The update task: it holds what patchFile has taken until it releases    *)
(* it, and releases nothing it does not hold.                              *)
(***************************************************************************)
LEMMA UpdateKeepsRoles ==
  ASSUME TypeOK, OneInSmph, Roles, NEW v \in Workspaces, Update(v)
  PROVE  OneInSmph' /\ Roles'
<1>1. UNCHANGED <<pc, msg, at, smph>>
  BY DEF Update
<1>2. OneInSmph'
  BY <1>1 DEF OneInSmph, InSmph
<1>3. \A w \in Workspaces : Readers(w)' = Readers(w) /\ Patchers(w)' = Patchers(w)
  BY <1>1 DEF Readers, Patchers
<1>4. UNCHANGED completing
  BY DEF Update, TaskStep, ParseSucceeds, ParseThrows, ParseFreedTree,
     TaskPublishes, TaskPublishThrows, TaskReleasesReading, TaskReleasesWriting
<1>5. \A w \in Workspaces \ {v} : /\ task'[w] = task[w]
                                 /\ reading'[w] = reading[w]
                                 /\ writing'[w] = writing[w]
  <2>1. CASE ParseSucceeds(v) \/ ParseThrows(v)
    BY <2>1 DEF ParseSucceeds, ParseThrows, TypeOK
  <2>2. CASE ParseFreedTree(v) \/ TaskPublishes(v) \/ TaskPublishThrows(v)
    BY <2>2 DEF ParseFreedTree, TaskPublishes, TaskPublishThrows, TypeOK
  <2>3. CASE TaskReleasesReading(v) \/ TaskReleasesWriting(v)
    BY <2>3 DEF TaskReleasesReading, TaskReleasesWriting, TypeOK
  <2> QED BY <2>1, <2>2, <2>3 DEF Update, TaskStep
<1>6. /\ UpdateReads(v)' => UpdateReads(v) /\ reading'[v] = reading[v]
      /\ UpdateWrites(v)' => UpdateWrites(v) /\ writing'[v] = writing[v]
      /\ reading'[v] # reading[v] => UpdateReads(v)
      /\ writing'[v] # writing[v] => UpdateWrites(v)
  <2>0. task[v] \in Tasks
    BY DEF TypeOK
  <2> USE <2>0 DEF TypeOK, Tasks, UpdateReads, UpdateWrites
  <2>1. CASE ParseSucceeds(v)
    BY <2>1 DEF ParseSucceeds
  <2>2. CASE ParseThrows(v)
    BY <2>2 DEF ParseThrows
  <2>3. CASE ParseFreedTree(v)
    BY <2>3 DEF ParseFreedTree
  <2>4. CASE TaskPublishes(v)
    BY <2>4 DEF TaskPublishes
  <2>7. CASE TaskPublishThrows(v)
    BY <2>7 DEF TaskPublishThrows, NoTask
  <2>5. CASE TaskReleasesReading(v)
    BY <2>5 DEF TaskReleasesReading, NoTask
  <2>6. CASE TaskReleasesWriting(v)
    BY <2>6 DEF TaskReleasesWriting, NoTask
  <2> QED BY <2>1, <2>2, <2>3, <2>4, <2>5, <2>6, <2>7 DEF Update, TaskStep
<1>7. ASSUME NEW w \in Workspaces
      PROVE  OneReads(w)' /\ OneWrites(w)' /\ ReaderCompletes(w)'
  <2>1. CASE w = v
    <3>1. OneReads(w)'
      BY <1>3, <1>6, <1>7, <2>1 DEF Roles, OneReads
    <3>2. OneWrites(w)'
      BY <1>3, <1>6, <1>7, <2>1 DEF Roles, OneWrites
    <3>3. ReaderCompletes(w)'
      BY <1>1, <1>3, <1>4, <1>6, <1>7, <2>1 DEF Roles, ReaderCompletes
    <3> QED BY <3>1, <3>2, <3>3
  <2>2. CASE w # v
    <3>1. /\ UpdateReads(w)' = UpdateReads(w)
          /\ UpdateWrites(w)' = UpdateWrites(w)
      BY <1>5, <2>2 DEF UpdateReads, UpdateWrites
    <3>2. OneReads(w)' /\ OneWrites(w)'
      BY <1>3, <1>5, <1>7, <2>2, <3>1 DEF Roles, OneReads, OneWrites
    <3>3. ReaderCompletes(w)'
      BY <1>1, <1>3, <1>4, <1>5, <1>7, <2>2, <3>1 DEF Roles, ReaderCompletes
    <3> QED BY <3>2, <3>3
  <2> QED BY <2>1, <2>2
<1> QED BY <1>2, <1>7 DEF Roles

-----------------------------------------------------------------------------
LEMMA InitSemaphores == Init => SemaphoresInv
<1> SUFFICES ASSUME Init PROVE SemaphoresInv
  OBVIOUS
<1>1. \A h \in Threads : pc[h] = "idle" /\ msg[h].kind = "shutdown"
  BY DEF Init, NoMessage
<1>2. InSmph = {} /\ \A w \in Workspaces : Readers(w) = {} /\ Patchers(w) = {}
  BY <1>1 DEF InSmph, Readers, Patchers
<1>3. \A w \in Workspaces : ~UpdateReads(w) /\ ~UpdateWrites(w) /\ ~completing[w]
  BY DEF Init, NoTask, UpdateReads, UpdateWrites
<1> QED
  BY <1>1, <1>2, <1>3
  DEF SemaphoresInv, OnTrack, OneInSmph, OneReads, OneWrites, ReaderCompletes

LEMMA NextSemaphores == TypeOK /\ SemaphoresInv /\ [Next]_vars => SemaphoresInv'
<1> SUFFICES ASSUME TypeOK, OnTrack, OneInSmph, Roles, [Next]_vars
             PROVE  OnTrack' /\ OneInSmph' /\ Roles'
  BY DEF SemaphoresInv, Roles
<1>1. CASE UNCHANGED vars
  <2>1. OnTrack' /\ OneInSmph'
    BY <1>1 DEF vars, OnTrack, OneInSmph, InSmph
  <2>2. Roles'
    BY <1>1 DEF vars, Roles, OneReads, OneWrites, ReaderCompletes, Readers,
                Patchers, UpdateReads, UpdateWrites
  <2> QED BY <2>1, <2>2
<1>2. CASE Environment
  BY <1>2, EnvironmentStarts, StartOnTrack, StartQuiet
<1>3. ASSUME NEW h \in Threads, Step(h) PROVE OnTrack' /\ OneInSmph' /\ Roles'
  <2>1. OnTrack'
    BY <1>3, StepOnTrack
  <2>2. OneInSmph' /\ Roles'
    BY <1>3, QuietStepQuiet, AcquireSmphKeepsRoles, ForeignChangeKeepsRoles,
       ReleaseSmphKeepsRoles,
       AcquireWritingKeepsRoles, PatchFileKeepsRoles, AcquireReadingKeepsRoles,
       AnswerKeepsRoles DEF Step, QuietStep
  <2> QED BY <2>1, <2>2
<1>4. ASSUME NEW w \in Workspaces, Update(w)
      PROVE  OnTrack' /\ OneInSmph' /\ Roles'
  <2>1. OnTrack'
    BY <1>4 DEF Update, OnTrack
  <2> QED BY <1>4, <2>1, UpdateKeepsRoles
<1> QED
  BY <1>1, <1>2, <1>3, <1>4 DEF Next, Rest

(***************************************************************************)
(* Each semaphore has at most one holder, who has taken its permit, and a  *)
(* thread is only where the handler of its message leads.                  *)
(***************************************************************************)
THEOREM OneHolder == Spec => []SemaphoresInv
<1>1. Init => TypeOK /\ SemaphoresInv
  BY InitType, InitSemaphores
<1>2. TypeOK /\ SemaphoresInv /\ [Next]_vars => TypeOK' /\ SemaphoresInv'
  BY NextType, NextSemaphores
<1> QED BY <1>1, <1>2, PTL DEF Spec

(***************************************************************************)
(* No query of a workspace runs during an update or another query of it.   *)
(***************************************************************************)
THEOREM Exclusion == Spec => []QueriesExcludeUpdates
<1>1. SemaphoresInv => QueriesExcludeUpdates
  BY DEF SemaphoresInv, QueriesExcludeUpdates, OneReads
<1> QED BY <1>1, OneHolder, PTL

(***************************************************************************)
(* No semaphore of the server is ever released while it is free.           *)
(***************************************************************************)
THEOREM PermitsHeld == Spec => []HoldersHavePermits
<1>1. SemaphoresInv => HoldersHavePermits
  BY DEF SemaphoresInv, HoldersHavePermits, OneInSmph, OneReads, OneWrites
<1> QED BY <1>1, OneHolder, PTL

(***************************************************************************)
(* The assertion at the start of Workspace::update never fails.            *)
(***************************************************************************)
THEOREM AssertionHolds == Spec => []UpdateAssertion
<1>1. SemaphoresInv => UpdateAssertion
  BY DEF SemaphoresInv, UpdateAssertion, ReaderCompletes, UpdateReads
<1> QED BY <1>1, OneHolder, PTL
================================================================================
