------------------------------- MODULE EditProofs -------------------------------
(***************************************************************************)
(* What edits may rely on, for any number of workspaces, trees, files,     *)
(* threads and messages: every permit comes back and the handlers never    *)
(* all wait for each other, as long as no reparse takes a file away; and   *)
(* as long as there are no reparses, no edit is cached without being       *)
(* analysed, and what the client is shown in the end comes from the        *)
(* present trees.  Which steps lose a permit, and that no handler goes on  *)
(* for ever, is proved with reparses and all exceptions.                   *)
(***************************************************************************)
EXTENDS ServiceProofs

\* Nothing replaces the trees of a workspace under its users.
Undisturbed == "config" \notin MessageKinds /\ ~WrapFilesChange

\* A reparse takes no file out of the analysis: there is none, or the build
\* definitions on disk reach all the files.
FilesStay == Undisturbed \/ \A f \in Files : FromDisk(f) # NoText

-----------------------------------------------------------------------------
USE DEF workspaceVars, treeVars, threadVars, serverVars, clientVars

(***************************************************************************)
(* A thread handles what the client sent or the watcher saw, and a file    *)
(* stays in the analysis until the edit that found it there has come.      *)
(***************************************************************************)
Received ==
  \A h \in Threads :
    \/ msg[h].kind \in MessageKinds \cup {"shutdown"}
    \/ msg[h].kind = "wrap" /\ WrapFilesChange

\* Nobody takes a file out of the analysis between owns and patchFile's look
\* at it: edits of others wait for smph, and updates for the edits.
StaysOwned ==
  \A h \in Threads :
    pc[h] \in {"writing", "reading"} =>
      msg[h].file \in Owned(at[h]) /\ ~UpdateReads(at[h])

NothingFreed == dangling = {} /\ \A w \in Workspaces : ~task[w].dangling

TreesInv == Received /\ NothingFreed /\ StaysOwned

\* All that is known of a state before a step, without reparses.
Before == Known /\ TreesInv

LEMMA NobodyReparses ==
  ASSUME Undisturbed, TypeOK, OnTrack, Received, NEW h \in Threads
  PROVE  /\ pc[h] \notin {"options", "clear", "publishOld", "reparse", "dead"}
         /\ msg[h].kind \notin {"config", "wrap"}
<1>1. msg[h].kind \in Kinds /\ msg[h].kind \notin {"config", "wrap"}
  BY LanguageServerAssumption DEF TypeOK, Messages, Received, Undisturbed
<1>2. "dead" \in Stages(msg[h].kind) => msg[h].kind = "wrap"
  BY <1>1 DEF Stages, Kinds, QueryKinds
<1> QED BY <1>1, <1>2, Whereabouts DEF OnTrack

LEMMA EnvironmentSends ==
  ASSUME TypeOK, Environment
  PROVE  \E h \in Threads, m \in Messages :
           /\ Start(h, m)
           /\ \A g \in Threads \ {h} : at'[g] = at[g]
           /\ \/ m.kind \in MessageKinds /\ UNCHANGED at
              \/ m.kind = "wrap" /\ WrapFilesChange
<1> DEFINE Goal == \E h \in Threads, m \in Messages :
                     /\ Start(h, m)
                     /\ \A g \in Threads \ {h} : at'[g] = at[g]
                     /\ \/ m.kind \in MessageKinds /\ UNCHANGED at
                        \/ m.kind = "wrap" /\ WrapFilesChange
<1>1. ASSUME NEW h \in Handlers, NEW m \in Messages, Receive(h, m) PROVE Goal
  BY <1>1 DEF Receive, Threads
<1>2. ASSUME NEW h \in Handlers, SendChange(h) PROVE Goal
  <2>1. PICK f \in Files, x \in Texts : Receive(h, Message("change", f, x))
    BY <1>2 DEF SendChange
  <2>2. Message("change", f, x) \in Messages
    BY DEF Message, Messages, Kinds, Contents
  <2> QED BY <1>1, <2>1, <2>2
<1>3. ASSUME NEW h \in Handlers, SendClose(h) PROVE Goal
  <2>1. PICK f \in Files : Receive(h, Message("close", f, NoText))
    BY <1>3 DEF SendClose
  <2>2. Message("close", f, NoText) \in Messages
    BY DEF Message, Messages, Kinds, Contents
  <2> QED BY <1>1, <2>1, <2>2
<1>4. ASSUME NEW h \in Handlers, SendQuery(h) PROVE Goal
  <2>1. PICK k \in QueryKinds \cup {"format"}, f \in Files :
          Receive(h, Message(k, f, client[f]))
    BY <1>4 DEF SendQuery
  <2>2. Message(k, f, client[f]) \in Messages
    BY DEF Message, Messages, Kinds, QueryKinds, TypeOK
  <2> QED BY <1>1, <2>1, <2>2
<1>5. ASSUME NEW h \in Handlers, SendConfiguration(h) PROVE Goal
  <2>1. PICK b \in BOOLEAN : Receive(h, [NoMessage EXCEPT !.kind = "config", !.ignore = b])
    BY <1>5 DEF SendConfiguration
  <2>2. [NoMessage EXCEPT !.kind = "config", !.ignore = b] \in Messages
    BY NoMessageType DEF Messages, Kinds
  <2> QED BY <1>1, <2>1, <2>2
<1>6. ASSUME NEW h \in Handlers, SendForeign(h) \/ SendInitialized(h) \/ SendShutdown(h)
      PROVE  Goal
  <2>1. /\ [NoMessage EXCEPT !.kind = "foreign"] \in Messages
        /\ [NoMessage EXCEPT !.kind = "initialized"] \in Messages
        /\ [NoMessage EXCEPT !.kind = "shutdown"] \in Messages
    BY NoMessageType DEF Messages, Kinds
  <2> QED BY <1>1, <1>6, <2>1 DEF SendForeign, SendInitialized, SendShutdown
<1>7. ASSUME NEW w \in Workspaces, WrapFileChanges(w) PROVE Goal
  <2>1. [NoMessage EXCEPT !.kind = "wrap"] \in Messages
    BY NoMessageType DEF Messages, Kinds
  <2>2. [NoMessage EXCEPT !.kind = "wrap"].kind = "wrap"
    BY DEF NoMessage
  <2> QED BY <1>7, <2>1, <2>2 DEF WrapFileChanges, TypeOK, Threads
<1> QED BY <1>2, <1>3, <1>4, <1>5, <1>6, <1>7 DEF Environment

LEMMA StartKeepsOwned ==
  ASSUME Known, Received, StaysOwned, Environment
  PROVE  Received' /\ StaysOwned'
<1>1. PICK h \in Threads, m \in Messages :
        /\ Start(h, m)
        /\ \A g \in Threads \ {h} : at'[g] = at[g]
        /\ \/ m.kind \in MessageKinds
           \/ m.kind = "wrap" /\ WrapFilesChange
  BY EnvironmentSends DEF Known
<1>2. /\ UNCHANGED <<ast, task>>
      /\ msg' = [msg EXCEPT ![h] = m]
      /\ pc' = [pc EXCEPT ![h] = Entry(m.kind)]
  BY <1>1 DEF Start
<1>3. m.kind \in Kinds
  BY DEF Messages
<1>4. Entry(m.kind) \notin {"writing", "reading"}
  BY <1>3 DEF Entry, Kinds, QueryKinds
<1>5. Received'
  BY <1>1, <1>2 DEF Known, TypeOK, Received
<1>6. StaysOwned'
  BY <1>1, <1>2, <1>4 DEF Known, TypeOK, StaysOwned, Owned, FilesIn, UpdateReads
<1> QED BY <1>5, <1>6

LEMMA UpdateKeepsOwned ==
  ASSUME Known, Received, StaysOwned, NEW w \in Workspaces, Update(w)
  PROVE  Received' /\ StaysOwned'
<1>1. Received'
  BY UpdateChanges DEF Received
<1>2. StaysOwned'
  <2> SUFFICES ASSUME NEW h \in Threads, pc'[h] \in {"writing", "reading"}
               PROVE  (msg[h].file \in Owned(at[h]) /\ ~UpdateReads(at[h]))'
    BY DEF StaysOwned
  <2>1. /\ msg' = msg /\ at' = at /\ at[h] \in Workspaces
        /\ msg[h].file \in Owned(at[h]) /\ ~UpdateReads(at[h])
    BY UpdateChanges DEF Known, TypeOK, StaysOwned
  <2>2. ~(UpdateReads(at[h])')
    BY <2>1, UpdateChanges DEF UpdateReads
  <2>3. ast'[msg[h].file] = ast[msg[h].file]
    BY <2>1, UpdateChanges DEF Owned, FilesIn
  <2> QED BY <2>1, <2>2, <2>3 DEF Owned, FilesIn
<1> QED BY <1>1, <1>2

-----------------------------------------------------------------------------
(***************************************************************************)
(* Steps of threads.                                                       *)
(***************************************************************************)
\* A thread handles its message to the end.
LEMMA StepKeepsMessage ==
  ASSUME TypeOK, NEW h \in Threads, Step(h)
  PROVE  msg'[h] = msg[h] \/ msg'[h] = NoMessage
BY DEF TypeOK, Step, AcquireSmph, ForeignChange, ReleaseSmph, Owns, AcquireWriting,
   PatchFile, AcquireReading, Read, ReadThrows, Answer, Format,
   EraseCachedContents, DropCache, UpdateOptions, ClearDiagnostics,
   PublishOld, Reparse, ReparseThrows, PublishNew, PublishNewThrows, Initialized,
   Shutdown, Finish, Continue

LEMMA StepReceived ==
  ASSUME TypeOK, Received, NEW h \in Threads, Step(h) PROVE Received'
<1>1. msg'[h] = msg[h] \/ msg'[h] = NoMessage
  BY StepKeepsMessage
<1> QED BY <1>1, StepMoves DEF OnlyMoves, Received, NoMessage

\* Whoever takes a file's workspace sees it owned, and no update is on.
LEMMA OwnsSees ==
  ASSUME Known, NEW h \in Threads, Owns(h)
  PROVE  ~UpdateReads(at[h])
BY DEF Known, TypeOK, SemaphoresInv, Owns, OneReads

LEMMA AsideKeepsOwned ==
  ASSUME Known, StaysOwned, NEW h \in Threads, Step(h), Aside(h)
  PROVE  StaysOwned'
<1>1. OnlyMoves(h) /\ UNCHANGED <<ast, task>>
  BY StepMoves DEF Known, Aside
<1>2. pc'[h] \in {"writing", "reading"} =>
        /\ msg'[h] = msg[h] /\ at'[h] = at[h]
        /\ msg[h].file \in Owned(at[h]) /\ ~UpdateReads(at[h])
  BY StepPlaced, OwnsSees DEF Known, StaysOwned, Placed
<1> QED
  BY <1>1, <1>2 DEF Known, StaysOwned, OnlyMoves, Owned, FilesIn, UpdateReads

LEMMA DropKeepsOwned ==
  ASSUME Known, StaysOwned, NEW h \in Threads, DropCache(h)
  PROVE  StaysOwned'
<1>1. OnlyMoves(h)
  BY StepMoves DEF Step, Known
<1>2. UNCHANGED <<ast, task>> /\ pc'[h] = "idle"
  BY DEF DropCache, Finish, Goto, Known, TypeOK
<1> QED BY <1>1, <1>2 DEF Known, StaysOwned, OnlyMoves, Owned, FilesIn, UpdateReads

\* The edit has smph: no other edit is under way.
LEMMA PatchKeepsOwned ==
  ASSUME Known, StaysOwned, NEW h \in Threads, PatchFile(h)
  PROVE  StaysOwned'
<1>1. OnlyMoves(h)
  BY StepMoves DEF Step, Known
<1>2. pc[h] = "reading" /\ pc'[h] = "unlock"
  BY DEF PatchFile, Goto, Known, TypeOK
<1>3. ASSUME NEW g \in Threads, pc[g] \in {"writing", "reading"} PROVE g = h
  <2>1. \A i \in Threads : pc[i] \in {"writing", "reading"} => i \in InSmph
    BY Whereabouts DEF Known, TypeOK, Messages, SemaphoresInv, OnTrack, InSmph
  <2> QED BY <1>2, <1>3, <2>1 DEF Known, SemaphoresInv, OneInSmph
<1> QED BY <1>1, <1>2, <1>3 DEF StaysOwned, OnlyMoves

\* The new trees have every file, and the updates stay where they are.
LEMMA ReparseKeepsOwned ==
  ASSUME FilesStay, Known, Received, StaysOwned, NEW h \in Threads, Reparse(h)
  PROVE  StaysOwned'
<1>1. OnlyMoves(h)
  BY StepMoves DEF Step, Known
<1>2. pc[h] = "reparse" /\ pc'[h] \notin {"writing", "reading"}
  BY DEF Reparse, Goto, Known, TypeOK
<1>3. \A f \in Files : FromDisk(f) # NoText
  BY <1>2, NobodyReparses DEF FilesStay, Known, SemaphoresInv
<1>4. \A f \in Files : ast[f] # NoText => ast'[f] # NoText
  BY <1>3 DEF Reparse
<1>5. \A w \in Workspaces : UpdateReads(w)' = UpdateReads(w)
  BY DEF Reparse, Known, TypeOK, Tasks, UpdateReads
<1>6. \A g \in Threads : msg[g].file \in Files /\ at[g] \in Workspaces
  BY DEF Known, TypeOK, Messages
<1> QED BY <1>1, <1>2, <1>4, <1>5, <1>6 DEF StaysOwned, OnlyMoves, Owned, FilesIn

-----------------------------------------------------------------------------
(***************************************************************************)
(* What the threads rely on holds at any time, and what they handle is     *)
(* known whether or not a reparse may take a file away.                    *)
(***************************************************************************)
LEMMA ReceivedInvariant == Spec => [](Known /\ Received)
<1>1. Init => Received
  BY DEF Init, Received, NoMessage
<1>2. Known /\ Received /\ [Next]_vars => Received'
  <2> SUFFICES ASSUME Known, Received, [Next]_vars PROVE Received'
    OBVIOUS
  <2>1. CASE UNCHANGED vars
    BY <2>1 DEF vars, Received
  <2>2. CASE Environment
    <3>1. PICK h \in Threads, m \in Messages :
            /\ Start(h, m)
            /\ \/ m.kind \in MessageKinds
               \/ m.kind = "wrap" /\ WrapFilesChange
      BY <2>2, EnvironmentSends DEF Known
    <3> QED BY <3>1 DEF Start, Known, TypeOK, Received
  <2>3. ASSUME NEW h \in Threads, Step(h) PROVE Received'
    BY <2>3, StepReceived DEF Known
  <2>4. ASSUME NEW w \in Workspaces, Update(w) PROVE Received'
    BY <2>4, UpdateChanges DEF Received
  <2> QED BY <2>1, <2>2, <2>3, <2>4 DEF Next, Rest
<1> QED BY <1>1, <1>2, ServiceInvariant, PTL DEF Spec, Known

LEMMA OwnedInvariant ==
  ASSUME FilesStay PROVE Spec => [](Known /\ Received /\ StaysOwned)
<1>1. Init => StaysOwned
  BY DEF Init, StaysOwned
<1>2. Known /\ Received /\ StaysOwned /\ [Next]_vars => StaysOwned'
  <2> SUFFICES ASSUME Known, Received, StaysOwned, [Next]_vars PROVE StaysOwned'
    OBVIOUS
  <2>1. CASE UNCHANGED vars
    BY <2>1 DEF vars, StaysOwned, Owned, FilesIn, UpdateReads
  <2>2. ASSUME NEW h \in Threads, Step(h) PROVE StaysOwned'
    BY <2>2, StepAside, AsideKeepsOwned, DropKeepsOwned, PatchKeepsOwned,
       ReparseKeepsOwned
  <2> QED BY <2>1, <2>2, StartKeepsOwned, UpdateKeepsOwned DEF Next, Rest
<1> QED BY <1>1, <1>2, ReceivedInvariant, PTL DEF Spec

(***************************************************************************)
(* Without reparses, what the other theorems rest on holds at any time.    *)
(***************************************************************************)
LEMMA NothingFreedKept ==
  ASSUME Undisturbed, Before, [Next]_vars PROVE NothingFreed'
<1>1. CASE Environment
  <2>1. UNCHANGED <<task, dangling>>
    BY <1>1, EnvironmentSends DEF Before, Known, Start
  <2> QED BY <2>1 DEF Before, TreesInv, NothingFreed
<1>2. ASSUME NEW h \in Threads, Step(h) PROVE NothingFreed'
  <2>1. ~Reparse(h)
    BY NobodyReparses DEF Before, Known, SemaphoresInv, TreesInv, Reparse
  <2>2. CASE Aside(h)
    BY <2>2 DEF Aside, Before, TreesInv, NothingFreed
  <2>3. CASE DropCache(h)
    BY <2>3 DEF DropCache, Before, TreesInv, NothingFreed
  <2>4. CASE PatchFile(h)
    BY <2>4
    DEF PatchFile, Patch, StartUpdate, Before, Known, TypeOK, TreesInv, NothingFreed
  <2> QED BY <1>2, <2>1, <2>2, <2>3, <2>4, StepAside
<1>3. ASSUME NEW w \in Workspaces, Update(w) PROVE NothingFreed'
  BY <1>3, UpdateChanges DEF Before, Known, TreesInv, NothingFreed
<1>4. CASE UNCHANGED vars
  BY <1>4 DEF vars, Before, TreesInv, NothingFreed
<1> QED BY <1>1, <1>2, <1>3, <1>4 DEF Next, Rest

THEOREM TreesInvariant == ASSUME Undisturbed PROVE Spec => []Before
<1>1. Init => NothingFreed
  <2>1. Init => \A w \in Workspaces : ~task[w].dangling
    BY DEF Init, NoTask
  <2> QED BY <2>1 DEF Init, NothingFreed
<1>2. Before /\ [Next]_vars => NothingFreed'
  BY NothingFreedKept
<1>3. FilesStay
  BY DEF FilesStay
<1>4. Spec => [](Known /\ Received /\ StaysOwned)
  BY <1>3, OwnedInvariant
<1> QED BY <1>1, <1>2, <1>4, PTL DEF Spec, Before, TreesInv

-----------------------------------------------------------------------------
(***************************************************************************)
(* Permits: who has smph, whatever happens, until an edit of a document    *)
(* that is no file takes it away.                                          *)
(***************************************************************************)
\* Whoever has smph keeps it until it releases it.
LEMMA StaysInSmph ==
  ASSUME Known, NEW h \in Threads, Step(h), ~ReleaseSmph(h), h \in InSmph
  PROVE  h \in InSmph'
<1>0. /\ msg[h].kind \in Kinds
      /\ msg[h].kind = "change" =>
           pc[h] \in {"owns", "writing", "reading", "unlock"}
      /\ msg[h].kind = "wrap" =>
           pc[h] \in {"clear", "publishOld", "reparse", "publishNew", "unlock", "dead"}
      /\ msg[h].kind \in {"change", "wrap"}
  BY Itineraries DEF Known, TypeOK, Messages, SemaphoresInv, OnTrack, InSmph
<1> USE <1>0 DEF InSmph, Known, TypeOK, Goto, Finish, QueryKinds
<1>1. CASE Owns(h)
  BY <1>1 DEF Owns, Continue
<1>2. CASE AcquireWriting(h) \/ PatchFile(h)
  BY <1>2 DEF AcquireWriting, PatchFile
<1>3. CASE ClearDiagnostics(h) \/ Reparse(h) \/ ReparseThrows(h)
  BY <1>3 DEF ClearDiagnostics, Reparse, ReparseThrows
<1>4. CASE PublishOld(h)
  <2>1. msg[h].kind = "wrap" /\ msg'[h] = msg[h]
    BY <1>4 DEF PublishOld
  <2>2. pc'[h] \in {"publishOld", "publishNew"}
    BY <1>4, <2>1 DEF PublishOld
  <2> QED BY <2>1, <2>2
<1>5. CASE PublishNew(h)
  <2>1. msg[h].kind = "wrap"
    BY <1>5 DEF PublishNew
  <2>2. pc'[h] \in {"publishNew", "unlock"} /\ msg'[h] = msg[h]
    BY <1>5, <2>1 DEF PublishNew
  <2> QED BY <2>1, <2>2
<1>6. CASE PublishNewThrows(h)
  BY <1>6 DEF PublishNewThrows
<1>7. ~(AcquireSmph(h) \/ ForeignChange(h) \/ AcquireReading(h) \/ Read(h) \/ ReadThrows(h) \/ Answer(h)
        \/ Format(h) \/ EraseCachedContents(h) \/ DropCache(h) \/ UpdateOptions(h)
        \/ Initialized(h) \/ Shutdown(h))
  BY DEF AcquireSmph, ForeignChange, AcquireReading, Read, ReadThrows, Answer, Format,
         EraseCachedContents, DropCache, UpdateOptions, Initialized, Shutdown
<1> QED BY <1>1, <1>2, <1>3, <1>4, <1>5, <1>6, <1>7 DEF Step

LEMMA SmphKept ==
  ASSUME Known, SmphInHands, [Next]_vars, \A h \in Threads : ~ForeignChange(h)
  PROVE  SmphInHands'
<1>1. CASE Environment
  <2>1. PICK h \in Threads, m \in Messages : Start(h, m)
    BY <1>1, EnvironmentStarts DEF Known
  <2>2. UNCHANGED smph /\ \A g \in Threads \ {h} : pc'[g] = pc[g] /\ msg'[g] = msg[g]
    BY <2>1 DEF Start, Known, TypeOK
  <2>3. h \notin InSmph
    BY <2>1 DEF Start, InSmph
  <2> QED BY <2>2, <2>3 DEF SmphInHands, InSmph
<1>2. ASSUME NEW h \in Threads, Step(h) PROVE SmphInHands'
  <2>1. CASE ReleaseSmph(h)
    BY <2>1 DEF ReleaseSmph, SmphInHands
  <2>2. CASE AcquireSmph(h)
    <3>1. /\ msg'[h] = msg[h] /\ pc'[h] \in {"owns", "clear"}
          /\ msg[h].kind = "change" <=> pc'[h] = "owns"
      BY <2>2 DEF AcquireSmph, Goto, Known, TypeOK
    <3>2. msg[h].kind \in {"change", "wrap"}
      BY <2>2, Whereabouts
      DEF AcquireSmph, Known, TypeOK, Messages, SemaphoresInv, OnTrack
    <3> QED BY <3>1, <3>2 DEF SmphInHands, InSmph
  <2>3. CASE ~ReleaseSmph(h) /\ ~AcquireSmph(h)
    <3>1. UNCHANGED smph
      BY <1>2, <2>3 DEF Step, Owns, AcquireWriting, PatchFile, AcquireReading, Read,
         ReadThrows, Answer, Format, EraseCachedContents, DropCache, UpdateOptions,
         ClearDiagnostics, PublishOld, Reparse, ReparseThrows, PublishNew,
         PublishNewThrows, Initialized, Shutdown
    <3>2. InSmph \subseteq InSmph'
      BY <1>2, <2>3, StaysInSmph, StepMoves DEF OnlyMoves, InSmph, Known
    <3> QED BY <3>1, <3>2 DEF SmphInHands
  <2> QED BY <2>1, <2>2, <2>3
<1>3. ASSUME NEW w \in Workspaces, Update(w) PROVE SmphInHands'
  BY <1>3 DEF Update, SmphInHands, InSmph
<1>4. CASE UNCHANGED vars
  BY <1>4 DEF vars, SmphInHands, InSmph
<1> QED BY <1>1, <1>2, <1>3, <1>4 DEF Next, Rest

\* Only files are edited: every didChange has the URI of one.
FilesEdited == "foreign" \notin MessageKinds

LEMMA SmphInvariant == ASSUME FilesEdited PROVE Spec => [](Known /\ SmphInHands)
<1>1. Init => SmphInHands
  BY DEF Init, SmphInHands
<1>2. ASSUME Received, NEW h \in Threads PROVE ~ForeignChange(h)
  BY <1>2 DEF ForeignChange, Received, FilesEdited
<1>3. Known /\ Received /\ SmphInHands /\ [Next]_vars => SmphInHands'
  BY <1>2, SmphKept
<1> QED BY <1>1, <1>3, ReceivedInvariant, PTL DEF Spec

-----------------------------------------------------------------------------
(***************************************************************************)
(* A step of thread h at which it keeps its roles in workspace w and takes *)
(* no permit of it.                                                        *)
(***************************************************************************)
KeepsHands(h, w) ==
  /\ reading'[w] = reading[w] /\ writing'[w] = writing[w]
  /\ task'[w].step = task[w].step
  /\ h \in Readers(w) => h \in Readers(w)'
  /\ h \in Patchers(w) => h \in Patchers(w)'

LEMMA StaysInHands ==
  ASSUME NEW w \in Workspaces, PermitsInHands(w), NEW h \in Threads, OnlyMoves(h),
         KeepsHands(h, w)
  PROVE  PermitsInHands(w)'
<1>1. Readers(w) \subseteq Readers(w)' /\ Patchers(w) \subseteq Patchers(w)'
  BY DEF OnlyMoves, KeepsHands, Readers, Patchers
<1>2. UpdateReads(w)' = UpdateReads(w) /\ UpdateWrites(w)' = UpdateWrites(w)
  BY DEF KeepsHands, UpdateReads, UpdateWrites
<1> QED
  BY <1>1, <1>2 DEF PermitsInHands, ReadingInHands, WritingInHands, KeepsHands

\* Most steps of a thread, and all it takes in other workspaces.
LEMMA QuietHands ==
  ASSUME Known, NEW w \in Workspaces, NEW h \in Threads, Step(h),
         \/ at[h] # w
         \/ ~(AcquireWriting(h) \/ PatchFile(h) \/ AcquireReading(h)
              \/ ReadThrows(h) \/ Answer(h))
  PROVE  KeepsHands(h, w)
<1> USE DEF KeepsHands, Readers, Patchers, Known, TypeOK, Goto, Finish
<1>0. at[h] \in Workspaces
  OBVIOUS
<1>1. CASE AcquireSmph(h) \/ ForeignChange(h) \/ ReleaseSmph(h)
  BY <1>1 DEF AcquireSmph, ForeignChange, ReleaseSmph
<1>2. CASE Owns(h)
  BY <1>2 DEF Owns, Continue
<1>3. CASE AcquireWriting(h) \/ AcquireReading(h)
  BY <1>0, <1>3 DEF AcquireWriting, AcquireReading
<1>4. CASE PatchFile(h)
  <2>1. at[h] # w
    BY <1>4
  <2>2. task'[w] = task[w]
    BY <1>0, <1>4, <2>1 DEF PatchFile, Patch, StartUpdate
  <2> QED BY <1>0, <1>4, <2>1, <2>2 DEF PatchFile
<1>5. CASE Read(h)
  BY <1>5 DEF Read
<1>6. CASE ReadThrows(h) \/ Answer(h)
  BY <1>0, <1>6 DEF ReadThrows, Answer
<1>7. CASE Format(h) \/ EraseCachedContents(h) \/ DropCache(h)
  BY <1>7 DEF Format, EraseCachedContents, DropCache
<1>8. CASE UpdateOptions(h) \/ ClearDiagnostics(h)
  BY <1>8 DEF UpdateOptions, ClearDiagnostics
<1>9. CASE PublishOld(h)
  BY <1>9 DEF PublishOld
<1>10. CASE Reparse(h)
  <2>1. task'[w].step = task[w].step
    BY <1>10 DEF Reparse, Tasks
  <2> QED BY <1>10, <2>1 DEF Reparse
<1>11. CASE ReparseThrows(h) \/ PublishNewThrows(h)
  BY <1>11 DEF ReparseThrows, PublishNewThrows
<1>12. CASE PublishNew(h)
  BY <1>12 DEF PublishNew, Continue
<1>13. CASE Initialized(h) \/ Shutdown(h)
  BY <1>13 DEF Initialized, Shutdown
<1> QED
  BY <1>1, <1>2, <1>3, <1>4, <1>5, <1>6, <1>7, <1>8, <1>9, <1>10, <1>11, <1>12,
     <1>13 DEF Step

\* Steps at which a thread takes or releases a permit of its workspace.
LEMMA TakingHands ==
  ASSUME Known, NEW v \in Workspaces, NEW h \in Threads, Step(h), at[h] = v,
         PermitsInHands(v), ~LosesPermits(v),
         \/ AcquireWriting(h) \/ PatchFile(h) \/ AcquireReading(h)
         \/ ReadThrows(h) \/ Answer(h)
  PROVE  PermitsInHands(v)'
<1>0. OnlyMoves(h)
  BY StepMoves DEF Known, TypeOK
<1>1. Readers(v) \ {h} \subseteq Readers(v)' /\ Patchers(v) \ {h} \subseteq Patchers(v)'
  <2>1. \A g \in Threads \ {h} : pc'[g] = pc[g] /\ at'[g] = at[g]
    BY <1>0 DEF OnlyMoves
  <2> QED BY <2>1 DEF Readers, Patchers
<1>2. CASE AcquireWriting(h)
  <2>1. h \in Patchers(v)' /\ h \notin Readers(v)
    BY <1>2 DEF AcquireWriting, Goto, Known, TypeOK, Readers, Patchers
  <2> QED
    BY <1>1, <1>2, <2>1
    DEF AcquireWriting, PermitsInHands, ReadingInHands, WritingInHands, UpdateReads,
        UpdateWrites
<1>3. CASE PatchFile(h)
  <2>1. msg[h].file \in Owned(v)
    BY <1>3 DEF LosesPermits
  <2>2. task'[v].step = "parse"
    BY <1>0, <1>3, <2>1 DEF PatchFile, Patch, StartUpdate, Known, TypeOK
  <2> QED
    BY <2>2
    DEF PermitsInHands, ReadingInHands, WritingInHands, UpdateReads, UpdateWrites
<1>4. CASE AcquireReading(h)
  <2>1. h \in Readers(v)' /\ h \notin Patchers(v)
    BY <1>4 DEF AcquireReading, Goto, Known, TypeOK, Readers, Patchers
  <2> QED
    BY <1>1, <1>4, <2>1
    DEF AcquireReading, PermitsInHands, ReadingInHands, WritingInHands, UpdateReads,
        UpdateWrites
<1>5. ~ReadThrows(h)
  BY DEF LosesPermits
<1>6. CASE Answer(h)
  <2>1. h \notin Patchers(v) /\ reading'[v] = 1
    BY <1>0, <1>6 DEF Answer, Known, TypeOK, Patchers
  <2> QED
    BY <1>1, <1>6, <2>1
    DEF Answer, PermitsInHands, ReadingInHands, WritingInHands, UpdateReads,
        UpdateWrites
<1> QED BY <1>2, <1>3, <1>4, <1>5, <1>6

LEMMA UpdateHands ==
  ASSUME Known, NEW w \in Workspaces, PermitsInHands(w), NEW v \in Workspaces,
         Update(v), ~LosesPermits(w)
  PROVE  PermitsInHands(w)'
<1>1. Readers(w)' = Readers(w) /\ Patchers(w)' = Patchers(w)
  BY UpdateChanges DEF Readers, Patchers
<1>2. CASE w # v
  BY <1>1, <1>2, UpdateChanges
  DEF PermitsInHands, ReadingInHands, WritingInHands, UpdateReads, UpdateWrites
<1>3. CASE w = v
  <2> USE DEF Known, TypeOK, Tasks, UpdateReads, UpdateWrites
  <2>0. /\ reading'[v] = 0 => reading[v] = 0 /\ (UpdateReads(v) => UpdateReads(v)')
        /\ writing'[v] = 0 => writing[v] = 0 /\ (UpdateWrites(v) => UpdateWrites(v)')
    <3>1. CASE ParseSucceeds(v)
      BY <3>1 DEF ParseSucceeds
    <3>2. CASE ParseThrows(v)
      BY <3>2 DEF ParseThrows
    <3>3. CASE ParseFreedTree(v)
      BY <3>3 DEF ParseFreedTree
    <3>4. CASE TaskPublishes(v)
      BY <3>4 DEF TaskPublishes
    <3>5. ~TaskPublishThrows(v)
      BY <1>3 DEF LosesPermits
    <3>6. CASE TaskReleasesReading(v)
      BY <3>6 DEF TaskReleasesReading
    <3>7. CASE TaskReleasesWriting(v)
      BY <3>7 DEF TaskReleasesWriting
    <3> QED BY <3>1, <3>2, <3>3, <3>4, <3>5, <3>6, <3>7 DEF Update, TaskStep
  <2> QED BY <1>1, <1>3, <2>0 DEF PermitsInHands, ReadingInHands, WritingInHands
<1> QED BY <1>2, <1>3

LEMMA NextHands ==
  ASSUME Known, NEW w \in Workspaces, PermitsInHands(w), [Next]_vars, ~LosesPermits(w)
  PROVE  PermitsInHands(w)'
<1>1. CASE UNCHANGED vars
  BY <1>1 DEF vars, PermitsInHands, ReadingInHands, WritingInHands, Readers,
              Patchers, UpdateReads, UpdateWrites
<1>2. CASE Environment
  <2>1. PICK h \in Threads, m \in Messages :
          Start(h, m) /\ \A g \in Threads \ {h} : at'[g] = at[g]
    BY <1>2, EnvironmentStarts DEF Known
  <2>2. OnlyMoves(h)
    BY <2>1 DEF Known, TypeOK, Start, OnlyMoves
  <2>3. KeepsHands(h, w)
    BY <2>1 DEF Start, KeepsHands, Readers, Patchers
  <2> QED BY <2>2, <2>3, StaysInHands
<1>3. ASSUME NEW h \in Threads, Step(h) PROVE PermitsInHands(w)'
  <2>1. OnlyMoves(h)
    BY <1>3, StepMoves DEF Known
  <2>2. CASE /\ at[h] = w
             /\ \/ AcquireWriting(h) \/ PatchFile(h) \/ AcquireReading(h)
                \/ ReadThrows(h) \/ Answer(h)
    BY <1>3, <2>2, TakingHands
  <2>3. KeepsHands(h, w) => PermitsInHands(w)'
    BY <2>1, StaysInHands
  <2> QED BY <1>3, <2>2, <2>3, QuietHands
<1> QED BY <1>1, <1>2, <1>3, UpdateHands DEF Next, Rest

LEMMA InitHands == Init => \A w \in Workspaces : PermitsInHands(w)
BY DEF Init, PermitsInHands, ReadingInHands, WritingInHands

(***************************************************************************)
(* A permit of a workspace is lost by the steps of LosesPermits and by no  *)
(* other, whatever is sent, reparsed or thrown, and those of the other     *)
(* workspaces are not lost by them; smph is lost by an edit of a document  *)
(* that is no file and by no other step.                                   *)
(***************************************************************************)
THEOREM PermitsNotLost == Spec => OnlyFaultsLosePermits
<1>1. Known /\ [Next]_vars =>
        [/\ SmphInHands => SmphInHands' \/ \E h \in Threads : ForeignChange(h)
         /\ \A w \in Workspaces :
              PermitsInHands(w) => PermitsInHands(w)' \/ LosesPermits(w)]_vars
  BY SmphKept, NextHands
<1> QED BY <1>1, ServiceInvariant, PTL DEF Spec, OnlyFaultsLosePermits

-----------------------------------------------------------------------------
(***************************************************************************)
(* Every permit comes back, if only files are edited, neither a query nor  *)
(* publishing diagnostics throws and no reparse takes a file away.         *)
(* Failures of the analysis itself, of an edit or of a reparse, are no     *)
(* exception to that.                                                      *)
(***************************************************************************)
Careful == ~QueryMayThrow /\ ~PublishMayThrow /\ FilesEdited

AllInHands == SmphInHands /\ \A w \in Workspaces : PermitsInHands(w)

LEMMA CarefulLosesNothing ==
  ASSUME Careful, Known, StaysOwned, NEW w \in Workspaces
  PROVE  ~LosesPermits(w)
<1>1. ASSUME NEW h \in Threads, at[h] = w, PatchFile(h) PROVE msg[h].file \in Owned(w)
  BY <1>1 DEF PatchFile, StaysOwned
<1>2. ~TaskPublishThrows(w)
  BY DEF TaskPublishThrows, PublishThrows, Careful
<1> QED BY <1>1, <1>2 DEF LosesPermits, ReadThrows, Careful

LEMMA PermitsInvariant ==
  ASSUME FilesStay, Careful PROVE Spec => [](Known /\ AllInHands)
<1>1. Known /\ StaysOwned /\ (\A w \in Workspaces : PermitsInHands(w)) /\ [Next]_vars
        => (\A w \in Workspaces : PermitsInHands(w))'
  BY NextHands, CarefulLosesNothing
<1>2. FilesEdited
  BY DEF Careful
<1> QED
  BY <1>1, <1>2, InitHands, SmphInvariant, OwnedInvariant, PTL DEF Spec, AllInHands

(***************************************************************************)
(* If only files are edited, no query and no publishing throws and no      *)
(* reparse takes a file away, every semaphore is free once all threads and *)
(* updates have ended.                                                     *)
(***************************************************************************)
THEOREM PermitsComeBack ==
  ASSUME FilesStay, Careful PROVE Spec => []PermitsReturned
<1>1. Known /\ AllInHands => PermitsReturned
  <2> SUFFICES ASSUME Known, AllInHands, AtRest
               PROVE  /\ smph = 1
                      /\ \A w \in Workspaces :
                           reading[w] = 1 /\ writing[w] = 1 /\ ~completing[w]
    BY DEF PermitsReturned
  <2>1. InSmph = {} /\ \A w \in Workspaces : Readers(w) = {} /\ Patchers(w) = {}
    BY DEF AtRest, InSmph, Readers, Patchers
  <2>2. \A w \in Workspaces : ~UpdateReads(w) /\ ~UpdateWrites(w)
    BY DEF AtRest, UpdateReads, UpdateWrites
  <2>3. smph = 1 /\ \A w \in Workspaces : reading[w] = 1 /\ writing[w] = 1
    BY <2>1, <2>2
    DEF Known, TypeOK, AllInHands, SmphInHands, PermitsInHands, ReadingInHands,
        WritingInHands
  <2> QED BY <2>3 DEF Known, SemaphoresInv, ReaderCompletes
<1> QED BY <1>1, PermitsInvariant, PTL

-----------------------------------------------------------------------------
(***************************************************************************)
(* A thread stands still where it waits for a semaphore that is taken, and *)
(* where an exception has ended the watcher.  Updates never wait.          *)
(***************************************************************************)
Waits(h) ==
  \/ pc[h] = "smph" /\ smph = 0
  \/ pc[h] = "writing" /\ writing[at[h]] = 0
  \/ pc[h] \in {"owns", "acquire", "reading"} /\ reading[at[h]] = 0
  \/ pc[h] = "dead"

SomebodyMoves ==
  AtRest \/ (\E w \in Workspaces : task[w].step # "none")
         \/ (\E h \in Threads : pc[h] # "idle" /\ ~Waits(h))

\* A thread that waits takes no step.
LEMMA WaitingStops ==
  ASSUME NEW h \in Threads, Waits(h) PROVE ~Step(h)
BY DEF Waits, Step, AcquireSmph, ForeignChange, ReleaseSmph, Owns, AcquireWriting, PatchFile,
       AcquireReading, Read, ReadThrows, Answer, Format, EraseCachedContents,
       DropCache, UpdateOptions, ClearDiagnostics, PublishOld, Reparse,
       ReparseThrows, PublishNew, PublishNewThrows, Initialized, Shutdown

\* The watcher does not die: wrap files stay, or nothing it calls throws.
WatcherLives == WrapFilesChange => ~ParseMayThrow /\ ~PublishMayThrow

NobodyDead == \A h \in Threads : pc[h] # "dead"

LEMMA AliveInvariant == ASSUME WatcherLives PROVE Spec => []NobodyDead
<1>1. Init => NobodyDead
  BY DEF Init, NobodyDead
<1>2. Known /\ Received /\ NobodyDead /\ [Next]_vars => NobodyDead'
  <2> SUFFICES ASSUME Known, Received, NobodyDead, [Next]_vars PROVE NobodyDead'
    OBVIOUS
  <2>1. CASE Environment
    <3>1. PICK h \in Threads, m \in Messages : Start(h, m)
      BY <2>1, EnvironmentStarts DEF Known
    <3>2. Entry(m.kind) # "dead"
      BY DEF Messages, Entry, Kinds, QueryKinds
    <3> QED BY <3>1, <3>2 DEF Start, Known, TypeOK, NobodyDead
  <2>2. ASSUME NEW h \in Threads, Step(h) PROVE NobodyDead'
    <3>1. pc'[h] = "dead" => msg[h].kind = "wrap" /\ (ReparseThrows(h) \/ PublishNewThrows(h))
      <4>0. /\ msg[h].kind \in Kinds /\ pc[h] # "dead"
            /\ pc[h] = "idle" \/ pc[h] \in Stages(msg[h].kind)
        BY DEF Known, TypeOK, Messages, SemaphoresInv, OnTrack, NobodyDead
      <4> USE <4>0 DEF Known, TypeOK, Finish, Goto
      <4>1. CASE Owns(h)
        BY <4>1 DEF Owns, Continue
      <4>2. CASE PublishOld(h)
        BY <4>2 DEF PublishOld
      <4>3. CASE PublishNew(h)
        <5>1. CASE out[h] # {}
          BY <4>3, <5>1 DEF PublishNew
        <5>2. CASE out[h] = {} /\ msg[h].kind = "config"
          BY <4>3, <5>2 DEF PublishNew, Continue
        <5>3. CASE out[h] = {} /\ msg[h].kind = "wrap"
          BY <4>3, <5>3 DEF PublishNew
        <5>4. CASE out[h] = {} /\ msg[h].kind \notin {"config", "wrap"}
          BY <4>3, <5>4 DEF PublishNew
        <5> QED BY <5>1, <5>2, <5>3, <5>4
      <4>4. CASE ReparseThrows(h) \/ PublishNewThrows(h)
        <5>1. CASE msg[h].kind = "wrap"
          BY <4>4, <5>1
        <5>2. CASE msg[h].kind # "wrap"
          <6>1. ReparseThrows(h) => msg[h].kind = "config"
            BY <5>2, Whereabouts DEF ReparseThrows
          <6>2. pc'[h] = "idle"
            BY <4>4, <5>2, <6>1 DEF ReparseThrows, PublishNewThrows
          <6> QED BY <6>2
        <5> QED BY <5>1, <5>2
      <4>5. CASE \/ AcquireSmph(h) \/ ForeignChange(h) \/ ReleaseSmph(h) \/ AcquireWriting(h)
                 \/ PatchFile(h) \/ AcquireReading(h) \/ Read(h) \/ ReadThrows(h)
                 \/ Answer(h)
        BY <4>5 DEF AcquireSmph, ForeignChange, ReleaseSmph, AcquireWriting, PatchFile,
                    AcquireReading, Read, ReadThrows, Answer
      <4>6. CASE \/ Format(h) \/ EraseCachedContents(h) \/ DropCache(h)
                 \/ UpdateOptions(h) \/ ClearDiagnostics(h) \/ Reparse(h)
                 \/ Initialized(h) \/ Shutdown(h)
        BY <4>6 DEF Format, EraseCachedContents, DropCache, UpdateOptions,
                    ClearDiagnostics, Reparse, Initialized, Shutdown
      <4> QED BY <2>2, <4>1, <4>2, <4>3, <4>4, <4>5, <4>6 DEF Step
    <3>2. msg[h].kind = "wrap" => WrapFilesChange
      BY LanguageServerAssumption DEF Received
    <3>3. pc'[h] # "dead"
      BY <3>1, <3>2 DEF WatcherLives, ReparseThrows, PublishNewThrows, PublishThrows
    <3> QED BY <2>2, <3>3, StepMoves DEF OnlyMoves, NobodyDead, Known
  <2>3. CASE UNCHANGED pc
    BY <2>3 DEF NobodyDead
  <2> QED BY <2>1, <2>2, <2>3 DEF Next, Rest, Update, vars
<1> QED BY <1>1, <1>2, ReceivedInvariant, PTL DEF Spec

(***************************************************************************)
(* No deadlock: the handlers never all wait for each other, however many   *)
(* there are, as long as no permit is lost and the watcher lives.  Who has *)
(* smph may wait for writing, who has writing for reading, and who has     *)
(* reading waits for nobody.                                               *)
(***************************************************************************)
THEOREM NoDeadlock ==
  ASSUME FilesStay, Careful, WatcherLives PROVE Spec => []SomebodyMoves
<1>1. ASSUME Known, AllInHands, NobodyDead PROVE SomebodyMoves
  <2> SUFFICES ASSUME \A w \in Workspaces : task[w].step = "none",
                      \A h \in Threads : pc[h] = "idle" \/ Waits(h)
               PROVE  AtRest
    BY DEF SomebodyMoves
  <2>1. \A w \in Workspaces : ~UpdateReads(w) /\ ~UpdateWrites(w)
    BY DEF UpdateReads, UpdateWrites
  <2>2. TypeOK /\ OnTrack /\ AllInHands
    BY <1>1 DEF Known, SemaphoresInv
  <2>3. \A h \in Threads :
          /\ pc[h] # "dead" /\ at[h] \in Workspaces /\ msg[h].kind \in Kinds
          /\ pc[h] = "idle" \/ pc[h] \in Stages(msg[h].kind)
    BY <1>1, <2>2 DEF TypeOK, Messages, OnTrack, NobodyDead
  <2>4. ASSUME NEW w \in Workspaces PROVE reading[w] # 0
    <3>1. Readers(w) = {}
      BY DEF Readers, Waits
    <3> QED BY <2>1, <2>2, <3>1 DEF AllInHands, PermitsInHands, ReadingInHands
  <2>5. ASSUME NEW w \in Workspaces PROVE writing[w] # 0
    <3>1. Patchers(w) = {}
      BY <2>4 DEF Patchers, Waits
    <3> QED BY <2>1, <2>2, <3>1 DEF AllInHands, PermitsInHands, WritingInHands
  <2>6. smph # 0
    <3>1. ASSUME NEW h \in InSmph PROVE FALSE
      <4>1. pc[h] \in {"owns", "writing", "reading", "unlock", "clear", "publishOld",
                        "reparse", "publishNew"}
        BY <2>3, Itineraries DEF InSmph
      <4>2. pc[h] \notin {"owns", "writing", "reading"}
        BY <2>3, <2>4, <2>5, <4>1 DEF InSmph, Waits
      <4> QED BY <4>1, <4>2 DEF InSmph, Waits
    <3>2. InSmph = {}
      BY <3>1
    <3> QED BY <2>2, <3>2 DEF AllInHands, SmphInHands
  <2> QED BY <2>3, <2>4, <2>5, <2>6 DEF AtRest, Waits
<1> QED BY <1>1, PermitsInvariant, AliveInvariant, PTL

-----------------------------------------------------------------------------
(***************************************************************************)
(* No handler goes on for ever.  What is ahead of a thread: the workspaces *)
(* its loop has not reached, then the points up to the end of its handler. *)
(* The watcher and didChangeConfiguration publish old diagnostics and      *)
(* parse anew in a different order.                                        *)
(***************************************************************************)
PointsAhead(l, k) ==
  CASE l \in {"dead", "unlock", "answer", "drop", "shutdown"} -> 1
    [] l \in {"reading", "read", "publishNew"} -> 2
    [] l \in {"writing", "acquire"} -> 3
    [] l = "reparse" -> IF k = "config" THEN 3 ELSE 4
    [] l = "publishOld" -> IF k = "config" THEN 4 ELSE 3
    [] l = "owns" -> 4
    [] l = "clear" -> 5
    [] l \in {"options", "greet", "format", "erase"} -> 6
    [] l = "smph" -> 7

ThreadWork(h) ==
  IF pc[h] = "idle" THEN 0
  ELSE 10 * (NumWorkspaces - at[h]) + PointsAhead(pc[h], msg[h].kind)

TaskWork(w) ==
  CASE task[w].step = "parse" -> 3
    [] task[w].step \in {"publish", "abort"} -> 2
    [] task[w].step \in {"writing", "abortReading"} -> 1
    [] task[w].step = "none" -> 0

\* A thread comes nearer to its end, or a list it works off gets shorter.
ThreadGetsOn(h) ==
  \/ ThreadWork(h)' < ThreadWork(h)
  \/ /\ ThreadWork(h)' = ThreadWork(h)
     /\ \/ \E f \in toClear[h] : toClear'[h] = toClear[h] \ {f} /\ out'[h] = out[h]
        \/ \E e \in out[h] : out'[h] = out[h] \ {e} /\ toClear'[h] = toClear[h]

TaskGetsOn(w) ==
  \/ TaskWork(w)' < TaskWork(w)
  \/ /\ TaskWork(w)' = TaskWork(w)
     /\ \E e \in task[w].out : task'[w].out = task[w].out \ {e}

TaskWorkSame(w) == TaskWork(w)' = TaskWork(w) /\ task'[w].out = task[w].out

\* Only a thread that leaves patchFile gives an update something to do.
CountsDown ==
  /\ \A h \in Threads :
       /\ ThreadWork(h) \in Nat
       /\ Step(h) =>
            /\ ThreadGetsOn(h)
            /\ \A g \in Threads \ {h} :
                 /\ ThreadWork(g)' = ThreadWork(g)
                 /\ toClear'[g] = toClear[g] /\ out'[g] = out[g]
            /\ \A w \in Workspaces :
                 \/ TaskWorkSame(w)
                 \/ pc[h] = "reading" /\ ThreadWork(h)' < ThreadWork(h)
  /\ \A w \in Workspaces :
       /\ TaskWork(w) \in Nat
       /\ Update(w) =>
            /\ TaskGetsOn(w) /\ UNCHANGED threadVars
            /\ \A v \in Workspaces \ {w} : task'[v] = task[v]

LEMMA ThreadWorkType ==
  ASSUME TypeOK, NEW h \in Threads PROVE ThreadWork(h) \in Nat
<1>1. NumWorkspaces \in Nat /\ at[h] \in 1 .. NumWorkspaces
  BY WorkspaceAssumption DEF TypeOK, Workspaces
<1>2. pc[h] # "idle" => PointsAhead(pc[h], msg[h].kind) \in Nat
  BY DEF TypeOK, Labels, PointsAhead
<1> QED BY <1>1, <1>2 DEF ThreadWork

LEMMA TaskWorkType ==
  ASSUME TypeOK, NEW w \in Workspaces PROVE TaskWork(w) \in Nat
BY DEF TypeOK, Tasks, TaskSteps, TaskWork

\* A step of thread h that moves it on: to a later point of the handler, to
\* the next workspace, or to the end.
LEMMA MovesOn ==
  ASSUME TypeOK, NEW h \in Threads, pc[h] # "idle",
         at'[h] = at[h] \/ (at[h] < NumWorkspaces /\ at'[h] = at[h] + 1),
         pc'[h] \in Labels \ {"idle"}, msg'[h] = msg[h],
         at'[h] = at[h] =>
           PointsAhead(pc'[h], msg[h].kind) < PointsAhead(pc[h], msg[h].kind)
  PROVE  ThreadWork(h)' < ThreadWork(h)
<1>1. NumWorkspaces \in Nat /\ at[h] \in 1 .. NumWorkspaces
  BY WorkspaceAssumption DEF TypeOK, Workspaces
<1>2. /\ PointsAhead(pc[h], msg[h].kind) \in 1 .. 7
      /\ PointsAhead(pc'[h], msg[h].kind) \in 1 .. 7
  BY DEF TypeOK, Labels, PointsAhead
<1> QED BY <1>1, <1>2 DEF ThreadWork

LEMMA EndsWork ==
  ASSUME TypeOK, NEW h \in Threads, pc[h] # "idle", pc'[h] = "idle"
  PROVE  ThreadWork(h)' < ThreadWork(h)
<1>1. NumWorkspaces \in Nat /\ at[h] \in 1 .. NumWorkspaces
  BY WorkspaceAssumption DEF TypeOK, Workspaces
<1>2. PointsAhead(pc[h], msg[h].kind) \in 1 .. 7
  BY DEF TypeOK, Labels, PointsAhead
<1> QED BY <1>1, <1>2 DEF ThreadWork

LEMMA StepGetsOn ==
  ASSUME TypeOK, OnTrack, NEW h \in Threads, Step(h) PROVE ThreadGetsOn(h)
<1> DEFINE k == msg[h].kind
           Falls == ThreadWork(h)' < ThreadWork(h)
<1>0. /\ k \in Kinds
      /\ pc[h] = "idle" \/ pc[h] \in Stages(k)
      /\ at[h] \in 1 .. NumWorkspaces /\ NumWorkspaces \in Nat
  BY WorkspaceAssumption DEF TypeOK, Messages, OnTrack, Workspaces
<1>1. Falls => ThreadGetsOn(h)
  BY DEF ThreadGetsOn
<1> USE DEF Goto, TypeOK
<1>2. CASE AcquireSmph(h)
  BY <1>0, <1>1, <1>2, MovesOn, Whereabouts DEF AcquireSmph, PointsAhead, Labels
<1>3. CASE \/ ForeignChange(h) \/ ReleaseSmph(h) \/ Answer(h) \/ ReadThrows(h)
           \/ DropCache(h) \/ Shutdown(h)
  BY <1>1, <1>3, EndsWork
  DEF ForeignChange, ReleaseSmph, Answer, ReadThrows, DropCache, Shutdown, Finish
<1>4. CASE Owns(h)
  <2>1. CASE pc'[h] = "idle"
    BY <1>1, <1>4, <2>1, EndsWork DEF Owns
  <2>2. CASE at'[h] = at[h] + 1 /\ at[h] < NumWorkspaces
    BY <1>0, <1>1, <1>4, <2>2, MovesOn DEF Owns, Continue, Labels
  <2>3. CASE pc'[h] # "idle" /\ at'[h] = at[h]
    BY <1>0, <1>1, <1>4, <2>3, MovesOn DEF Owns, Continue, Finish, PointsAhead, Labels
  <2> QED BY <1>0, <1>4, <2>1, <2>2, <2>3 DEF Owns, Continue, Finish
<1>5. CASE AcquireWriting(h) \/ PatchFile(h) \/ AcquireReading(h) \/ Read(h)
  BY <1>1, <1>5, MovesOn
  DEF AcquireWriting, PatchFile, AcquireReading, Read, PointsAhead, Labels
<1>6. CASE Format(h) \/ EraseCachedContents(h) \/ UpdateOptions(h) \/ Initialized(h)
  BY <1>1, <1>6, MovesOn
  DEF Format, EraseCachedContents, UpdateOptions, Initialized, PointsAhead, Labels
<1>7. CASE ClearDiagnostics(h) \/ Reparse(h)
  BY <1>1, <1>7, MovesOn DEF ClearDiagnostics, Reparse, PointsAhead, Labels
<1>8. CASE PublishOld(h)
  <2>1. CASE toClear[h] = {}
    BY <1>1, <1>8, <2>1, MovesOn DEF PublishOld, PointsAhead, Labels
  <2>2. CASE toClear[h] # {}
    BY <1>8, <2>2 DEF PublishOld, ThreadGetsOn, ThreadWork
  <2> QED BY <2>1, <2>2
<1>9. CASE ReparseThrows(h)
  BY <1>1, <1>9, MovesOn, EndsWork DEF ReparseThrows, Finish, PointsAhead, Labels
<1>10. CASE PublishNew(h)
  <2>1. CASE out[h] = {}
    <3>1. CASE pc'[h] = "idle"
      BY <1>1, <1>10, <3>1, EndsWork DEF PublishNew
    <3>2. CASE k = "config" /\ pc'[h] # "idle"
      BY <1>0, <1>1, <1>10, <2>1, <3>2, MovesOn DEF PublishNew, Continue, Finish, Labels
    <3>3. CASE k = "wrap"
      BY <1>1, <1>10, <2>1, <3>3, MovesOn DEF PublishNew, PointsAhead, Labels
    <3> QED BY <1>10, <2>1, <3>1, <3>2, <3>3 DEF PublishNew, Finish
  <2>2. CASE out[h] # {}
    BY <1>10, <2>2 DEF PublishNew, ThreadGetsOn, ThreadWork
  <2> QED BY <2>1, <2>2
<1>11. CASE PublishNewThrows(h)
  BY <1>1, <1>11, MovesOn, EndsWork DEF PublishNewThrows, Finish, PointsAhead, Labels
<1> QED
  BY <1>2, <1>3, <1>4, <1>5, <1>6, <1>7, <1>8, <1>9, <1>10, <1>11 DEF Step

\* What a step of thread h leaves to the other threads and to the updates.
LEMMA StepKeepsOthers ==
  ASSUME TypeOK, NEW h \in Threads, Step(h)
  PROVE  /\ \A g \in Threads \ {h} :
              /\ ThreadWork(g)' = ThreadWork(g)
              /\ toClear'[g] = toClear[g] /\ out'[g] = out[g]
         /\ \A w \in Workspaces : TaskWorkSame(w) \/ PatchFile(h)
<1>1. \A g \in Threads \ {h} : toClear'[g] = toClear[g] /\ out'[g] = out[g]
  BY DEF TypeOK, Step, AcquireSmph, ForeignChange, ReleaseSmph, Owns, AcquireWriting, PatchFile,
         AcquireReading, Read, ReadThrows, Answer, Format, EraseCachedContents,
         DropCache, UpdateOptions, ClearDiagnostics, PublishOld, Reparse,
         ReparseThrows, PublishNew, PublishNewThrows, Initialized, Shutdown
<1>2. \A g \in Threads \ {h} : ThreadWork(g)' = ThreadWork(g)
  BY StepMoves DEF OnlyMoves, ThreadWork
<1>3. ASSUME NEW w \in Workspaces, ~PatchFile(h) PROVE TaskWorkSame(w)
  <2>1. task'[w].step = task[w].step /\ task'[w].out = task[w].out
    <3>1. CASE Reparse(h)
      BY <3>1 DEF Reparse, TypeOK, Tasks
    <3>2. CASE ~Reparse(h)
      BY <1>3, <3>2
      DEF Step, AcquireSmph, ForeignChange, ReleaseSmph, Owns, AcquireWriting, AcquireReading, Read,
          ReadThrows, Answer, Format, EraseCachedContents, DropCache, UpdateOptions,
          ClearDiagnostics, PublishOld, ReparseThrows, PublishNew, PublishNewThrows,
          Initialized, Shutdown
    <3> QED BY <3>1, <3>2
  <2> QED BY <2>1 DEF TaskWorkSame, TaskWork
<1> QED BY <1>1, <1>2, <1>3

LEMMA UpdateGetsOn ==
  ASSUME TypeOK, NEW w \in Workspaces, Update(w) PROVE TaskGetsOn(w)
<1> USE DEF TypeOK, Tasks, TaskGetsOn, TaskWork
<1>1. CASE ParseSucceeds(w) \/ ParseThrows(w)
  BY <1>1 DEF ParseSucceeds, ParseThrows
<1>2. CASE ParseFreedTree(w)
  BY <1>2 DEF ParseFreedTree
<1>3. CASE TaskPublishes(w)
  BY <1>3 DEF TaskPublishes
<1>4. CASE TaskPublishThrows(w)
  BY <1>4 DEF TaskPublishThrows, NoTask
<1>5. CASE TaskReleasesReading(w) \/ TaskReleasesWriting(w)
  BY <1>5 DEF TaskReleasesReading, TaskReleasesWriting, NoTask
<1> QED BY <1>1, <1>2, <1>3, <1>4, <1>5 DEF Update, TaskStep

(***************************************************************************)
(* Every message is dealt with in so many steps, and so is the update that *)
(* an edit starts, whatever throws and whoever reparses: each step of a    *)
(* thread or an update comes nearer to its end or takes an entry off a     *)
(* list, and does not add to what the others have to do.  With NoDeadlock  *)
(* and fairness, which keeps the threads going, that is ServerSettles.     *)
(***************************************************************************)
THEOREM MessagesCountDown == Spec => [][CountsDown]_vars
<1>1. ASSUME Known PROVE CountsDown
  <2>1. TypeOK /\ OnTrack
    BY <1>1 DEF Known, SemaphoresInv
  <2>2. ASSUME NEW h \in Threads, PatchFile(h)
        PROVE  pc[h] = "reading" /\ ThreadWork(h)' < ThreadWork(h)
    BY <2>1, <2>2, MovesOn DEF PatchFile, Goto, TypeOK, PointsAhead, Labels
  <2>3. ASSUME NEW h \in Threads
        PROVE  /\ ThreadWork(h) \in Nat
               /\ Step(h) =>
                    /\ ThreadGetsOn(h)
                    /\ \A g \in Threads \ {h} :
                         /\ ThreadWork(g)' = ThreadWork(g)
                         /\ toClear'[g] = toClear[g] /\ out'[g] = out[g]
                    /\ \A w \in Workspaces :
                         \/ TaskWorkSame(w)
                         \/ pc[h] = "reading" /\ ThreadWork(h)' < ThreadWork(h)
    BY <2>1, <2>2, ThreadWorkType, StepGetsOn, StepKeepsOthers
  <2>4. ASSUME NEW w \in Workspaces
        PROVE  /\ TaskWork(w) \in Nat
               /\ Update(w) =>
                    /\ TaskGetsOn(w) /\ UNCHANGED threadVars
                    /\ \A v \in Workspaces \ {w} : task'[v] = task[v]
    BY <1>1, <2>1, TaskWorkType, UpdateGetsOn, UpdateChanges
  <2> QED BY <2>3, <2>4 DEF CountsDown
<1> QED BY <1>1, ServiceInvariant, PTL

-----------------------------------------------------------------------------
(***************************************************************************)
(* What the client shows.  Whoever publishes finishes the list, and the    *)
(* diagnostics of initialize have been published before anything else.     *)
(***************************************************************************)
PublishesAll == ~PublishMayThrow /\ "initialized" \notin MessageKinds

\* Where diagnostics may be missing: after an exception, or when ignored.
MayMiss == ParseMayThrow \/ IgnoreSubprojects

Due(f, d) == d = Diagnosis(ast[f]) \/ (MayMiss /\ d = NoText)

\* An update is going to publish something for f.
Upcoming(f) ==
  \E w \in Workspaces :
    \/ task[w].step = "parse" /\ f \in task[w].old
    \/ /\ task[w].step \in {"publish", "abort"}
       /\ \E e \in task[w].out : e.file = f

ParsesCleared(w) ==
  task[w].step = "parse" =>
    /\ task[w].old \subseteq FilesOf(task[w].tree)
    /\ \A f \in FilesOf(task[w].tree) : ast[f] = NoText

PublishesDue(w) ==
  task[w].step \in {"publish", "abort"} =>
    \A e \in task[w].out :
      e.file \in FilesOf(task[w].tree) /\ Due(e.file, e.diag)

ShownInv ==
  /\ \A f \in Files : Due(f, shown[f]) \/ Upcoming(f)
  /\ \A w \in Workspaces : ParsesCleared(w) /\ PublishesDue(w)

LEMMA ShownInit ==
  ASSUME PublishesAll, Init PROVE ShownInv
<1>1. \A f \in Files : Due(f, shown[f])
  <2> SUFFICES ASSUME NEW f \in Files PROVE Due(f, shown[f])
    OBVIOUS
  <2>1. shown[f] = IF \E e \in AtStart : e.file = f
                   THEN Diagnosis(FromDisk(f)) ELSE NoText
    BY DEF Init, PublishesAll
  <2>2. ast[f] = FromDisk(f)
    BY DEF Init
  <2>3. ASSUME ~MayMiss, Diagnosis(FromDisk(f)) # NoText
        PROVE  \E e \in AtStart : e.file = f
    <3>1. ~IgnoreSubprojects
      BY <2>3 DEF MayMiss
    <3>2. [file |-> f, diag |-> Diagnosis(FromDisk(f))] \in AtStart
      BY <2>3, <3>1 DEF AtStart, ReparseResult
    <3> QED BY <3>2
  <2> QED BY <2>1, <2>2, <2>3 DEF Due
<1>2. \A w \in Workspaces : task[w].step = "none"
  BY DEF Init, NoTask
<1> QED BY <1>1, <1>2 DEF ShownInv, ParsesCleared, PublishesDue

LEMMA ShownUnmoved ==
  ASSUME ShownInv, UNCHANGED <<ast, task, shown>> PROVE ShownInv'
BY DEF ShownInv, Due, Upcoming, ParsesCleared, PublishesDue

\* The edit finds its tree settled: no update of the workspace is under way.
LEMMA ShownPatch ==
  ASSUME Undisturbed, Before, ShownInv, NEW h \in Threads, PatchFile(h),
         NEW v, v = at[h], NEW f, f = msg[h].file
  PROVE  ShownInv'
<1> DEFINE t == TreeOf[f]
<1>1. v \in Workspaces /\ f \in Owned(v) /\ WorkspaceOf[t] = v /\ ~UpdateReads(v)
  BY DEF PatchFile, Before, Known, TypeOK, TreesInv, StaysOwned, Owned, FilesIn
<1>2. ~UpdateWrites(v)
  BY <1>1 DEF PatchFile, Before, Known, SemaphoresInv, OneWrites, Patchers
<1>3. /\ task' = [task EXCEPT ![v] = [step |-> "parse", tree |-> t,
              dangling |-> FALSE, old |-> Diagnosed(FilesOf(t)), out |-> {}]]
      /\ ast' = [g \in Files |-> IF TreeOf[g] = t THEN NoText ELSE ast[g]]
      /\ shown' = shown
  BY <1>1 DEF PatchFile, Patch, StartUpdate, Clear
<1>4. task \in [Workspaces -> Tasks]
  BY DEF Before, Known, TypeOK
<1>5. \A w \in Workspaces \ {v} : task'[w] = task[w] /\
        (task[w].step # "none" => task[w].tree # t)
  BY <1>1, <1>3, <1>4 DEF Before, Known, ServiceInv, TasksAtHome
<1>6. \A w \in Workspaces : (ParsesCleared(w) /\ PublishesDue(w))'
  <2>1. (ParsesCleared(v) /\ PublishesDue(v))'
    BY <1>1, <1>3, <1>4 DEF ParsesCleared, PublishesDue, FilesOf, Diagnosed
  <2>2. ASSUME NEW w \in Workspaces \ {v}
        PROVE  (ParsesCleared(w) /\ PublishesDue(w))'
    BY <1>3, <1>5, <2>2
    DEF ShownInv, ParsesCleared, PublishesDue, FilesOf, Due
  <2> QED BY <2>1, <2>2
<1>7. ASSUME NEW g \in Files PROVE (Due(g, shown[g]) \/ Upcoming(g))'
  <2>1. CASE TreeOf[g] # t
    <3>1. \A w \in Workspaces : task[w].step \in {"parse", "publish", "abort"} =>
            w # v
      BY <1>2 DEF UpdateWrites
    <3>2. Upcoming(g) => Upcoming(g)'
      BY <1>5, <3>1 DEF Upcoming
    <3> QED BY <1>3, <2>1, <3>2 DEF ShownInv, Due
  <2>2. CASE TreeOf[g] = t
    <3>1. ~Upcoming(g)
      <4> SUFFICES ASSUME NEW w \in Workspaces,
              \/ task[w].step = "parse" /\ g \in task[w].old
              \/ task[w].step \in {"publish", "abort"} /\ \E e \in task[w].out : e.file = g
                   PROVE  FALSE
        BY DEF Upcoming
      <4>1. task[w].tree = t
        BY <2>2 DEF ShownInv, ParsesCleared, PublishesDue, FilesOf
      <4>2. w = v
        BY <1>5, <4>1
      <4> QED BY <1>2, <4>2 DEF UpdateWrites
    <3>2. Due(g, shown[g])
      BY <3>1 DEF ShownInv
    <3>3. ast'[g] = NoText /\ Diagnosis(NoText) = NoText
      BY <1>3, <2>2 DEF Diagnosis
    <3>4. CASE shown[g] = NoText
      BY <1>3, <3>3, <3>4 DEF Due
    <3>5. CASE shown[g] # NoText
      <4>1. g \in Diagnosed(FilesOf(t))
        BY <2>2, <3>2, <3>5 DEF Due, Diagnosed, FilesOf
      <4>2. task'[v].step = "parse" /\ g \in task'[v].old
        BY <1>1, <1>3, <1>4, <4>1
      <4> QED BY <1>1, <4>2 DEF Upcoming
    <3> QED BY <3>4, <3>5
  <2> QED BY <2>1, <2>2
<1> QED BY <1>6, <1>7 DEF ShownInv

\* Only the thread of a reparse or of initialized publishes.
LEMMA StepNotShown ==
  ASSUME Undisturbed, PublishesAll, Before, NEW h \in Threads, Step(h)
  PROVE  shown' = shown
<1>1. /\ pc[h] \notin {"publishOld", "reparse"}
      /\ msg[h].kind \notin {"config", "wrap", "initialized"}
      /\ msg[h].kind \in Kinds
  <2>1. msg[h].kind # "initialized" /\ msg[h].kind \in Kinds
    BY DEF Before, Known, TypeOK, Messages, TreesInv, Received, PublishesAll
  <2> QED BY <2>1, NobodyReparses DEF Before, Known, SemaphoresInv, TreesInv
<1>2. pc[h] # "publishNew"
  BY <1>1 DEF Before, Known, SemaphoresInv, OnTrack, Stages, Kinds, QueryKinds
<1> QED
  BY <1>1, <1>2
  DEF Step, AcquireSmph, ForeignChange, ReleaseSmph, Owns, AcquireWriting, PatchFile,
      AcquireReading, Read, ReadThrows, Answer, Format, EraseCachedContents,
       DropCache, UpdateOptions, ClearDiagnostics, PublishOld, Reparse,
       ReparseThrows, PublishNew, PublishNewThrows, Initialized, Shutdown

\* Analysing the tree makes something due for every file it concerns.
LEMMA ShownParse ==
  ASSUME Before, ShownInv, NEW w \in Workspaces, NEW t, t = task[w].tree,
         Update(w), ParseSucceeds(w) \/ ParseThrows(w)
  PROVE  ShownInv'
<1>1. /\ task \in [Workspaces -> Tasks] /\ task[w].step = "parse" /\ shown' = shown
      /\ \A v \in Workspaces \ {w} : task'[v] = task[v]
      /\ task'[w].step \in {"publish", "abort"} /\ task'[w].tree = t
  BY DEF Before, Known, TypeOK, ParseSucceeds, ParseThrows, Tasks
<1>2. \A g \in Files : TreeOf[g] # t => ast'[g] = ast[g]
  BY ParsedElsewhere DEF ParseSucceeds, ParseThrows
<1>3. WorkspaceOf[t] = w
  BY <1>1 DEF Before, Known, ServiceInv, TasksAtHome
<1>4. /\ task[w].old \subseteq FilesOf(t)
      /\ \A f \in FilesOf(t) : ast[f] = NoText
  BY <1>1 DEF ShownInv, ParsesCleared
<1>5. \A e \in task'[w].out : e.file \in FilesOf(t) /\ Due(e.file, e.diag)'
  <2>1. CASE ParseSucceeds(w)
    BY <1>1, <1>4, <2>1
    DEF ParseSucceeds, UpdateResult, Due, FilesOf, Tasks
  <2>2. CASE ParseThrows(w)
    BY <1>1, <1>4, <2>2 DEF ParseThrows, Clearings, Due, MayMiss, FilesOf, Tasks
  <2> QED BY <2>1, <2>2
<1>6. \A v \in Workspaces : (ParsesCleared(v) /\ PublishesDue(v))'
  <2>1. (ParsesCleared(w) /\ PublishesDue(w))'
    BY <1>1, <1>5 DEF ParsesCleared, PublishesDue, FilesOf
  <2>2. ASSUME NEW v \in Workspaces \ {w} PROVE (ParsesCleared(v) /\ PublishesDue(v))'
    <3>1. task[v].step # "none" => task[v].tree # t
      BY <1>3 DEF Before, Known, ServiceInv, TasksAtHome
    <3> QED
      BY <1>1, <1>2, <2>2, <3>1 DEF ShownInv, ParsesCleared, PublishesDue, FilesOf, Due
  <2> QED BY <2>1, <2>2
<1>7. ASSUME NEW g \in Files PROVE (Due(g, shown[g]) \/ Upcoming(g))'
  <2>1. g \in task[w].old => Upcoming(g)'
    <3> SUFFICES ASSUME g \in task[w].old PROVE \E e \in task'[w].out : e.file = g
      BY <1>1 DEF Upcoming
    <3>1. CASE ParseSucceeds(w)
      <4>1. [file |-> g, diag |-> Diagnosis(ast'[g])] \in task'[w].out
        BY <1>1, <3>1 DEF ParseSucceeds, UpdateResult, Tasks
      <4> QED BY <4>1
    <3>2. CASE ParseThrows(w)
      <4>1. [file |-> g, diag |-> NoText] \in task'[w].out
        BY <1>1, <3>2 DEF ParseThrows, Clearings, Tasks
      <4> QED BY <4>1
    <3> QED BY <3>1, <3>2
  <2>2. Upcoming(g) => Upcoming(g)'
    BY <1>1, <2>1 DEF Upcoming
  <2>3. CASE TreeOf[g] # t
    BY <1>1, <1>2, <2>2, <2>3 DEF ShownInv, Due
  <2>4. CASE TreeOf[g] = t /\ Due(g, shown[g])
    <3>1. shown[g] = NoText
      BY <1>4, <2>4 DEF Due, Diagnosis, FilesOf
    <3>2. CASE MayMiss
      BY <1>1, <3>1, <3>2 DEF Due
    <3>3. CASE ~MayMiss
      <4>1. ParseSucceeds(w)
        BY <3>3 DEF ParseThrows, MayMiss
      <4>2. CASE Diagnosis(ast'[g]) = NoText
        BY <1>1, <3>1, <4>2 DEF Due
      <4>3. CASE Diagnosis(ast'[g]) # NoText
        <5>1. [file |-> g, diag |-> Diagnosis(ast'[g])] \in task'[w].out
          BY <1>1, <2>4, <4>1, <4>3 DEF ParseSucceeds, UpdateResult, Tasks, FilesOf
        <5> QED BY <1>1, <5>1 DEF Upcoming
      <4> QED BY <4>2, <4>3
    <3> QED BY <3>2, <3>3
  <2> QED BY <2>2, <2>3, <2>4 DEF ShownInv
<1> QED BY <1>6, <1>7 DEF ShownInv

LEMMA ShownUpdate ==
  ASSUME Undisturbed, PublishesAll, Before, ShownInv, NEW w \in Workspaces, Update(w)
  PROVE  ShownInv'
<1>0. task \in [Workspaces -> Tasks] /\ ~task[w].dangling /\ shown \in [Files -> Contents]
  BY DEF Before, Known, TypeOK, TreesInv, NothingFreed
<1>1. CASE ParseSucceeds(w) \/ ParseThrows(w)
  <2>1. PICK t : t = task[w].tree
    OBVIOUS
  <2> QED BY <1>1, <2>1, ShownParse
<1>2. CASE TaskPublishes(w)
  <2>1. PICK e \in task[w].out : Publish(e) /\ task' = [task EXCEPT ![w].out = @ \ {e}]
    BY <1>2 DEF TaskPublishes
  <2>2. /\ task'[w].step = task[w].step /\ task'[w].tree = task[w].tree
        /\ task'[w].out = task[w].out \ {e} /\ task[w].step \in {"publish", "abort"}
        /\ \A v \in Workspaces \ {w} : task'[v] = task[v]
        /\ ast' = ast /\ shown' = [shown EXCEPT ![e.file] = e.diag]
    <3>1. /\ task'[w] = [task[w] EXCEPT !.out = task[w].out \ {e}]
          /\ \A v \in Workspaces \ {w} : task'[v] = task[v]
      BY <1>0, <2>1
    <3>2. task'[w].step = task[w].step /\ task'[w].tree = task[w].tree
      BY <1>0, <3>1 DEF Tasks
    <3>3. task'[w].out = task[w].out \ {e}
      BY <1>0, <3>1 DEF Tasks
    <3> QED BY <1>2, <2>1, <3>1, <3>2, <3>3 DEF TaskPublishes, Publish
  <2>3. Due(e.file, e.diag) /\ e.file \in Files
    BY <2>1, <2>2 DEF ShownInv, PublishesDue, FilesOf
  <2>4. \A v \in Workspaces : (ParsesCleared(v) /\ PublishesDue(v))'
    BY <2>2 DEF ShownInv, ParsesCleared, PublishesDue, Due
  <2>5. ASSUME NEW g \in Files PROVE (Due(g, shown[g]) \/ Upcoming(g))'
    <3>1. CASE g = e.file
      BY <1>0, <2>2, <2>3, <3>1 DEF Due
    <3>2. CASE g # e.file
      <4>1. Upcoming(g) => Upcoming(g)'
        BY <2>2, <3>2 DEF Upcoming
      <4> QED BY <1>0, <2>2, <2>3, <3>2, <4>1 DEF ShownInv, Due
    <3> QED BY <3>1, <3>2
  <2> QED BY <2>4, <2>5 DEF ShownInv
<1>3. ~TaskPublishThrows(w) /\ ~ParseFreedTree(w)
  BY <1>0 DEF TaskPublishThrows, PublishThrows, PublishesAll, ParseFreedTree
<1>4. CASE TaskReleasesReading(w) \/ TaskReleasesWriting(w)
  <2>1. /\ ast' = ast /\ shown' = shown
        /\ \A v \in Workspaces \ {w} : task'[v] = task[v]
        /\ task'[w].step \in {"none", "writing", "abortReading"}
        /\ task[w].step \in {"publish", "abort"} => task[w].out = {}
        /\ task[w].step # "parse"
    BY <1>0, <1>4 DEF TaskReleasesReading, TaskReleasesWriting, NoTask, Tasks
  <2>2. \A v \in Workspaces : (ParsesCleared(v) /\ PublishesDue(v))'
    BY <2>1 DEF ShownInv, ParsesCleared, PublishesDue, Due
  <2>3. ASSUME NEW g \in Files PROVE (Due(g, shown[g]) \/ Upcoming(g))'
    <3>1. Upcoming(g) => Upcoming(g)'
      BY <2>1 DEF Upcoming
    <3> QED BY <2>1, <3>1 DEF ShownInv, Due
  <2> QED BY <2>2, <2>3 DEF ShownInv
<1> QED BY <1>1, <1>2, <1>3, <1>4 DEF Update, TaskStep

LEMMA ShownInvariant ==
  ASSUME Undisturbed, PublishesAll PROVE Spec => []ShownInv
<1>1. Before /\ ShownInv /\ [Next]_vars => ShownInv'
  <2> SUFFICES ASSUME Before, ShownInv, [Next]_vars PROVE ShownInv'
    OBVIOUS
  <2>1. CASE Environment
    <3>1. UNCHANGED <<ast, task, shown>>
      BY <2>1, EnvironmentStarts DEF Start, Before, Known
    <3> QED BY <3>1, ShownUnmoved
  <2>2. CASE UNCHANGED vars
    BY <2>2, ShownUnmoved DEF vars
  <2>3. ASSUME NEW h \in Threads, Step(h) PROVE ShownInv'
    <3>1. CASE PatchFile(h)
      <4>1. PICK v, f : v = at[h] /\ f = msg[h].file
        OBVIOUS
      <4> QED BY <3>1, <4>1, ShownPatch
    <3>2. ~Reparse(h)
      BY NobodyReparses DEF Before, Known, SemaphoresInv, TreesInv, Reparse
    <3>3. CASE DropCache(h) \/ Aside(h)
      <4>1. UNCHANGED <<ast, task, shown>>
        BY <2>3, <3>3, StepNotShown DEF DropCache, Aside
      <4> QED BY <4>1, ShownUnmoved
    <3> QED BY <2>3, <3>1, <3>2, <3>3, StepAside
  <2> QED BY <2>1, <2>2, <2>3, ShownUpdate DEF Next, Rest
<1> QED BY <1>1, ShownInit, TreesInvariant, PTL DEF Spec

(***************************************************************************)
(* Without reparses and what initialize left to publish, and when nothing  *)
(* throws while publishing, the client is never left with diagnostics that *)
(* do not come from the present tree: also when the analysis threw or the  *)
(* file left the analysis, for any number of files, edits and threads.     *)
(***************************************************************************)
THEOREM NothingStale ==
  ASSUME Undisturbed, PublishesAll PROVE Spec => []NoStaleDiagnostics
<1>1. ShownInv => NoStaleDiagnostics
  BY DEF ShownInv, Due, Upcoming, Diagnosis, NoStaleDiagnostics, AtRest
<1> QED BY <1>1, ShownInvariant, PTL

(***************************************************************************)
(* If no analysis throws either and no subproject is ignored, the client   *)
(* shows all diagnostics of the present trees once the server has settled. *)
(***************************************************************************)
THEOREM NothingMissing ==
  ASSUME Undisturbed, PublishesAll, ~MayMiss PROVE Spec => []DiagnosticsCurrent
<1>1. ShownInv => DiagnosticsCurrent
  BY DEF ShownInv, Due, Upcoming, DiagnosticsCurrent, AtRest
<1> QED BY <1>1, ShownInvariant, PTL

-----------------------------------------------------------------------------
(***************************************************************************)
(* No edit is only cached.  This is about files that are never closed (a   *)
(* late didClose may drop the override of a newer edit) and that nothing   *)
(* takes out of the analysis, neither an edit (the meson.build of a tree   *)
(* always stays) nor an analysis that fails before it comes to them.       *)
(***************************************************************************)
NeverClosed == "close" \notin MessageKinds

AnalysesSucceed == ~ParseMayThrow

AlwaysAnalysed == {f \in Files : \A x \in Texts : f \in Covers[TreeOf[f]][x]}

Home(f) == WorkspaceOf[TreeOf[f]]

\* The loop over workspaces begins at the first.
StartAtFirst == \A h \in Threads : pc[h] \in {"idle", "smph"} => at[h] = 1

\* An edit under way is the last one that was cached.
EditsCached ==
  \A h \in Threads :
    msg[h].kind = "change" /\ pc[h] \in {"owns", "writing", "reading"} =>
      cachedContents[msg[h].file] = msg[h].text

\* Only an update takes a tree away, for as long as it analyses it.
ParsedUnlessUpdated ==
  \A f \in AlwaysAnalysed :
    ast[f] = NoText => task[Home(f)].step = "parse" /\ task[Home(f)].tree = TreeOf[f]

\* An edit of f is on its way and cannot miss the workspace of f.
OnItsWay(h, f) ==
  /\ msg[h].kind = "change" /\ msg[h].file = f
  /\ pc[h] \in {"writing", "reading"} \/ (pc[h] = "owns" /\ at[h] <= Home(f))

CachedOrOnItsWay ==
  \A f \in AlwaysAnalysed :
    cachedContents[f] # NoText =>
      overrides[f] = cachedContents[f] \/ \E h \in Threads : OnItsWay(h, f)

\* The formatter's copy of f, the analyser's and the tree agree.
CachedAnalysed(f) ==
  cachedContents[f] # NoText =>
    overrides[f] = cachedContents[f] /\ ast[f] = cachedContents[f]

CacheInv ==
  StartAtFirst /\ EditsCached /\ ParsedUnlessUpdated /\ CachedOrOnItsWay

LEMMA HomeType ==
  ASSUME NEW f \in Files
  PROVE  TreeOf[f] \in Trees /\ Home(f) \in Workspaces /\ 1 <= Home(f)
BY WorkspaceAssumption DEF Home, Workspaces

LEMMA StartKeepsCache ==
  ASSUME Undisturbed, Before, CacheInv, Environment PROVE CacheInv'
<1>1. PICK h \in Threads, m \in Messages :
        Start(h, m) /\ m.kind \in MessageKinds /\ UNCHANGED at
  BY EnvironmentSends DEF Before, Known, Undisturbed
<1>2. /\ UNCHANGED <<ast, overrides, task, cachedContents, at>> /\ pc[h] = "idle"
      /\ msg' = [msg EXCEPT ![h] = m] /\ pc' = [pc EXCEPT ![h] = Entry(m.kind)]
  BY <1>1 DEF Start
<1>3. /\ Entry(m.kind) \notin {"writing", "reading"}
      /\ m.kind = "change" => Entry(m.kind) = "smph"
  BY DEF Messages, Entry, Kinds, QueryKinds
<1>4. StartAtFirst'
  BY <1>2 DEF Before, Known, TypeOK, CacheInv, StartAtFirst
<1>5. EditsCached'
  BY <1>2, <1>3 DEF Before, Known, TypeOK, CacheInv, EditsCached
<1>6. ParsedUnlessUpdated'
  BY <1>2 DEF CacheInv, ParsedUnlessUpdated
<1>7. CachedOrOnItsWay'
  <2>1. ASSUME NEW g \in Threads, NEW f, OnItsWay(g, f) PROVE OnItsWay(g, f)'
    <3>1. g # h
      BY <1>2, <2>1 DEF OnItsWay
    <3> QED BY <1>2, <2>1, <3>1 DEF OnItsWay
  <2> QED BY <1>2, <2>1 DEF CacheInv, CachedOrOnItsWay
<1> QED BY <1>4, <1>5, <1>6, <1>7 DEF CacheInv

LEMMA UpdateKeepsCache ==
  ASSUME Undisturbed, NeverClosed, AnalysesSucceed, Before, CacheInv,
         NEW w \in Workspaces, Update(w)
  PROVE  CacheInv'
<1>0. UNCHANGED <<overrides, threadVars, cachedContents>>
  BY UpdateChanges DEF Before, Update
<1>1. StartAtFirst' /\ EditsCached'
  BY <1>0 DEF CacheInv, StartAtFirst, EditsCached
<1>2. CachedOrOnItsWay'
  BY <1>0 DEF CacheInv, CachedOrOnItsWay, OnItsWay
<1>3. ParsedUnlessUpdated'
  <2> SUFFICES ASSUME NEW f \in AlwaysAnalysed, ast'[f] = NoText
               PROVE  task'[Home(f)].step = "parse" /\ task'[Home(f)].tree = TreeOf[f]
    BY DEF ParsedUnlessUpdated
  <2>0. /\ f \in Files /\ TreeOf[f] \in Trees /\ Home(f) \in Workspaces
        /\ task \in [Workspaces -> Tasks]
    BY HomeType DEF AlwaysAnalysed, Before, Known, TypeOK
  <2>1. CASE ParseSucceeds(w)
    <3>1. TreeOf[f] # task[w].tree
      <4> SUFFICES ASSUME TreeOf[f] = task[w].tree PROVE FALSE
        OBVIOUS
      <4>1. /\ MainFile[TreeOf[f]] \in Files
            /\ Effective(overrides, MainFile[TreeOf[f]]) \in Texts
            /\ Effective(overrides, f) \in Texts
        <5>1. overrides \in [Files -> Contents] /\ MainFile[TreeOf[f]] \in Files
          BY <2>0, WorkspaceAssumption DEF Before, Known, TypeOK
        <5> QED BY <2>0, <5>1, EffectiveType
      <4>2. f \in Visited(overrides, task[w].tree)
        BY <4>1 DEF Visited, AlwaysAnalysed
      <4>3. ast'[f] = Effective(overrides, f)
        BY <2>0, <2>1, <4>2 DEF ParseSucceeds, Parsed
      <4> QED BY <4>1, <4>3, WorkspaceAssumption
    <3>2. ast[f] = NoText
      BY <2>0, <2>1, <3>1 DEF ParseSucceeds, Parsed
    <3>3. task[Home(f)].step = "parse" /\ task[Home(f)].tree = TreeOf[f]
      BY <3>2 DEF CacheInv, ParsedUnlessUpdated
    <3>4. Home(f) # w
      BY <3>1, <3>3
    <3> QED BY <2>0, <3>3, <3>4, UpdateChanges DEF Before
  <2>2. ~ParseThrows(w) /\ ~ParseFreedTree(w)
    BY DEF ParseThrows, ParseFreedTree, AnalysesSucceed, Before, TreesInv, NothingFreed
  <2>3. CASE \/ TaskPublishes(w) \/ TaskPublishThrows(w)
             \/ TaskReleasesReading(w) \/ TaskReleasesWriting(w)
    <3>1. ast' = ast /\ task[w].step # "parse"
      BY <2>3 DEF TaskPublishes, TaskPublishThrows, TaskReleasesReading,
                  TaskReleasesWriting
    <3>2. task[Home(f)].step = "parse" /\ task[Home(f)].tree = TreeOf[f]
      BY <3>1 DEF CacheInv, ParsedUnlessUpdated
    <3> QED BY <2>0, <3>1, <3>2, UpdateChanges DEF Before
  <2> QED BY <2>1, <2>2, <2>3 DEF Update, TaskStep
<1> QED BY <1>1, <1>2, <1>3 DEF CacheInv

\* Whoever stops, stops at the first workspace.
LEMMA StopsAtFirst ==
  ASSUME TypeOK, NEW h \in Threads, Step(h), pc'[h] \in {"idle", "smph"}
  PROVE  pc'[h] = "idle" /\ at'[h] = 1
BY DEF TypeOK, Step, AcquireSmph, ForeignChange, ReleaseSmph, Owns, AcquireWriting,
   PatchFile, AcquireReading, Read, ReadThrows, Answer, Format,
   EraseCachedContents, DropCache, UpdateOptions, ClearDiagnostics,
   PublishOld, Reparse, ReparseThrows, PublishNew, PublishNewThrows, Initialized,
   Shutdown, Finish, Continue, Goto

LEMMA StepStartsAtFirst ==
  ASSUME TypeOK, StartAtFirst, NEW h \in Threads, Step(h) PROVE StartAtFirst'
BY StepMoves, StopsAtFirst DEF StartAtFirst, OnlyMoves

\* Who is in smph, and that nobody else edits.
LEMMA EditsInSmph ==
  ASSUME Before, NEW h \in Threads, msg[h].kind = "change",
         pc[h] \in {"owns", "writing", "reading"}
  PROVE  h \in InSmph /\ smph = 0 /\ \A g \in InSmph : g = h
BY DEF Before, Known, SemaphoresInv, OneInSmph, InSmph

\* The steps of a thread that does not edit.
LEMMA OthersKeepCache ==
  ASSUME Undisturbed, NeverClosed, AnalysesSucceed, Before, CacheInv,
         NEW h \in Threads, Step(h), msg[h].kind # "change"
  PROVE  CacheInv'
<1>0. OnlyMoves(h) /\ StartAtFirst' /\ msg[h].kind \in Kinds
  BY StepMoves, StepStartsAtFirst DEF Before, Known, TypeOK, Messages, CacheInv
<1>1. /\ msg[h].kind \notin {"close", "config", "wrap"}
      /\ pc[h] = "idle" \/ pc[h] \in Stages(msg[h].kind)
  BY NobodyReparses
  DEF NeverClosed, Before, Known, SemaphoresInv, OnTrack, TreesInv, Received
<1>2. /\ pc[h] \notin {"writing", "reading", "erase", "drop", "reparse"}
      /\ UNCHANGED cachedContents /\ msg'[h].kind # "change"
  <2>1. /\ pc[h] \notin {"writing", "reading", "erase", "drop", "reparse"}
        /\ pc[h] = "smph" => msg[h].kind = "foreign"
    BY <1>0, <1>1, Whereabouts
  <2>2. UNCHANGED cachedContents
    BY <2>1
    DEF Step, AcquireSmph, ForeignChange, ReleaseSmph, Owns, AcquireWriting, PatchFile,
        AcquireReading, Read, ReadThrows, Answer, Format, EraseCachedContents,
        DropCache, UpdateOptions, ClearDiagnostics, PublishOld, Reparse,
        ReparseThrows, PublishNew, PublishNewThrows, Initialized, Shutdown
  <2>3. msg'[h] = msg[h] \/ msg'[h] = NoMessage
    BY StepKeepsMessage DEF Before, Known
  <2> QED BY <2>1, <2>2, <2>3 DEF NoMessage
<1>3. UNCHANGED <<ast, overrides, task>>
  BY <1>2, StepAside DEF PatchFile, DropCache, Reparse, Aside
<1>4. EditsCached'
  BY <1>0, <1>2 DEF CacheInv, EditsCached, OnlyMoves
<1>5. ParsedUnlessUpdated'
  BY <1>3 DEF CacheInv, ParsedUnlessUpdated
<1>6. CachedOrOnItsWay'
  <2>1. ASSUME NEW g \in Threads, NEW f, OnItsWay(g, f) PROVE OnItsWay(g, f)'
    <3>1. g # h
      BY <2>1 DEF OnItsWay
    <3> QED BY <1>0, <2>1, <3>1 DEF OnItsWay, OnlyMoves
  <2> QED BY <1>2, <1>3, <2>1 DEF CacheInv, CachedOrOnItsWay
<1> QED BY <1>0, <1>4, <1>5, <1>6 DEF CacheInv

\* The steps of an edit.
LEMMA EditsKeepCache ==
  ASSUME Undisturbed, NeverClosed, AnalysesSucceed, Before, CacheInv,
         NEW h \in Threads, Step(h), msg[h].kind = "change"
  PROVE  CacheInv'
<1> DEFINE f == msg[h].file
<1> DEFINE v == at[h]
<1>0. /\ OnlyMoves(h) /\ StartAtFirst' /\ f \in Files /\ v \in Workspaces
      /\ msg \in [Threads -> Messages] /\ cachedContents \in [Files -> Contents]
      /\ Home(f) \in Workspaces /\ TreeOf[f] \in Trees /\ 1 <= Home(f)
      /\ task \in [Workspaces -> Tasks]
      /\ pc \in [Threads -> Labels] /\ at \in [Threads -> Workspaces]
  BY StepMoves, StepStartsAtFirst, HomeType DEF Before, Known, TypeOK, Messages, CacheInv
<1>1. pc[h] \in {"idle", "smph", "owns", "writing", "reading", "unlock"}
  BY Itineraries DEF Before, Known, SemaphoresInv, OnTrack
<1>2. ASSUME NEW g \in Threads, msg[g].kind = "change",
             pc[g] \in {"owns", "writing", "reading"}, h \in InSmph
      PROVE  g = h
  BY <1>2, EditsInSmph
<1>3. CASE AcquireSmph(h)
  <2>1. /\ UNCHANGED <<ast, overrides, task, msg, at>> /\ pc[h] = "smph" /\ pc'[h] = "owns"
        /\ cachedContents' = [cachedContents EXCEPT ![f] = msg[h].text] /\ smph = 1
    BY <1>0, <1>3 DEF AcquireSmph, Goto
  <2>2. \A g \in Threads \ {h} :
          ~(msg[g].kind = "change" /\ pc[g] \in {"owns", "writing", "reading"})
    BY <2>1, EditsInSmph
  <2>3. EditsCached'
    BY <1>0, <2>1, <2>2 DEF EditsCached, OnlyMoves
  <2>4. ParsedUnlessUpdated'
    BY <2>1 DEF CacheInv, ParsedUnlessUpdated
  <2>5. CachedOrOnItsWay'
    <3>1. OnItsWay(h, f)'
      BY <1>0, <2>1 DEF CacheInv, StartAtFirst, OnItsWay, Home
    <3>2. \A g \in Files \ {f} : cachedContents'[g] = cachedContents[g]
      BY <1>0, <2>1
    <3>3. \A g \in Files \ {f} : \A i \in Threads : ~OnItsWay(i, g)
      BY <2>1, <2>2 DEF OnItsWay
    <3> QED
      BY <2>1, <3>1, <3>2, <3>3 DEF CacheInv, CachedOrOnItsWay, AlwaysAnalysed
  <2> QED BY <1>0, <2>3, <2>4, <2>5 DEF CacheInv
<1>4. CASE Owns(h)
  <2>1. /\ UNCHANGED <<ast, overrides, task, msg, cachedContents>>
        /\ pc[h] = "owns" /\ reading[v] = 1
        /\ IF f \in Owned(v) THEN pc'[h] = "writing"
           ELSE IF v < NumWorkspaces THEN pc'[h] = "owns" /\ at'[h] = v + 1
           ELSE pc'[h] = "unlock"
    BY <1>0, <1>4 DEF Owns, Continue, Goto, Workspaces
  <2>2. EditsCached'
    BY <1>0, <2>1 DEF CacheInv, EditsCached, OnlyMoves
  <2>3. ParsedUnlessUpdated'
    BY <2>1 DEF CacheInv, ParsedUnlessUpdated
  <2>4. CachedOrOnItsWay'
    <3>1. ASSUME NEW g \in AlwaysAnalysed, NEW i \in Threads, OnItsWay(i, g)
          PROVE  OnItsWay(i, g)'
      <4>1. CASE i # h
        BY <1>0, <3>1, <4>1 DEF OnItsWay, OnlyMoves
      <4>2. CASE i = h
        <5>1. g = f /\ v <= Home(f)
          BY <2>1, <3>1, <4>2 DEF OnItsWay
        <5>2. CASE v = Home(f)
          <6>1. ~UpdateReads(v)
            BY <1>0, <2>1 DEF Before, Known, SemaphoresInv, OneReads
          <6>2. ast[f] # NoText
            BY <5>1, <5>2, <6>1 DEF CacheInv, ParsedUnlessUpdated, UpdateReads
          <6>3. f \in Owned(v)
            BY <1>0, <5>2, <6>2 DEF Owned, FilesIn, Home
          <6> QED BY <1>0, <2>1, <4>2, <5>1, <6>3 DEF OnItsWay
        <5>3. CASE v < Home(f)
          <6>1. v \in Nat /\ Home(f) \in Nat /\ Home(f) <= NumWorkspaces
            BY <1>0, WorkspaceAssumption DEF Workspaces
          <6>2. f \notin Owned(v) /\ v < NumWorkspaces /\ v + 1 <= Home(f)
            BY <5>3, <6>1, WorkspaceAssumption DEF Owned, FilesIn, Home
          <6> QED BY <1>0, <2>1, <4>2, <5>1, <6>2 DEF OnItsWay, Home
        <5> QED BY <1>0, <5>1, <5>2, <5>3, WorkspaceAssumption DEF Workspaces
      <4> QED BY <4>1, <4>2
    <3> QED BY <2>1, <3>1 DEF CacheInv, CachedOrOnItsWay
  <2> QED BY <1>0, <2>2, <2>3, <2>4 DEF CacheInv
<1>5. CASE AcquireWriting(h)
  <2>1. /\ UNCHANGED <<ast, overrides, task, msg, at, cachedContents>>
        /\ pc[h] = "writing" /\ pc'[h] = "reading"
    BY <1>0, <1>5 DEF AcquireWriting, Goto
  <2>2. EditsCached' /\ ParsedUnlessUpdated'
    BY <1>0, <2>1 DEF CacheInv, EditsCached, ParsedUnlessUpdated, OnlyMoves
  <2>3. CachedOrOnItsWay'
    <3>1. ASSUME NEW g, NEW i \in Threads, OnItsWay(i, g) PROVE OnItsWay(i, g)'
      BY <1>0, <2>1, <3>1 DEF OnItsWay, OnlyMoves
    <3> QED BY <2>1, <3>1 DEF CacheInv, CachedOrOnItsWay
  <2> QED BY <1>0, <2>2, <2>3 DEF CacheInv
<1>6. CASE PatchFile(h)
  <2>1. /\ UNCHANGED <<msg, at, cachedContents>> /\ pc[h] = "reading" /\ pc'[h] = "unlock"
        /\ reading[v] = 1 /\ f \in Owned(v)
    BY <1>0, <1>6 DEF PatchFile, Goto, Before, TreesInv, StaysOwned
  <2>2. /\ overrides' = [overrides EXCEPT ![f] = msg[h].text]
        /\ ast' = [g \in Files |-> IF TreeOf[g] = TreeOf[f] THEN NoText ELSE ast[g]]
        /\ \A w \in Workspaces \ {v} : task'[w] = task[w]
        /\ task'[v].step = "parse" /\ task'[v].tree = TreeOf[f]
    BY <1>0, <1>6, <2>1 DEF PatchFile, Patch, StartUpdate, Clear
  <2>3. EditsCached'
    BY <1>0, <2>1 DEF CacheInv, EditsCached, OnlyMoves
  <2>4. Home(f) = v
    BY <2>1 DEF Owned, FilesIn, Home
  <2>5. ParsedUnlessUpdated'
    <3> SUFFICES ASSUME NEW g \in AlwaysAnalysed, ast'[g] = NoText
                 PROVE  task'[Home(g)].step = "parse" /\ task'[Home(g)].tree = TreeOf[g]
      BY DEF ParsedUnlessUpdated
    <3>1. g \in Files /\ Home(g) \in Workspaces
      BY HomeType DEF AlwaysAnalysed
    <3>2. CASE TreeOf[g] = TreeOf[f]
      BY <2>2, <2>4, <3>2 DEF Home
    <3>3. CASE TreeOf[g] # TreeOf[f]
      <4>1. task[Home(g)].step = "parse" /\ task[Home(g)].tree = TreeOf[g]
        BY <2>2, <3>1, <3>3 DEF CacheInv, ParsedUnlessUpdated
      <4>2. Home(g) # v
        BY <1>0, <2>1, <4>1 DEF Before, Known, SemaphoresInv, OneReads, UpdateReads
      <4> QED BY <2>2, <3>1, <4>1, <4>2
    <3> QED BY <3>2, <3>3
  <2>6. CachedOrOnItsWay'
    <3>1. overrides'[f] = cachedContents[f]
      BY <1>0, <2>1, <2>2 DEF CacheInv, EditsCached, Before, Known, TypeOK
    <3>2. \A g \in Files \ {f} : overrides'[g] = overrides[g]
      BY <2>2 DEF Before, Known, TypeOK
    <3>3. ASSUME NEW g, g # f, NEW i \in Threads, OnItsWay(i, g) PROVE OnItsWay(i, g)'
      BY <1>0, <3>3 DEF OnItsWay, OnlyMoves
    <3> QED
      BY <2>1, <3>1, <3>2, <3>3 DEF CacheInv, CachedOrOnItsWay, AlwaysAnalysed
  <2> QED BY <1>0, <2>3, <2>5, <2>6 DEF CacheInv
<1>7. CASE ReleaseSmph(h)
  <2>1. /\ UNCHANGED <<ast, overrides, task, cachedContents>>
        /\ pc[h] = "unlock" /\ pc'[h] = "idle"
    BY <1>0, <1>7 DEF ReleaseSmph, Finish, Goto
  <2>2. EditsCached' /\ ParsedUnlessUpdated'
    BY <1>0, <2>1 DEF CacheInv, EditsCached, ParsedUnlessUpdated, OnlyMoves
  <2>3. CachedOrOnItsWay'
    <3>1. ASSUME NEW g, NEW i \in Threads, OnItsWay(i, g) PROVE OnItsWay(i, g)'
      BY <1>0, <2>1, <3>1 DEF OnItsWay, OnlyMoves
    <3> QED BY <2>1, <3>1 DEF CacheInv, CachedOrOnItsWay
  <2> QED BY <1>0, <2>2, <2>3 DEF CacheInv
<1>8. AcquireSmph(h) \/ Owns(h) \/ AcquireWriting(h) \/ PatchFile(h) \/ ReleaseSmph(h)
  BY <1>1
  DEF Step, ForeignChange, AcquireReading, Read, ReadThrows, Answer, Format, EraseCachedContents,
      DropCache, UpdateOptions, ClearDiagnostics, PublishOld, Reparse,
      ReparseThrows, PublishNew, PublishNewThrows, Initialized, Shutdown
<1> QED BY <1>3, <1>4, <1>5, <1>6, <1>7, <1>8

LEMMA InitCache == Init => CacheInv
<1> SUFFICES ASSUME Init PROVE CacheInv
  OBVIOUS
<1>1. StartAtFirst /\ EditsCached /\ CachedOrOnItsWay
  BY DEF Init, StartAtFirst, EditsCached, CachedOrOnItsWay, AlwaysAnalysed
<1>2. ASSUME NEW f \in AlwaysAnalysed PROVE ast[f] # NoText
  <2>1. f \in Files /\ TreeOf[f] \in Trees /\ MainFile[TreeOf[f]] \in Files
    BY WorkspaceAssumption DEF AlwaysAnalysed
  <2>2. f \in Visited([g \in Files |-> NoText], TreeOf[f])
    BY <2>1, WorkspaceAssumption DEF Visited, Effective, AlwaysAnalysed
  <2>3. ast[f] = FromDisk(f)
    BY <2>1 DEF Init
  <2>4. Disk[f] \in Texts
    BY <2>1, WorkspaceAssumption
  <2>5. FromDisk(f) = Disk[f]
    BY <2>2 DEF FromDisk
  <2>6. NoText \notin Texts
    BY WorkspaceAssumption
  <2> QED BY <2>3, <2>4, <2>5, <2>6
<1> QED BY <1>1, <1>2 DEF CacheInv, ParsedUnlessUpdated

LEMMA CacheInvariant ==
  ASSUME Undisturbed, NeverClosed, AnalysesSucceed PROVE Spec => [](Before /\ CacheInv)
<1>1. Before /\ CacheInv /\ [Next]_vars => CacheInv'
  <2> SUFFICES ASSUME Before, CacheInv, [Next]_vars PROVE CacheInv'
    OBVIOUS
  <2>1. CASE UNCHANGED vars
    BY <2>1 DEF vars, CacheInv, StartAtFirst, EditsCached, ParsedUnlessUpdated,
                CachedOrOnItsWay, OnItsWay
  <2> QED
    BY <2>1, StartKeepsCache, UpdateKeepsCache, OthersKeepCache, EditsKeepCache
    DEF Next, Rest
<1> QED BY <1>1, InitCache, TreesInvariant, PTL DEF Spec

(***************************************************************************)
(* Without reparses, closes and failing analyses: once all threads have    *)
(* ended, the last cached edit of every file that is always analysed has   *)
(* been analysed, however many edits of however many files came in and in  *)
(* whatever order their threads ran.                                       *)
(***************************************************************************)
THEOREM EditsAnalysed ==
  ASSUME Undisturbed, NeverClosed, AnalysesSucceed
  PROVE  Spec => [](AtRest => \A f \in AlwaysAnalysed : CachedAnalysed(f))
<1>1. ASSUME Before, CacheInv, AtRest, NEW f \in AlwaysAnalysed
      PROVE  CachedAnalysed(f)
  <2>1. f \in Files /\ Home(f) \in Workspaces
    BY HomeType DEF AlwaysAnalysed
  <2>2. ast[f] # NoText
    BY <1>1, <2>1 DEF CacheInv, ParsedUnlessUpdated, AtRest
  <2>3. \A h \in Threads : ~OnItsWay(h, f)
    BY <1>1 DEF OnItsWay, AtRest
  <2> QED
    BY <1>1, <2>1, <2>2, <2>3
    DEF CacheInv, CachedOrOnItsWay, CachedAnalysed, Before, Known, EditorWinsOverDisk
<1>2. Before /\ CacheInv => (AtRest => \A f \in AlwaysAnalysed : CachedAnalysed(f))
  BY <1>1
<1> QED BY <1>2, CacheInvariant, PTL

(***************************************************************************)
(* The same for all files, when no edit can take one out of the analysis.  *)
(***************************************************************************)
THEOREM NoEditOnlyCached ==
  ASSUME Undisturbed, NeverClosed, AnalysesSucceed, AlwaysAnalysed = Files
  PROVE  Spec => []CachedContentsAnalysed
<1>1. (AtRest => \A f \in AlwaysAnalysed : CachedAnalysed(f)) => CachedContentsAnalysed
  BY DEF CachedContentsAnalysed, CachedAnalysed
<1> QED BY <1>1, EditsAnalysed, PTL
================================================================================
