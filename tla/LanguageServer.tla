---------------------------- MODULE LanguageServer ----------------------------
(***************************************************************************)
(* The handlers of the language server (liblangserver/langserver.cpp) over *)
(* its workspaces.  The JSON-RPC loop starts one thread per message, so    *)
(* any number of handlers run at once and nothing orders them: the order   *)
(* of two messages is the order in which their threads reach the           *)
(* semaphores.  One more thread waits for changes of wrap files.           *)
(***************************************************************************)
EXTENDS Workspace

CONSTANTS
  Handlers,           \* threads for messages; bounds how many run at once
  Watcher,            \* the thread of LanguageServer::watch
  MessageKinds,       \* the messages the client sends
  WrapFilesChange,    \* do wrap files change on disk?
  IgnoreSubprojects,  \* others.ignoreDiagnosticsFromSubprojects at the start
  MaxMessages         \* bound: messages sent and wrap files changed

Threads == Handlers \cup {Watcher}
QueryKinds == {"inspect", "completion"}
Kinds == QueryKinds \cup
  {"change", "foreign", "close", "format", "config", "initialized", "shutdown",
   "wrap"}
Messages == [kind : Kinds, file : Files, text : Contents, ignore : BOOLEAN]

ASSUME LanguageServerAssumption ==
  /\ Watcher \notin Handlers
  /\ MessageKinds \subseteq Kinds \ {"wrap"}
  /\ WrapFilesChange \in BOOLEAN
  /\ IgnoreSubprojects \in BOOLEAN
  /\ MaxMessages \in Nat

VARIABLES
  pc,              \* where each thread is
  msg,             \* the message it handles
  at,              \* the workspace its loop over workspaces has reached
  seen,            \* the text a query or the formatter works on
  toClear,         \* files whose old diagnostics a reparse has yet to clear
  out,             \* new diagnostics it has yet to publish
  dangling,        \* the threads reading trees that have been freed
  smph,            \* LanguageServer::smph, a binary semaphore
  cachedContents,  \* LanguageServer::cachedContents
  ignoring,        \* options.ignoreDiagnosticsFromSubprojects
  initial,         \* LanguageServer::diagnosticsFromInitialisation
  watching,        \* inotifyFd # -1
  client,          \* the text in the client's editor, NoText when not edited
  sent             \* how many messages and wrap file changes there were

threadVars == <<pc, msg, at, seen, toClear, out, dangling>>
serverVars == <<smph, cachedContents, ignoring, initial, watching>>
clientVars == <<client, sent>>
vars == <<workspaceVars, threadVars, serverVars, clientVars>>

NoMessage == [kind |-> "shutdown", file |-> CHOOSE f \in Files : TRUE,
              text |-> NoText, ignore |-> FALSE]

-----------------------------------------------------------------------------
(***************************************************************************)
(* The initial state is the one after initialize: every workspace is       *)
(* parsed from disk and its diagnostics wait for initialized, unless the   *)
(* client has dealt with that already.                                     *)
(***************************************************************************)
FromDisk(f) ==
  LET none == [g \in Files |-> NoText] IN
  IF f \in Visited(none, TreeOf[f]) THEN Disk[f] ELSE NoText

\* parse and fullReparse leave out the diagnostics of ignored subprojects.
ReparseResult(S, ignore) ==
  {[file |-> f, diag |-> Diagnosis(FromDisk(f))] :
     f \in {g \in S : /\ Diagnosis(FromDisk(g)) # NoText
                      /\ ignore => TreeOf[g] \in RootTrees}}

AtStart == ReparseResult(Files, IgnoreSubprojects)

Init ==
  /\ ast = [f \in Files |-> FromDisk(f)]
  /\ overrides = [f \in Files |-> NoText]
  /\ reading = [w \in Workspaces |-> 1]
  /\ writing = [w \in Workspaces |-> 1]
  /\ completing = [w \in Workspaces |-> FALSE]
  /\ task = [w \in Workspaces |-> NoTask]
  /\ pc = [h \in Threads |-> "idle"]
  /\ msg = [h \in Threads |-> NoMessage]
  /\ at = [h \in Threads |-> 1]
  /\ seen = [h \in Threads |-> NoText]
  /\ toClear = [h \in Threads |-> {}]
  /\ out = [h \in Threads |-> {}]
  /\ dangling = {}
  /\ smph = 1
  /\ cachedContents = [f \in Files |-> NoText]
  /\ ignoring = IgnoreSubprojects
  /\ IF "initialized" \in MessageKinds
     THEN /\ initial = AtStart
          /\ shown = [f \in Files |-> NoText]
     ELSE /\ initial = {}
          /\ shown = [f \in Files |->
               IF \E e \in AtStart : e.file = f
               THEN Diagnosis(FromDisk(f)) ELSE NoText]
  /\ watching = TRUE
  /\ client = [f \in Files |-> NoText]
  /\ sent = 0

-----------------------------------------------------------------------------
(***************************************************************************)
(* Messages.                                                               *)
(***************************************************************************)
\* Where the handler of a message begins.
Entry(k) ==
  CASE k \in {"change", "foreign", "wrap"} -> "smph"
    [] k = "close" -> "erase"
    [] k \in QueryKinds -> "owns"
    [] k = "format" -> "format"
    [] k = "config" -> "options"
    [] k = "initialized" -> "greet"
    [] k = "shutdown" -> "shutdown"

\* A thread starts on message m.
Start(h, m) ==
  /\ sent < MaxMessages
  /\ sent' = sent + 1
  /\ pc[h] = "idle"
  /\ pc' = [pc EXCEPT ![h] = Entry(m.kind)]
  /\ msg' = [msg EXCEPT ![h] = m]
  /\ UNCHANGED <<workspaceVars, seen, toClear, out, dangling, serverVars>>

\* After shutdown the client sends nothing but exit, which ends the process.
Receive(h, m) ==
  /\ m.kind \in MessageKinds
  /\ watching
  /\ \A g \in Handlers : pc[g] # "shutdown"
  /\ Start(h, m)
  /\ UNCHANGED at

Message(k, f, x) == [kind |-> k, file |-> f, text |-> x, ignore |-> FALSE]

\* The client opens f, which changes nothing here, or edits it.
SendChange(h) ==
  \E f \in Files, x \in Texts :
    /\ Receive(h, Message("change", f, x))
    /\ client' = [client EXCEPT ![f] = x]

\* It edits a document that is no file, an untitled one for instance.
SendForeign(h) ==
  /\ Receive(h, [NoMessage EXCEPT !.kind = "foreign"])
  /\ UNCHANGED client

SendClose(h) ==
  \E f \in Files :
    /\ client[f] # NoText
    /\ Receive(h, Message("close", f, NoText))
    /\ client' = [client EXCEPT ![f] = NoText]

\* A query carries the text the client sees; the server does not get it.
SendQuery(h) ==
  \E k \in QueryKinds \cup {"format"}, f \in Files :
    /\ Receive(h, Message(k, f, client[f]))
    /\ UNCHANGED client

SendConfiguration(h) ==
  \E b \in BOOLEAN :
    /\ Receive(h, [NoMessage EXCEPT !.kind = "config", !.ignore = b])
    /\ UNCHANGED client

SendInitialized(h) ==
  /\ sent = 0
  /\ Receive(h, [NoMessage EXCEPT !.kind = "initialized"])
  /\ UNCHANGED client

SendShutdown(h) ==
  /\ Receive(h, [NoMessage EXCEPT !.kind = "shutdown"])
  /\ UNCHANGED client

\* A wrap file in the subprojects directory of workspace w is written.
WrapFileChanges(w) ==
  /\ WrapFilesChange
  /\ watching
  /\ Start(Watcher, [NoMessage EXCEPT !.kind = "wrap"])
  /\ at' = [at EXCEPT ![Watcher] = w]
  /\ UNCHANGED client

Environment ==
  \/ \E h \in Handlers :
       \/ SendChange(h)
       \/ SendForeign(h)
       \/ SendClose(h)
       \/ SendQuery(h)
       \/ SendConfiguration(h)
       \/ SendInitialized(h)
       \/ SendShutdown(h)
  \/ \E w \in Workspaces : WrapFileChanges(w)

-----------------------------------------------------------------------------
(***************************************************************************)
(* Steps of the handler threads.                                           *)
(***************************************************************************)
Goto(h, l) == pc' = [pc EXCEPT ![h] = l]

\* The thread ends; its slot is free for another message.
Finish(h) ==
  /\ Goto(h, "idle")
  /\ msg' = [msg EXCEPT ![h] = NoMessage]
  /\ at' = [at EXCEPT ![h] = 1]
  /\ seen' = [seen EXCEPT ![h] = NoText]

\* Seeded fault: the loop over workspaces goes one too far.
ContinueTooFar(h, l, last) ==
  IF at[h] <= NumWorkspaces
  THEN /\ at' = [at EXCEPT ![h] = @ + 1]
       /\ Goto(h, l)
       /\ UNCHANGED <<msg, seen>>
  ELSE last

\* The next workspace of the loop over workspaces, or the end of it.
Continue(h, l, last) ==
  IF at[h] < NumWorkspaces
  THEN /\ at' = [at EXCEPT ![h] = @ + 1]
       /\ Goto(h, l)
       /\ UNCHANGED <<msg, seen>>
  ELSE last

\* Seeded fault: didChange and fullReparse do not take smph.
AcquireNothing(h) ==
  /\ pc[h] = "smph"
  /\ msg[h].kind # "foreign"
  /\ IF msg[h].kind = "change"
     THEN /\ Goto(h, "owns")
          /\ cachedContents' =
               [cachedContents EXCEPT ![msg[h].file] = msg[h].text]
     ELSE /\ Goto(h, "clear")
          /\ UNCHANGED cachedContents
  /\ UNCHANGED <<workspaceVars, msg, at, seen, toClear, out, dangling, smph,
                 ignoring, initial, watching, clientVars>>

\* didChange and fullReparse take smph; an edit is cached at once.
AcquireSmph(h) ==
  /\ pc[h] = "smph"
  /\ msg[h].kind # "foreign"
  /\ smph = 1
  /\ smph' = 0
  /\ IF msg[h].kind = "change"
     THEN /\ Goto(h, "owns")
          /\ cachedContents' =
               [cachedContents EXCEPT ![msg[h].file] = msg[h].text]
     ELSE /\ Goto(h, "clear")
          /\ UNCHANGED cachedContents
  /\ UNCHANGED <<workspaceVars, msg, at, seen, toClear, out, dangling,
                 ignoring, initial, watching, clientVars>>

(***************************************************************************)
(* The URI of a document that is no file is looked at after smph was taken *)
(* and has no path: extractPathFromUrl throws, handleNotification swallows *)
(* the exception, and nobody releases smph.                                *)
(***************************************************************************)
ForeignChange(h) ==
  /\ pc[h] = "smph"
  /\ msg[h].kind = "foreign"
  /\ smph = 1
  /\ smph' = 0
  /\ Finish(h)
  /\ UNCHANGED <<workspaceVars, toClear, out, dangling, cachedContents,
                 ignoring, initial, watching, clientVars>>

\* smph is not released by a destructor, but at the end of the handler.
ReleaseSmph(h) ==
  /\ pc[h] = "unlock"
  /\ smph' = 1
  /\ Finish(h)
  /\ UNCHANGED <<workspaceVars, toClear, out, dangling, cachedContents,
                 ignoring, initial, watching, clientVars>>

(***************************************************************************)
(* Workspace::owns for the workspace the loop has reached.  It acquires    *)
(* reading, looks the file up and releases it: one step, since it holds    *)
(* the semaphore throughout.  formatting asks every workspace, the others  *)
(* stop at the first that owns the file.                                   *)
(***************************************************************************)
Owns(h) ==
  LET k == msg[h].kind
      none == IF k = "change"
              THEN Goto(h, "unlock") /\ UNCHANGED <<msg, at, seen>>
              ELSE Finish(h)
  IN /\ pc[h] = "owns"
     /\ reading[at[h]] = 1
     /\ IF msg[h].file \in Owned(at[h]) /\ k # "format"
        THEN /\ Goto(h, CASE k = "change" -> "writing"
                          [] k = "close" -> "drop"
                          [] OTHER -> "acquire")
             /\ UNCHANGED <<msg, at, seen>>
        ELSE Continue(h, "owns", none)
     /\ UNCHANGED <<workspaceVars, toClear, out, dangling, serverVars,
                    clientVars>>

\* Seeded faults: patchFile does not wait for one of the semaphores.
ForgetWriting(h) ==
  /\ pc[h] = "writing"
  /\ Goto(h, "reading")
  /\ UNCHANGED <<workspaceVars, msg, at, seen, toClear, out, dangling,
                 serverVars, clientVars>>

PatchWithoutReading(h) ==
  /\ pc[h] = "reading"
  /\ reading' = [reading EXCEPT ![at[h]] = 0]
  /\ Patch(at[h], msg[h].file, msg[h].text)
  /\ Goto(h, "unlock")
  /\ UNCHANGED <<writing, completing, shown, msg, at, seen, toClear, out,
                 dangling, serverVars, clientVars>>

\* Workspace::patchFile acquires writing, then reading.
AcquireWriting(h) ==
  /\ pc[h] = "writing"
  /\ writing[at[h]] = 1
  /\ writing' = [writing EXCEPT ![at[h]] = 0]
  /\ Goto(h, "reading")
  /\ UNCHANGED <<treeVars, reading, completing, task, shown, msg, at, seen,
                 toClear, out, dangling, serverVars, clientVars>>

PatchFile(h) ==
  /\ pc[h] = "reading"
  /\ reading[at[h]] = 1
  /\ reading' = [reading EXCEPT ![at[h]] = 0]
  /\ Patch(at[h], msg[h].file, msg[h].text)
  /\ Goto(h, "unlock")
  /\ UNCHANGED <<writing, completing, shown, msg, at, seen, toClear, out,
                 dangling, serverVars, clientVars>>

-----------------------------------------------------------------------------
(***************************************************************************)
(* Queries: the workspace that owns the file evaluates them under reading, *)
(* which is released by hand on every return but not when they throw.      *)
(***************************************************************************)
\* Seeded fault: a query does not wait for reading.
ReadAnyway(h) ==
  LET w == at[h] IN
  /\ pc[h] = "acquire"
  /\ reading' = [reading EXCEPT ![w] = 0]
  /\ completing' = [completing EXCEPT ![w] = @ \/ msg[h].kind = "completion"]
  /\ Goto(h, "read")
  /\ UNCHANGED <<treeVars, writing, task, shown, msg, at, seen, toClear, out,
                 dangling, serverVars, clientVars>>

AcquireReading(h) ==
  LET w == at[h] IN
  /\ pc[h] = "acquire"
  /\ reading[w] = 1
  /\ reading' = [reading EXCEPT ![w] = 0]
  /\ completing' = [completing EXCEPT ![w] = @ \/ msg[h].kind = "completion"]
  /\ Goto(h, "read")
  /\ UNCHANGED <<treeVars, writing, task, shown, msg, at, seen, toClear, out,
                 dangling, serverVars, clientVars>>

\* An owned file is looked up in its tree; freed memory may hold anything.
Read(h) ==
  /\ pc[h] = "read"
  /\ IF h \in dangling
     THEN \E x \in Contents : seen' = [seen EXCEPT ![h] = x]
     ELSE seen' = [seen EXCEPT ![h] = ast[msg[h].file]]
  /\ Goto(h, "answer")
  /\ UNCHANGED <<workspaceVars, msg, at, toClear, out, dangling, serverVars,
                 clientVars>>

\* handleRequest replies with an error; reading stays acquired.
ReadThrows(h) ==
  /\ QueryMayThrow
  /\ pc[h] = "read"
  /\ Finish(h)
  /\ dangling' = dangling \ {h}
  /\ UNCHANGED <<workspaceVars, toClear, out, serverVars, clientVars>>

\* Seeded fault: completion returns without resetting completing.
AnswerStillCompleting(h) ==
  /\ pc[h] = "answer"
  /\ reading' = [reading EXCEPT ![at[h]] = 1]
  /\ Finish(h)
  /\ dangling' = dangling \ {h}
  /\ UNCHANGED <<treeVars, writing, completing, task, shown, toClear, out,
                 serverVars, clientVars>>

Answer(h) ==
  LET w == at[h] IN
  /\ pc[h] = "answer"
  /\ reading' = [reading EXCEPT ![w] = 1]
  /\ completing' = [completing EXCEPT ![w] = @ /\ msg[h].kind # "completion"]
  /\ Finish(h)
  /\ dangling' = dangling \ {h}
  /\ UNCHANGED <<treeVars, writing, task, shown, toClear, out, serverVars,
                 clientVars>>

\* formatting takes the cached contents without synchronisation.
Format(h) ==
  LET f == msg[h].file IN
  /\ pc[h] = "format"
  /\ seen' = [seen EXCEPT ![h] = Effective(cachedContents, f)]
  /\ Goto(h, "owns")
  /\ UNCHANGED <<workspaceVars, msg, at, toClear, out, dangling, serverVars,
                 clientVars>>

-----------------------------------------------------------------------------
(***************************************************************************)
(* didClose: the cached contents and the override are dropped without any  *)
(* lock.  While an update rebuilds the tree of the file, the file may or   *)
(* may not be among its ownedFiles already.                                *)
(***************************************************************************)
EraseCachedContents(h) ==
  /\ pc[h] = "erase"
  /\ cachedContents' = [cachedContents EXCEPT ![msg[h].file] = NoText]
  /\ Goto(h, "owns")
  /\ UNCHANGED <<workspaceVars, msg, at, seen, toClear, out, dangling, smph,
                 ignoring, initial, watching, clientVars>>

Rebuilding(w, f) == task[w].step = "parse" /\ task[w].tree = TreeOf[f]

DropCache(h) ==
  LET f == msg[h].file IN
  /\ pc[h] = "drop"
  /\ \/ /\ f \in Owned(at[h]) \/ Rebuilding(at[h], f)
        /\ overrides' = [overrides EXCEPT ![f] = NoText]
     \/ /\ f \notin Owned(at[h])
        /\ UNCHANGED overrides
  /\ Finish(h)
  /\ UNCHANGED <<ast, reading, writing, completing, task, shown, toClear, out,
                 dangling, serverVars, clientVars>>

-----------------------------------------------------------------------------
(***************************************************************************)
(* Parsing a workspace anew, from disk: on didChangeConfiguration for all  *)
(* workspaces, without a lock, and on a changed wrap file for its own,     *)
(* under smph only.  The new trees replace the old ones, which are freed.  *)
(***************************************************************************)
UpdateOptions(h) ==
  /\ pc[h] = "options"
  /\ ignoring' = msg[h].ignore
  /\ Goto(h, "clear")
  /\ UNCHANGED <<workspaceVars, msg, at, seen, toClear, out, dangling, smph,
                 cachedContents, initial, watching, clientVars>>

\* clearDiagnostics sees part of the files of a tree that is being rebuilt.
ClearDiagnostics(h) ==
  LET w == at[h] IN
  /\ pc[h] = "clear"
  /\ \E S \in SUBSET {f \in FilesIn(w) : Rebuilding(w, f)} :
       toClear' = [toClear EXCEPT ![h] = Diagnosed(FilesIn(w)) \cup S]
  /\ Goto(h, IF msg[h].kind = "config" THEN "publishOld" ELSE "reparse")
  /\ UNCHANGED <<workspaceVars, msg, at, seen, out, dangling, serverVars,
                 clientVars>>

\* didChangeConfiguration publishes these before the reparse, the watcher after.
PublishOld(h) ==
  /\ pc[h] = "publishOld"
  /\ IF toClear[h] = {}
     THEN /\ Goto(h, IF msg[h].kind = "config" THEN "reparse" ELSE "publishNew")
          /\ UNCHANGED <<toClear, shown>>
     ELSE \E f \in toClear[h] :
            /\ Publish([file |-> f, diag |-> NoText])
            /\ toClear' = [toClear EXCEPT ![h] = @ \ {f}]
            /\ UNCHANGED pc
  /\ UNCHANGED <<treeVars, reading, writing, completing, task, msg, at, seen,
                 out, dangling, serverVars, clientVars>>

Reparse(h) ==
  LET w == at[h] IN
  /\ pc[h] = "reparse"
  /\ ast' = [f \in Files |-> IF f \in FilesIn(w) THEN FromDisk(f) ELSE ast[f]]
  /\ overrides' =
       [f \in Files |-> IF f \in FilesIn(w) THEN NoText ELSE overrides[f]]
  /\ out' = [out EXCEPT ![h] = ReparseResult(FilesIn(w), ignoring)]
  /\ dangling' = dangling \cup {g \in Threads : pc[g] = "read" /\ at[g] = w}
  /\ task' = [task EXCEPT ![w].dangling = @ \/ task[w].step = "parse"]
  /\ Goto(h, IF msg[h].kind = "config" THEN "publishNew" ELSE "publishOld")
  /\ UNCHANGED <<reading, writing, completing, shown, msg, at, seen, toClear,
                 serverVars, clientVars>>

\* The old trees stay.  The watcher ends without releasing smph.
ReparseThrows(h) ==
  /\ ParseMayThrow
  /\ pc[h] = "reparse"
  /\ IF msg[h].kind = "config"
     THEN Finish(h)
     ELSE Goto(h, "dead") /\ UNCHANGED <<msg, at, seen>>
  /\ toClear' = [toClear EXCEPT ![h] = {}]
  /\ UNCHANGED <<workspaceVars, out, dangling, serverVars, clientVars>>

\* Also the end of initialized, whose diagnostics date from initialize.
PublishNew(h) ==
  /\ pc[h] = "publishNew"
  /\ IF out[h] = {}
     THEN /\ CASE msg[h].kind = "config" -> Continue(h, "clear", Finish(h))
               [] msg[h].kind = "wrap" ->
                    Goto(h, "unlock") /\ UNCHANGED <<msg, at, seen>>
               [] OTHER -> Finish(h)
          /\ initial' = IF msg[h].kind = "initialized" THEN {} ELSE initial
          /\ UNCHANGED <<out, shown>>
     ELSE \E e \in out[h] :
            /\ Publish(e)
            /\ out' = [out EXCEPT ![h] = @ \ {e}]
            /\ UNCHANGED <<pc, msg, at, seen, initial>>
  /\ UNCHANGED <<treeVars, reading, writing, completing, task, toClear,
                 dangling, smph, cachedContents, ignoring, watching,
                 clientVars>>

\* The handler ends without the rest, the watcher without releasing smph.
PublishNewThrows(h) ==
  /\ pc[h] = "publishNew"
  /\ \E e \in out[h] : PublishThrows(e)
  /\ out' = [out EXCEPT ![h] = {}]
  /\ IF msg[h].kind = "wrap"
     THEN Goto(h, "dead") /\ UNCHANGED <<msg, at, seen>>
     ELSE Finish(h)
  /\ UNCHANGED <<treeVars, reading, writing, completing, task, toClear,
                 dangling, serverVars, clientVars>>

Initialized(h) ==
  /\ pc[h] = "greet"
  /\ out' = [out EXCEPT ![h] = initial]
  /\ Goto(h, "publishNew")
  /\ UNCHANGED <<workspaceVars, msg, at, seen, toClear, dangling, serverVars,
                 clientVars>>

Shutdown(h) ==
  /\ pc[h] = "shutdown"
  /\ watching' = FALSE
  /\ Finish(h)
  /\ UNCHANGED <<workspaceVars, toClear, out, dangling, smph, cachedContents,
                 ignoring, initial, clientVars>>

-----------------------------------------------------------------------------
Step(h) ==
  \/ AcquireSmph(h) \/ ForeignChange(h) \/ ReleaseSmph(h)
  \/ Owns(h) \/ AcquireWriting(h) \/ PatchFile(h)
  \/ AcquireReading(h) \/ Read(h) \/ ReadThrows(h) \/ Answer(h)
  \/ Format(h)
  \/ EraseCachedContents(h) \/ DropCache(h)
  \/ UpdateOptions(h) \/ ClearDiagnostics(h) \/ PublishOld(h)
  \/ Reparse(h) \/ ReparseThrows(h)
  \/ PublishNew(h) \/ PublishNewThrows(h)
  \/ Initialized(h) \/ Shutdown(h)

Update(w) ==
  /\ TaskStep(w)
  /\ UNCHANGED <<threadVars, serverVars, clientVars>>

\* Nothing is left to do: the only states in which the server may stop.
AtRest ==
  /\ \A h \in Threads : pc[h] = "idle"
  /\ \A w \in Workspaces : task[w].step = "none"

Rest ==
  /\ sent = MaxMessages \/ ~watching
  /\ AtRest
  /\ UNCHANGED vars

Next ==
  \/ Environment
  \/ \E h \in Threads : Step(h)
  \/ \E w \in Workspaces : Update(w)
  \/ Rest

Spec == Init /\ [][Next]_vars

(***************************************************************************)
(* The operating system runs every thread that can run.  A semaphore need  *)
(* not be handed to its waiters in turn, so no strong fairness is assumed: *)
(* a thread only gets on because the number of messages is finite.         *)
(***************************************************************************)
Fairness ==
  /\ \A h \in Threads : WF_vars(Step(h))
  /\ \A w \in Workspaces : WF_vars(Update(w))

FairSpec == Spec /\ Fairness

-----------------------------------------------------------------------------
Labels == {"idle", "smph", "unlock", "owns", "writing", "reading", "acquire",
           "read", "answer", "format", "erase", "drop", "options", "clear",
           "publishOld", "reparse", "publishNew", "greet", "shutdown", "dead"}

Tasks == [step : TaskSteps, tree : Trees, dangling : BOOLEAN,
          old : SUBSET Files, out : SUBSET Entries]

\* The type of every variable.
TypeOK ==
  /\ ast \in [Files -> Contents]
  /\ overrides \in [Files -> Contents]
  /\ reading \in [Workspaces -> {0, 1}]
  /\ writing \in [Workspaces -> {0, 1}]
  /\ completing \in [Workspaces -> BOOLEAN]
  /\ task \in [Workspaces -> Tasks]
  /\ shown \in [Files -> Contents]
  /\ pc \in [Threads -> Labels]
  /\ msg \in [Threads -> Messages]
  /\ at \in [Threads -> Workspaces]
  /\ seen \in [Threads -> Contents]
  /\ toClear \in [Threads -> SUBSET Files]
  /\ out \in [Threads -> SUBSET Entries]
  /\ dangling \subseteq Threads
  /\ smph \in {0, 1}
  /\ cachedContents \in [Files -> Contents]
  /\ ignoring \in BOOLEAN
  /\ initial \subseteq Entries
  /\ watching \in BOOLEAN
  /\ client \in [Files -> Contents]
  /\ sent \in 0 .. MaxMessages

-----------------------------------------------------------------------------
(***************************************************************************)
(* Who holds which semaphore.                                              *)
(***************************************************************************)
Readers(w) == {h \in Threads : pc[h] \in {"read", "answer"} /\ at[h] = w}
Patchers(w) == {h \in Threads : pc[h] = "reading" /\ at[h] = w}
InSmph == {h \in Threads :
  \/ msg[h].kind = "change" /\
       pc[h] \in {"owns", "writing", "reading", "unlock"}
  \/ msg[h].kind = "wrap" /\ pc[h] \notin {"idle", "smph"}}
UpdateReads(w) == task[w].step \in {"parse", "publish", "abort", "abortReading"}
UpdateWrites(w) == task[w].step \in {"parse", "publish", "writing", "abort"}

(***************************************************************************)
(* Nobody looks at the trees of a workspace while an update rebuilds them: *)
(* queries, updates and other queries of one workspace exclude each other. *)
(* The code relies on the permit of reading being handed from patchFile to *)
(* the task and released exactly once on each of its exits.                *)
(***************************************************************************)
QueriesExcludeUpdates ==
  \A w \in Workspaces :
    /\ UpdateReads(w) => Readers(w) = {}
    /\ \A g, h \in Readers(w) : g = h

(***************************************************************************)
(* A binary semaphore is never released while it is free, which std leaves *)
(* undefined: whoever is going to release one has taken it.                *)
(***************************************************************************)
HoldersHavePermits ==
  /\ InSmph # {} => smph = 0
  /\ \A w \in Workspaces :
       /\ Readers(w) # {} \/ UpdateReads(w) => reading[w] = 0
       /\ Patchers(w) # {} \/ UpdateWrites(w) => writing[w] = 0

\* Workspace::update starts with assert(!this->completing).
UpdateAssertion ==
  \A w \in Workspaces : task[w].step = "parse" => ~completing[w]

(***************************************************************************)
(* Why the three properties above hold.  A thread is only where the        *)
(* handler of its message leads, and each semaphore has at most one        *)
(* holder, who has taken its permit; completing is set by nobody but the   *)
(* reader, or by one that threw and left reading acquired for good.        *)
(***************************************************************************)
Stages(k) ==
  CASE k = "change" -> {"smph", "owns", "writing", "reading", "unlock"}
    [] k = "foreign" -> {"smph"}
    [] k = "close" -> {"erase", "owns", "drop"}
    [] k \in QueryKinds -> {"owns", "acquire", "read", "answer"}
    [] k = "format" -> {"format", "owns"}
    [] k = "config" ->
         {"options", "clear", "publishOld", "reparse", "publishNew"}
    [] k = "initialized" -> {"greet", "publishNew"}
    [] k = "shutdown" -> {"shutdown"}
    [] k = "wrap" -> {"smph", "clear", "publishOld", "reparse", "publishNew",
                      "unlock", "dead"}

OnTrack == \A h \in Threads : pc[h] = "idle" \/ pc[h] \in Stages(msg[h].kind)

OneInSmph ==
  /\ InSmph # {} => smph = 0
  /\ \A g, h \in InSmph : g = h

OneReads(w) ==
  /\ Readers(w) # {} \/ UpdateReads(w) => reading[w] = 0
  /\ UpdateReads(w) => Readers(w) = {}
  /\ \A g, h \in Readers(w) : g = h

OneWrites(w) ==
  /\ Patchers(w) # {} \/ UpdateWrites(w) => writing[w] = 0
  /\ UpdateWrites(w) => Patchers(w) = {}
  /\ \A g, h \in Patchers(w) : g = h

ReaderCompletes(w) ==
  completing[w] =>
    /\ reading[w] = 0
    /\ ~UpdateReads(w)
    /\ \A h \in Readers(w) : msg[h].kind = "completion"

SemaphoresInv ==
  /\ OnTrack
  /\ OneInSmph
  /\ \A w \in Workspaces : OneReads(w) /\ OneWrites(w) /\ ReaderCompletes(w)

(***************************************************************************)
(* Every semaphore is given back when only files are edited: once all      *)
(* threads have ended, the next edit or query can get in, also after       *)
(* partialParse threw.                                                     *)
(***************************************************************************)
PermitsReturned ==
  AtRest =>
    /\ smph = 1
    /\ \A w \in Workspaces :
         reading[w] = 1 /\ writing[w] = 1 /\ ~completing[w]

(***************************************************************************)
(* A permit that is taken is in somebody's hands: smph in those of an edit *)
(* or of the watcher, even after it died, the others in those of a query,  *)
(* an edit or an update of the workspace.                                  *)
(***************************************************************************)
SmphInHands == smph = 0 => InSmph # {}
ReadingInHands(w) == reading[w] = 0 => Readers(w) # {} \/ UpdateReads(w)
WritingInHands(w) == writing[w] = 0 => Patchers(w) # {} \/ UpdateWrites(w)

PermitsInHands(w) == ReadingInHands(w) /\ WritingInHands(w)

\* A query throws, an edit finds its file gone from the analysis, or an
\* update cannot publish.
LosesPermits(w) ==
  \/ \E h \in Threads : /\ at[h] = w
                        /\ \/ ReadThrows(h)
                           \/ PatchFile(h) /\ msg[h].file \notin Owned(w)
  \/ TaskPublishThrows(w)

(***************************************************************************)
(* Of the many exits of handlers and updates these three, and no others,   *)
(* leave a semaphore of their workspace acquired for good, whatever is     *)
(* reparsed meanwhile, and the other workspaces are not harmed; smph is    *)
(* lost by nothing but an edit of a document that is no file.              *)
(***************************************************************************)
OnlyFaultsLosePermits ==
  [][/\ SmphInHands => SmphInHands' \/ \E h \in Threads : ForeignChange(h)
     /\ \A w \in Workspaces :
          PermitsInHands(w) => PermitsInHands(w)' \/ LosesPermits(w)]_vars

(***************************************************************************)
(* No stale squiggles: at rest, what the client shows for a file comes     *)
(* from the present tree of that file, also when the file left the         *)
(* analysis or the analysis failed.                                        *)
(***************************************************************************)
NoStaleDiagnostics ==
  AtRest => \A f \in Files : shown[f] # NoText => ast[f] = shown[f]

(***************************************************************************)
(* The tree of a file the editor has contents for is built from them and   *)
(* not from the disk, at any time, whatever edits of other files and       *)
(* failures of the analysis there were in between.                         *)
(***************************************************************************)
EditorWinsOverDisk ==
  \A f \in Files :
    overrides[f] # NoText => ast[f] \in {NoText, overrides[f]}

(***************************************************************************)
(* A query that found the tree of an edited file sees the last edit that   *)
(* was accepted, never the tree from before it.                            *)
(***************************************************************************)
AnswersSeeAcceptedEdits ==
  \A h \in Threads :
    LET f == msg[h].file IN
    pc[h] = "answer" /\ seen[h] # NoText => overrides[f] \in {NoText, seen[h]}

(***************************************************************************)
(* The formatter's copy of an edited file, the analyser's copy and the     *)
(* tree agree at rest, in whatever order the edits got through: no edit is *)
(* cached without being analysed.                                          *)
(***************************************************************************)
CachedContentsAnalysed ==
  AtRest => \A f \in Files :
    cachedContents[f] # NoText =>
      overrides[f] = cachedContents[f] /\ ast[f] = cachedContents[f]

\* At rest the client shows the diagnostics of the present trees, all of them.
DiagnosticsCurrent ==
  AtRest => \A f \in Files : shown[f] = Diagnosis(ast[f])

(***************************************************************************)
(* The trees of a workspace only change in the hands of an edit or update  *)
(* that has both its semaphores, unless they are replaced as a whole.      *)
(***************************************************************************)
TreesChangeUnderLock ==
  [][\A w \in Workspaces :
       (\E f \in FilesIn(w) : ast'[f] # ast[f]) =>
         \/ reading'[w] = 0 /\ writing'[w] = 0
         \/ \E h \in Threads : Reparse(h) /\ at[h] = w]_vars

(***************************************************************************)
(* An edit that reached the server is analysed and its diagnostics reach   *)
(* the client, unless another edit of the file comes in.                   *)
(***************************************************************************)
EditsReachClient ==
  \A f \in Files, x \in Texts :
    cachedContents[f] = x ~> cachedContents[f] # x \/ shown[f] = Diagnosis(x)

\* Every message is dealt with: once the client is silent, all threads end.
ServerSettles == <>[]AtRest

(***************************************************************************)
(* The semaphores, tasks and threads implement the monitor of              *)
(* AnalysisService: a client cannot tell that they are there.              *)
(***************************************************************************)
Session(w) ==
  CASE UpdateReads(w) -> "edit"
    [] ~UpdateReads(w) /\ Readers(w) # {} -> "query"
    [] OTHER -> "idle"

\* Whoever works on the trees of a workspace has lost them to a reparse.
Freed(w) ==
  \/ UpdateReads(w) /\ task[w].dangling
  \/ Readers(w) \cap dangling # {}

Service == INSTANCE AnalysisService WITH
  session <- [w \in Workspaces |-> Session(w)],
  text <- ast,
  edits <- overrides,
  answer <- [h \in Threads |-> IF pc[h] = "answer" THEN seen[h] ELSE NoText],
  freed <- {w \in Workspaces : Freed(w)}

ImplementsService == Service!Spec

(***************************************************************************)
(* docs/Configuration.md: with ignoreDiagnosticsFromSubprojects, no        *)
(* diagnostics from subprojects are shown.                                 *)
(***************************************************************************)
IgnoredSubprojectsHidden ==
  ignoring => \A f \in Files : TreeOf[f] \notin RootTrees => shown[f] = NoText
=============================================================================
