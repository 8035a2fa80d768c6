------------------------------ MODULE WrapSetup ------------------------------
(***************************************************************************)
(* How a wrap becomes a subproject: SubprojectState::findSubprojects and   *)
(* initSubprojects (libanalyze/subprojects), the wrap kinds of libwrap and *)
(* the download cache of libutils.                                         *)
(*                                                                         *)
(* A wrap is set up in a directory of the user's cache, which outlives the *)
(* process and is shared by all of them; a file .fullysetup in it says     *)
(* that nothing is left to do.  Downloads are cached by URL.  Every setup  *)
(* may crash with its process, and whatever it calls may fail.  Setups of  *)
(* other wraps do not touch what is modelled here but for the cached       *)
(* downloads.                                                              *)
(***************************************************************************)
EXTENDS Naturals, Sequences

CONSTANTS
  Setters,       \* the processes that set up the wrap
  Wraps,         \* the wraps to check, one of them per behaviour
  MaxAttempts,   \* bound: setups started
  MaxCrashes     \* bound: setups cut short

Parts == {"source", "patch"}
Mirrors == {"main", "fallback"}
Urls == Parts \X Mirrors
FileStates == {"none", "partial", "good", "bad"}

\* What a wrap file says, as far as it decides what is done.
WrapRecords ==
  [kind : {"file", "git", "svn", "hg", "invalid"},
   source : {"url", "directory", "missing"},        \* of a wrap-file
   revision : {"commit", "branch", "head"},         \* "head" is HEAD or tip
   shallow : BOOLEAN, recursive : BOOLEAN, push : BOOLEAN,
   patch : {"none", "directory", "url", "missing"},
   readable : BOOLEAN,   \* can all files to merge be copied?
   fallbacks : SUBSET Parts,
   dotted : SUBSET Parts,   \* the archives with a ".." in the path of an entry
   diffs : Nat]

ASSUME WrapSetupAssumption ==
  /\ Wraps \subseteq WrapRecords
  /\ MaxAttempts \in Nat
  /\ MaxCrashes \in Nat

VARIABLES
  wrap,      \* the wrap file
  dir,       \* the directory it is set up in
  marker,    \* is there a .fullysetup in it?
  cache,     \* the downloads in downloadCache
  temp,      \* the temporary files they are downloaded to
  pc,        \* where each setup is
  job,       \* what it works on
  hindered,  \* history: did a call fail in it, or was it switched off?
  hopeful,   \* history: could the cached downloads be used when it began?
  attempts, crashes

diskVars == <<dir, marker, cache, temp>>
vars == <<wrap, diskVars, pc, job, hindered, hopeful, attempts, crashes>>

Absent == [made |-> FALSE, source |-> "none", patch |-> "none", diffs |-> 0]
NoJob == [part |-> "source", mirror |-> "main", todo |-> <<>>, diffs |-> 0]

Init ==
  /\ wrap \in Wraps
  /\ dir = Absent
  /\ marker = FALSE
  /\ cache = [u \in Urls |-> "none"]
  /\ temp = [u \in Urls |-> "none"]
  /\ pc = [s \in Setters |-> "idle"]
  /\ job = [s \in Setters |-> NoJob]
  /\ hindered = [s \in Setters |-> FALSE]
  /\ hopeful = [s \in Setters |-> FALSE]
  /\ attempts = 0
  /\ crashes = 0

-----------------------------------------------------------------------------
HasMirror(p, m) == m = "main" \/ p \in wrap.fallbacks

\* Some mirror of every download is not in the cache, or is whole.
CacheUsable ==
  \A p \in Parts : \E m \in Mirrors :
    HasMirror(p, m) /\ cache[<<p, m>>] \in {"none", "good"}

Goto(s, l) == pc' = [pc EXCEPT ![s] = l]
Hinder(s) == hindered' = [hindered EXCEPT ![s] = TRUE]

\* A step that leaves the counters and what was read at the start alone.
Working == UNCHANGED <<wrap, hopeful, attempts, crashes>>

\* The setup is given up: no marker, the directory stays as it is.
GiveUp(s) == Goto(s, "ended") /\ UNCHANGED job

Start(s) ==
  /\ pc[s] = "idle"
  /\ attempts < MaxAttempts
  /\ attempts' = attempts + 1
  /\ Goto(s, "find")
  /\ job' = [job EXCEPT ![s] = NoJob]
  /\ hindered' = [hindered EXCEPT ![s] = FALSE]
  /\ hopeful' = [hopeful EXCEPT ![s] = CacheUsable]
  /\ UNCHANGED <<wrap, diskVars, crashes>>

\* The process ends in the middle of a setup.
Crash(s) ==
  /\ pc[s] # "idle"
  /\ crashes < MaxCrashes
  /\ crashes' = crashes + 1
  /\ Goto(s, "idle")
  /\ UNCHANGED <<wrap, diskVars, job, hindered, hopeful, attempts>>

-----------------------------------------------------------------------------
(***************************************************************************)
(* findSubprojects.                                                        *)
(***************************************************************************)
\* Seeded fault: the marker is not looked for.
FindAnew(s) ==
  /\ pc[s] = "find"
  /\ Goto(s, IF dir.made THEN "remove" ELSE "create")
  /\ UNCHANGED <<diskVars, job, hindered>>
  /\ Working

\* A marked directory is used as it is; one without marker is removed.
Find(s) ==
  /\ pc[s] = "find"
  /\ Goto(s, IF marker THEN "ended" ELSE IF dir.made THEN "remove" ELSE "create")
  /\ UNCHANGED <<diskVars, job, hindered>>
  /\ Working

\* The user has disabled downloads.
DoNotDownload(s) ==
  /\ pc[s] = "find"
  /\ ~marker
  /\ Hinder(s)
  /\ GiveUp(s)
  /\ UNCHANGED diskVars
  /\ Working

Damage(part) == IF part = "none" THEN "none" ELSE "partial"

\* remove_all takes files in any order and may be cut short.
RemoveSome(s) ==
  /\ pc[s] = "remove"
  /\ dir.made
  /\ dir' = [made |-> TRUE, source |-> Damage(dir.source),
             patch |-> Damage(dir.patch), diffs |-> 0]
  /\ dir' # dir
  /\ marker' \in {marker, FALSE}
  /\ UNCHANGED <<cache, temp, pc, job, hindered>>
  /\ Working

RemoveAll(s) ==
  /\ pc[s] = "remove"
  /\ dir' = Absent
  /\ marker' = FALSE
  /\ Goto(s, "create")
  /\ UNCHANGED <<cache, temp, job, hindered>>
  /\ Working

CreateDirectories(s) ==
  /\ pc[s] = "create"
  /\ dir' = [dir EXCEPT !.made = TRUE]
  /\ Goto(s, "setup")
  /\ UNCHANGED <<marker, cache, temp, job, hindered>>
  /\ Working

-----------------------------------------------------------------------------
(***************************************************************************)
(* WrapSubproject::init: the setupDirectory of the kind of wrap.           *)
(***************************************************************************)
\* The programs a wrap of a version control system runs, in order.
GitCommands ==
  CASE wrap.shallow /\ wrap.revision = "commit" ->
         <<"init", "remote", "fetch", "checkout!">>
    [] wrap.shallow /\ wrap.revision # "commit" -> <<"clone">>
    [] ~wrap.shallow /\ wrap.revision = "head" -> <<"clone">>
    [] OTHER -> <<"clone", "checkout">>

Commands ==
  CASE wrap.kind = "git" ->
         GitCommands \o (IF wrap.recursive THEN <<"submodule">> ELSE <<>>)
                     \o (IF wrap.push THEN <<"set-url">> ELSE <<>>)
    [] wrap.kind = "hg" ->
         IF wrap.revision = "head" THEN <<"clone", "checkout!">> ELSE <<"clone">>
    [] wrap.kind = "svn" -> <<"checkout!">>

\* hg only checks a revision out if it is the tip, where clone leaves it.
CheckedOut ==
  IF wrap.kind = "hg" /\ wrap.revision # "head" THEN "wrong" ELSE "done"

\* No section of a known kind, or a wrap-file without a source.
CannotSetUp(s) ==
  /\ pc[s] = "setup"
  /\ \/ wrap.kind = "invalid"
     \/ wrap.kind = "file" /\ wrap.source = "missing"
  /\ GiveUp(s)
  /\ UNCHANGED <<diskVars, hindered>>
  /\ Working

FileWrapSetup(s) ==
  /\ pc[s] = "setup"
  /\ wrap.kind = "file"
  /\ wrap.source # "missing"
  /\ Goto(s, IF wrap.source = "url" THEN "download" ELSE "merge")
  /\ UNCHANGED <<diskVars, job, hindered>>
  /\ Working

VcsWrapSetup(s) ==
  /\ pc[s] = "setup"
  /\ wrap.kind \in {"git", "svn", "hg"}
  /\ job' = [job EXCEPT ![s].todo = Commands]
  /\ Goto(s, "run")
  /\ UNCHANGED <<diskVars, hindered>>
  /\ Working

\* Nothing is cloned into a directory that is not empty.
Occupied(s) == Head(job[s].todo) = "clone" /\ dir.source # "none"

Run(s) ==
  LET todo == job[s].todo IN
  /\ pc[s] = "run"
  /\ ~Occupied(s)
  /\ dir' = [dir EXCEPT !.source = IF Len(todo) = 1 THEN CheckedOut ELSE "partial"]
  /\ job' = [job EXCEPT ![s].todo = Tail(todo)]
  /\ Goto(s, IF Len(todo) = 1 THEN "patch" ELSE "run")
  /\ UNCHANGED <<marker, cache, temp, hindered>>
  /\ Working

\* Seeded fault: the checkout after the fetch is repeated like the first one.
CheckoutFailsAgain(s) ==
  LET todo == job[s].todo IN
  /\ pc[s] = "run"
  /\ Head(todo) = "checkout"
  /\ job' = [job EXCEPT ![s].todo = <<"fetch", "checkout">> \o Tail(todo)]
  /\ UNCHANGED <<diskVars, pc, hindered>>
  /\ Working

\* The commit is on no branch that was cloned: fetch it and try again.
CheckoutFails(s) ==
  LET todo == job[s].todo IN
  /\ pc[s] = "run"
  /\ Head(todo) = "checkout"
  /\ job' = [job EXCEPT ![s].todo = <<"fetch", "checkout!">> \o Tail(todo)]
  /\ UNCHANGED <<diskVars, pc, hindered>>
  /\ Working

RunFails(s) ==
  /\ pc[s] = "run"
  /\ Head(job[s].todo) # "checkout"
  /\ \/ UNCHANGED dir
     \/ ~Occupied(s) /\ dir' = [dir EXCEPT !.source = "partial"]
  /\ Hinder(s)
  /\ GiveUp(s)
  /\ UNCHANGED <<marker, cache, temp>>
  /\ Working

-----------------------------------------------------------------------------
(***************************************************************************)
(* downloadWithFallback: cachedDownload and validateHash for the URL, then *)
(* for the fallback if there is one.                                       *)
(***************************************************************************)
Url(s) == <<job[s].part, job[s].mirror>>

\* Seeded fault: no fallback is tried.
MissForGood(s) == GiveUp(s)

\* This mirror is of no use.
Miss(s) ==
  IF job[s].mirror = "main" /\ HasMirror(job[s].part, "fallback")
  THEN Goto(s, "download") /\ job' = [job EXCEPT ![s].mirror = "fallback"]
  ELSE GiveUp(s)

\* Any file that exists in the cache is taken for the download.
CachedDownload(s) ==
  /\ pc[s] = "download"
  /\ Goto(s, IF cache[Url(s)] # "none" THEN "validate" ELSE "fetch")
  /\ temp' = IF cache[Url(s)] # "none" THEN temp
             ELSE [temp EXCEPT ![Url(s)] = "partial"]
  /\ UNCHANGED <<dir, marker, cache, job, hindered>>
  /\ Working

\* Servers may answer with something else.
Fetch(s) ==
  /\ pc[s] = "fetch"
  /\ \/ temp' = [temp EXCEPT ![Url(s)] = "good"] /\ UNCHANGED hindered
     \/ temp' = [temp EXCEPT ![Url(s)] = "bad"] /\ Hinder(s)
  /\ Goto(s, "copy")
  /\ UNCHANGED <<dir, marker, cache, job>>
  /\ Working

FetchFails(s) ==
  /\ pc[s] = "fetch"
  /\ temp' = [temp EXCEPT ![Url(s)] = "none"]
  /\ Hinder(s)
  /\ Miss(s)
  /\ UNCHANGED <<dir, marker, cache>>
  /\ Working

\* copy_file creates the cached file, fills it, and may be cut short or throw.
StartCopy(s) ==
  /\ pc[s] = "copy"
  /\ temp[Url(s)] # "none"
  /\ cache' = [cache EXCEPT ![Url(s)] = "partial"]
  /\ Goto(s, "copying")
  /\ UNCHANGED <<dir, marker, temp, job, hindered>>
  /\ Working

Copy(s) ==
  /\ pc[s] = "copying"
  /\ cache' = [cache EXCEPT ![Url(s)] =
                 IF temp[Url(s)] = "none" THEN "partial" ELSE temp[Url(s)]]
  /\ temp' = [temp EXCEPT ![Url(s)] = "none"]
  /\ Goto(s, "validate")
  /\ UNCHANGED <<dir, marker, job, hindered>>
  /\ Working

CopyFails(s) ==
  /\ pc[s] \in {"copy", "copying"}
  /\ Hinder(s)
  /\ Miss(s)
  /\ UNCHANGED diskVars
  /\ Working

\* Seeded fault: the hash is not compared.
ValidateNothing(s) ==
  /\ pc[s] = "validate"
  /\ Goto(s, "extract")
  /\ UNCHANGED <<diskVars, job, hindered>>
  /\ Working

ValidateHash(s) ==
  /\ pc[s] = "validate"
  /\ IF cache[Url(s)] = "good" THEN Goto(s, "extract") /\ UNCHANGED job
     ELSE Miss(s)
  /\ UNCHANGED <<diskVars, hindered>>
  /\ Working

-----------------------------------------------------------------------------
(***************************************************************************)
(* extractFile and mergeDirectories, for the source or the patch.          *)
(***************************************************************************)
SetPart(s, x) ==
  dir' = IF job[s].part = "source" THEN [dir EXCEPT !.source = x]
         ELSE [dir EXCEPT !.patch = x]

\* After the source comes postSetup: the patch, then the diffs.
PartDone(s) == Goto(s, IF job[s].part = "source" THEN "patch" ELSE "diffs")

StartExtract(s) ==
  /\ pc[s] \in {"extract", "merge"}
  /\ SetPart(s, "partial")
  /\ Goto(s, IF pc[s] = "extract" THEN "extracting" ELSE "merging")
  /\ UNCHANGED <<marker, cache, temp, job, hindered>>
  /\ Working

\* extractFile skips the entries with ".." in their path, which is no failure.
Extract(s) ==
  /\ pc[s] = "extracting"
  /\ SetPart(s, CASE cache[Url(s)] # "good" -> "wrong"
                  [] job[s].part \in wrap.dotted -> "partial"
                  [] OTHER -> "done")
  /\ PartDone(s)
  /\ UNCHANGED <<marker, cache, temp, job, hindered>>
  /\ Working

ExtractFails(s) ==
  /\ pc[s] = "extracting"
  /\ Hinder(s)
  /\ GiveUp(s)
  /\ UNCHANGED diskVars
  /\ Working

Merge(s) ==
  /\ pc[s] = "merging"
  /\ SetPart(s, "done")
  /\ PartDone(s)
  /\ UNCHANGED <<marker, cache, temp, job, hindered>>
  /\ Working

\* The exception is caught and the setup goes on.
MergeFails(s) ==
  /\ ~wrap.readable
  /\ pc[s] = "merging"
  /\ Hinder(s)
  /\ PartDone(s)
  /\ UNCHANGED <<diskVars, job>>
  /\ Working

-----------------------------------------------------------------------------
(***************************************************************************)
(* Wrap::postSetup: applyPatch and applyDiffFiles.                         *)
(***************************************************************************)
ApplyPatch(s) ==
  /\ pc[s] = "patch"
  /\ wrap.patch # "missing"
  /\ job' = [job EXCEPT ![s].part = "patch", ![s].mirror = "main"]
  /\ Goto(s, CASE wrap.patch = "none" -> "diffs"
               [] wrap.patch = "directory" -> "merge"
               [] wrap.patch = "url" -> "download")
  /\ UNCHANGED <<diskVars, hindered>>
  /\ Working

\* The patch directory does not exist, or there is no URL or hash.
ApplyPatchFails(s) ==
  /\ pc[s] = "patch"
  /\ wrap.patch = "missing"
  /\ GiveUp(s)
  /\ UNCHANGED <<diskVars, hindered>>
  /\ Working

\* Seeded fault: one diff too many.
ApplyDiffTooMany(s) ==
  /\ pc[s] = "diffs"
  /\ job[s].diffs <= wrap.diffs
  /\ job' = [job EXCEPT ![s].diffs = @ + 1]
  /\ dir' = [dir EXCEPT !.diffs = job[s].diffs + 1]
  /\ UNCHANGED <<marker, cache, temp, pc, hindered>>
  /\ Working

ApplyDiff(s) ==
  /\ pc[s] = "diffs"
  /\ job[s].diffs < wrap.diffs
  /\ job' = [job EXCEPT ![s].diffs = @ + 1]
  /\ dir' = [dir EXCEPT !.diffs = job[s].diffs + 1]
  /\ UNCHANGED <<marker, cache, temp, pc, hindered>>
  /\ Working

\* git cannot apply it, nor can patch, which is given the directory for it.
ApplyDiffFails(s) ==
  /\ pc[s] = "diffs"
  /\ job[s].diffs < wrap.diffs
  /\ Hinder(s)
  /\ GiveUp(s)
  /\ UNCHANGED diskVars
  /\ Working

\* Branches are pulled, which may fail: then it was a tag.
SetUp(s) ==
  /\ pc[s] = "diffs"
  /\ job[s].diffs = wrap.diffs
  /\ Goto(s, "mark")
  /\ UNCHANGED <<diskVars, job, hindered>>
  /\ Working

\* The marker can only be created in a directory that is still there.
Mark(s) ==
  /\ pc[s] = "mark"
  /\ marker' = dir.made
  /\ Goto(s, "ended")
  /\ UNCHANGED <<dir, cache, temp, job, hindered>>
  /\ Working

\* The subproject is parsed, whether or not it is set up.
End(s) ==
  /\ pc[s] = "ended"
  /\ Goto(s, "idle")
  /\ UNCHANGED <<diskVars, job, hindered>>
  /\ Working

-----------------------------------------------------------------------------
Step(s) ==
  \/ Find(s) \/ DoNotDownload(s)
  \/ RemoveSome(s) \/ RemoveAll(s) \/ CreateDirectories(s)
  \/ CannotSetUp(s) \/ FileWrapSetup(s) \/ VcsWrapSetup(s)
  \/ Run(s) \/ CheckoutFails(s) \/ RunFails(s)
  \/ CachedDownload(s) \/ Fetch(s) \/ FetchFails(s)
  \/ StartCopy(s) \/ Copy(s) \/ CopyFails(s) \/ ValidateHash(s)
  \/ StartExtract(s) \/ Extract(s) \/ ExtractFails(s)
  \/ Merge(s) \/ MergeFails(s)
  \/ ApplyPatch(s) \/ ApplyPatchFails(s)
  \/ ApplyDiff(s) \/ ApplyDiffFails(s)
  \/ SetUp(s) \/ Mark(s) \/ End(s)

Next ==
  \/ \E s \in Setters : Start(s) \/ Crash(s) \/ Step(s)
  \/ /\ attempts = MaxAttempts
     /\ \A s \in Setters : pc[s] = "idle"
     /\ UNCHANGED vars

Spec == Init /\ [][Next]_vars

\* A setup that has begun goes on, unless its process ends.
FairSpec == Spec /\ \A s \in Setters : WF_vars(Step(s))

-----------------------------------------------------------------------------
Labels == {"idle", "find", "remove", "create", "setup", "run", "download",
           "fetch", "copy", "copying", "validate", "extract", "extracting",
           "merge", "merging", "patch", "diffs", "mark", "ended"}
PartStates == {"none", "partial", "wrong", "done"}
CommandNames == {"init", "remote", "fetch", "clone", "checkout", "checkout!",
                 "submodule", "set-url"}

Dirs == [made : BOOLEAN, source : PartStates, patch : PartStates,
         diffs : 0 .. wrap.diffs]
Jobs == [part : Parts, mirror : Mirrors, todo : Seq(CommandNames),
         diffs : 0 .. wrap.diffs]

\* The type of every variable.
TypeOK ==
  /\ wrap \in Wraps
  /\ dir \in Dirs
  /\ marker \in BOOLEAN
  /\ cache \in [Urls -> FileStates]
  /\ temp \in [Urls -> FileStates]
  /\ pc \in [Setters -> Labels]
  /\ job \in [Setters -> Jobs]
  /\ hindered \in [Setters -> BOOLEAN]
  /\ hopeful \in [Setters -> BOOLEAN]
  /\ attempts \in 0 .. MaxAttempts
  /\ crashes \in 0 .. MaxCrashes

\* Everything the wrap asks for is in its directory.
Complete ==
  /\ dir.made
  /\ dir.source = "done"
  /\ dir.patch = IF wrap.patch = "none" THEN "none" ELSE "done"
  /\ dir.diffs = wrap.diffs

\* The wraps whose setup reports every failure: mergeDirectories only logs its
\* errors, extractFile the entries it skips ("zlib..h", or "../zlib.h"), and hg
\* clones stay at the tip, whatever revision the wrap names.
Reporting ==
  /\ wrap.readable /\ wrap.dotted = {}
  /\ wrap.kind = "hg" => wrap.revision = "head"

(***************************************************************************)
(* .fullysetup means what it says: no crash, failed call, damaged download *)
(* or leftover of an earlier attempt leads to an incomplete or unverified  *)
(* directory that every later start would take for a subproject.           *)
(***************************************************************************)
MarkedIsComplete == marker /\ Reporting => Complete

(***************************************************************************)
(* Why it holds for a process on its own: what the directory contains at   *)
(* each point of a setup, which no other setup disturbs.                   *)
(***************************************************************************)
Transfers == {"download", "fetch", "copy", "copying", "validate", "extract",
              "extracting", "merge", "merging"}
Sourcing(s) ==
  \/ pc[s] \in {"setup", "run"}
  \/ pc[s] \in Transfers /\ job[s].part = "source"
Patching(s) ==
  \/ pc[s] = "patch"
  \/ pc[s] \in Transfers /\ job[s].part = "patch"
Finishing(s) == pc[s] \in {"diffs", "mark"}

SourceDone == Reporting => dir.source = "done"
PatchDone == Reporting => dir.patch = IF wrap.patch = "none" THEN "none" ELSE "done"

SetterInv(s) ==
  /\ marker => pc[s] \in {"idle", "find", "ended"} /\ dir.made
  /\ pc[s] = "create" => ~dir.made
  /\ pc[s] \in {"find", "remove", "create", "setup"} => job[s] = NoJob
  /\ Sourcing(s) \/ Patching(s) \/ Finishing(s) => dir.made
  /\ Sourcing(s) => dir.patch = "none" /\ dir.diffs = 0 /\ job[s].diffs = 0
  /\ Patching(s) => SourceDone /\ dir.diffs = 0 /\ job[s].diffs = 0
  /\ pc[s] = "patch" => dir.patch = "none"
  /\ pc[s] \in Transfers /\ job[s].part = "patch" => wrap.patch # "none"
  /\ pc[s] \in {"extract", "extracting"} => cache[Url(s)] = "good"
  /\ Finishing(s) => SourceDone /\ PatchDone /\ dir.diffs = job[s].diffs
  /\ pc[s] = "mark" => job[s].diffs = wrap.diffs
  /\ pc[s] = "run" => job[s].todo # <<>>

SetupInv ==
  /\ MarkedIsComplete
  /\ ~dir.made => dir = Absent
  /\ \A s \in Setters : SetterInv(s)

\* A directory that is set up is never touched again: others may use it.
MarkedUntouched == [][marker => dir' = dir /\ marker']_vars

SetupPossible ==
  /\ wrap.kind # "invalid"
  /\ wrap.kind = "file" => wrap.source # "missing"
  /\ wrap.patch # "missing"

(***************************************************************************)
(* Nothing an earlier attempt left behind stands in the way of the next    *)
(* one, except for damaged files in the download cache: if those can be    *)
(* used and no call fails, the wrap is set up in the end.                  *)
(***************************************************************************)
FaultlessAttemptSucceeds ==
  \A s \in Setters :
    pc[s] = "ended" /\ ~hindered[s] /\ hopeful[s] /\ SetupPossible => marker

(***************************************************************************)
(* CHANGELOG.md: subprojects that were not set up fully are detected and   *)
(* reattempted.  None of them passes for one that is set up.               *)
(***************************************************************************)
UnfinishedDetected ==
  marker /\ (\A s \in Setters : pc[s] = "idle") => Complete

\* No setup goes on for ever, whatever fails in it.
AttemptsEnd == \A s \in Setters : pc[s] # "idle" ~> pc[s] = "idle"
==============================================================================
