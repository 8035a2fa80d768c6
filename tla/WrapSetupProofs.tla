---------------------------- MODULE WrapSetupProofs ----------------------------
(***************************************************************************)
(* Proofs about WrapSetup, for any wraps and any number of attempts and    *)
(* crashes: the types, and for a process on its own that only a complete   *)
(* directory is marked as set up.                                          *)
(***************************************************************************)
EXTENDS WrapSetup, SequenceTheorems, TLAPS

LEMMA WrapType ==
  ASSUME wrap \in Wraps PROVE wrap \in WrapRecords
BY WrapSetupAssumption

LEMMA CommandsType ==
  ASSUME wrap \in WrapRecords, wrap.kind \in {"git", "svn", "hg"}
  PROVE  Commands \in Seq(CommandNames) /\ Commands # <<>>
<1> DEFINE extra == IF wrap.recursive THEN <<"submodule">> ELSE <<>>
           push == IF wrap.push THEN <<"set-url">> ELSE <<>>
<1>1. /\ <<"init", "remote", "fetch", "checkout!">> \in Seq(CommandNames)
      /\ <<"clone">> \in Seq(CommandNames)
      /\ <<"clone", "checkout">> \in Seq(CommandNames)
      /\ <<"clone", "checkout!">> \in Seq(CommandNames)
      /\ <<"checkout!">> \in Seq(CommandNames)
      /\ <<"submodule">> \in Seq(CommandNames)
      /\ <<"set-url">> \in Seq(CommandNames)
      /\ <<>> \in Seq(CommandNames)
  BY DEF CommandNames
<1>2. GitCommands \in Seq(CommandNames) /\ Len(GitCommands) > 0
  BY <1>1 DEF GitCommands, WrapRecords
<1>3. extra \in Seq(CommandNames) /\ push \in Seq(CommandNames)
  BY <1>1
<1> HIDE DEF extra, push
<1>4. /\ GitCommands \o extra \in Seq(CommandNames)
      /\ Len(GitCommands \o extra) > 0
  BY <1>2, <1>3
<1>5. /\ GitCommands \o extra \o push \in Seq(CommandNames)
      /\ Len(GitCommands \o extra \o push) > 0
  BY <1>3, <1>4
<1>6. CASE wrap.kind = "git"
  <2>1. Commands = GitCommands \o extra \o push
    BY <1>6 DEF Commands, extra, push
  <2> QED
    BY <1>5, <2>1
<1>7. CASE wrap.kind \in {"svn", "hg"}
  BY <1>1, <1>7 DEF Commands
<1> QED
  BY <1>6, <1>7

\* A job with another part, mirror, list of programs or count of diffs.
LEMMA JobWith ==
  ASSUME NEW j \in Jobs
  PROVE  /\ \A m \in Mirrors : [j EXCEPT !.mirror = m] \in Jobs
         /\ \A p \in Parts, m \in Mirrors :
              [j EXCEPT !.part = p, !.mirror = m] \in Jobs
         /\ \A t \in Seq(CommandNames) : [j EXCEPT !.todo = t] \in Jobs
         /\ \A d \in 0 .. wrap.diffs : [j EXCEPT !.diffs = d] \in Jobs
BY DEF Jobs

LEMMA StartTypes ==
  ASSUME wrap \in WrapRecords PROVE Absent \in Dirs /\ NoJob \in Jobs
<1>1. <<>> \in Seq(CommandNames)
  OBVIOUS
<1>2. wrap.diffs \in Nat
  BY DEF WrapRecords
<1> QED
  BY <1>1, <1>2
     DEF Absent, NoJob, Dirs, Jobs, PartStates, Parts, Mirrors

LEMMA InitType == Init => TypeOK
<1> SUFFICES ASSUME Init PROVE TypeOK
  OBVIOUS
<1>1. wrap \in Wraps /\ wrap \in WrapRecords
  BY WrapType DEF Init
<1>2. dir \in Dirs /\ job \in [Setters -> Jobs]
  BY <1>1, StartTypes DEF Init
<1>3. pc \in [Setters -> Labels] /\ cache \in [Urls -> FileStates]
      /\ temp \in [Urls -> FileStates]
  BY DEF Init, Labels, FileStates
<1>4. attempts \in 0 .. MaxAttempts /\ crashes \in 0 .. MaxCrashes
  BY WrapSetupAssumption DEF Init
<1> QED
  BY <1>1, <1>2, <1>3, <1>4 DEF Init, TypeOK

LEMMA MissType ==
  ASSUME NEW s \in Setters, pc \in [Setters -> Labels], job \in [Setters -> Jobs],
         Miss(s)
  PROVE  pc' \in [Setters -> Labels] /\ job' \in [Setters -> Jobs]
<1>1. [job[s] EXCEPT !.mirror = "fallback"] \in Jobs
  BY JobWith DEF Mirrors
<1> QED
  BY <1>1 DEF Miss, GiveUp, Goto, Labels

LEMMA StepType ==
  ASSUME TypeOK, NEW s \in Setters, Step(s),
         pc[s] = "run" => job[s].todo # <<>>
  PROVE  TypeOK'
<1> USE DEF TypeOK, Working, Goto, diskVars
<1>0. /\ wrap \in WrapRecords
      /\ UNCHANGED wrap => Dirs' = Dirs /\ Jobs' = Jobs
  BY WrapType DEF Dirs, Jobs
<1>1. CASE Find(s)
  BY <1>0, <1>1 DEF Find, Labels
<1>2. CASE DoNotDownload(s)
  BY <1>0, <1>2 DEF DoNotDownload, GiveUp, Hinder, Labels
<1>3. CASE RemoveSome(s)
  <2>1. /\ dir.source \in PartStates /\ dir.patch \in PartStates
        /\ wrap.diffs \in Nat
    BY <1>0 DEF Dirs, WrapRecords
  <2>2. Damage(dir.source) \in PartStates /\ Damage(dir.patch) \in PartStates
    BY DEF Damage, PartStates
  <2>3. dir' \in Dirs
    BY <1>3, <2>1, <2>2 DEF RemoveSome, Dirs
  <2>4. marker' \in BOOLEAN
    BY <1>3 DEF RemoveSome
  <2> QED
    BY <1>0, <1>3, <2>3, <2>4 DEF RemoveSome
<1>4. CASE RemoveAll(s)
  BY <1>0, <1>4, StartTypes DEF RemoveAll, Labels
<1>5. CASE CreateDirectories(s)
  BY <1>0, <1>5 DEF CreateDirectories, Dirs, Labels
<1>6. CASE CannotSetUp(s)
  BY <1>0, <1>6 DEF CannotSetUp, GiveUp, Labels
<1>7. CASE FileWrapSetup(s)
  BY <1>0, <1>7 DEF FileWrapSetup, Labels
<1>8. CASE VcsWrapSetup(s)
  BY <1>0, <1>8, CommandsType, JobWith DEF VcsWrapSetup, Labels
<1>9. CASE Run(s)
  <2>1. Tail(job[s].todo) \in Seq(CommandNames)
    BY <1>9 DEF Run, Jobs
  <2>2. [job[s] EXCEPT !.todo = Tail(job[s].todo)] \in Jobs
    BY <2>1, JobWith
  <2>3. CheckedOut \in PartStates
    BY DEF CheckedOut, PartStates
  <2> QED
    BY <1>0, <1>9, <2>2, <2>3 DEF Run, Labels, Dirs, PartStates
<1>10. CASE CheckoutFails(s)
  <2>1. Tail(job[s].todo) \in Seq(CommandNames)
    BY <1>10 DEF CheckoutFails, Jobs
  <2>2. <<"fetch", "checkout!">> \in Seq(CommandNames)
    BY DEF CommandNames
  <2>3. <<"fetch", "checkout!">> \o Tail(job[s].todo) \in Seq(CommandNames)
    BY <2>1, <2>2
  <2>4. [job[s] EXCEPT !.todo = <<"fetch", "checkout!">> \o Tail(job[s].todo)]
          \in Jobs
    BY <2>3, JobWith
  <2> QED
    BY <1>0, <1>10, <2>4 DEF CheckoutFails
<1>11. CASE RunFails(s)
  BY <1>0, <1>11 DEF RunFails, GiveUp, Hinder, Labels, Dirs, PartStates
<1>12. CASE CachedDownload(s)
  BY <1>0, <1>12 DEF CachedDownload, Url, Labels, FileStates
<1>13. CASE Fetch(s)
  BY <1>0, <1>13 DEF Fetch, Url, Hinder, Labels, FileStates
<1>14. CASE FetchFails(s)
  BY <1>0, <1>14, MissType DEF FetchFails, Url, Hinder, FileStates
<1>15. CASE StartCopy(s)
  BY <1>0, <1>15 DEF StartCopy, Url, Labels, FileStates
<1>16. CASE Copy(s)
  BY <1>0, <1>16 DEF Copy, Url, Labels, FileStates
<1>17. CASE CopyFails(s)
  BY <1>0, <1>17, MissType DEF CopyFails, Hinder
<1>18. CASE ValidateHash(s)
  <2>1. pc' \in [Setters -> Labels] /\ job' \in [Setters -> Jobs]
    BY <1>18, MissType DEF ValidateHash, Labels
  <2> QED
    BY <1>0, <1>18, <2>1 DEF ValidateHash
<1>19. CASE StartExtract(s)
  BY <1>0, <1>19 DEF StartExtract, SetPart, Labels, Dirs, PartStates
<1>20. CASE Extract(s)
  BY <1>0, <1>20 DEF Extract, SetPart, PartDone, Labels, Dirs, PartStates
<1>21. CASE ExtractFails(s)
  BY <1>0, <1>21 DEF ExtractFails, Hinder, GiveUp, Labels
<1>22. CASE Merge(s)
  BY <1>0, <1>22 DEF Merge, SetPart, PartDone, Labels, Dirs, PartStates
<1>23. CASE MergeFails(s)
  BY <1>0, <1>23 DEF MergeFails, Hinder, PartDone, Labels
<1>24. CASE ApplyPatch(s)
  <2>1. [job[s] EXCEPT !.part = "patch", !.mirror = "main"] \in Jobs
    BY JobWith DEF Parts, Mirrors
  <2>2. pc' \in [Setters -> Labels]
    BY <1>0, <1>24 DEF ApplyPatch, Labels, WrapRecords
  <2>3. job' = [job EXCEPT ![s] = [@ EXCEPT !.part = "patch", !.mirror = "main"]]
    BY <1>24 DEF ApplyPatch
  <2> QED
    BY <1>0, <1>24, <2>1, <2>2, <2>3 DEF ApplyPatch
<1>25. CASE ApplyPatchFails(s)
  BY <1>0, <1>25 DEF ApplyPatchFails, GiveUp, Labels
<1>26. CASE ApplyDiff(s)
  <2>1. job[s].diffs + 1 \in 0 .. wrap.diffs
    BY <1>0, <1>26 DEF ApplyDiff, Jobs, WrapRecords
  <2>2. [job[s] EXCEPT !.diffs = job[s].diffs + 1] \in Jobs
    BY <2>1, JobWith
  <2> QED
    BY <1>0, <1>26, <2>1, <2>2 DEF ApplyDiff, Dirs
<1>27. CASE ApplyDiffFails(s)
  BY <1>0, <1>27 DEF ApplyDiffFails, Hinder, GiveUp, Labels
<1>28. CASE SetUp(s)
  BY <1>0, <1>28 DEF SetUp, Labels
<1>29. CASE Mark(s)
  BY <1>0, <1>29 DEF Mark, Labels, Dirs
<1>30. CASE End(s)
  BY <1>0, <1>30 DEF End, Labels
<1> QED
  BY <1>1, <1>2, <1>3, <1>4, <1>5, <1>6, <1>7, <1>8, <1>9, <1>10, <1>11,
     <1>12, <1>13, <1>14, <1>15, <1>16, <1>17, <1>18, <1>19, <1>20, <1>21,
     <1>22, <1>23, <1>24, <1>25, <1>26, <1>27, <1>28, <1>29, <1>30 DEF Step

-----------------------------------------------------------------------------
(***************************************************************************)
(* A process on its own.                                                   *)
(***************************************************************************)
Alone == \A s, t \in Setters : s = t

LEMMA TailNotEmpty ==
  ASSUME NEW S, NEW q \in Seq(S), q # <<>>, Len(q) # 1
  PROVE  Tail(q) # <<>>
<1>1. Len(q) \in Nat /\ Len(q) # 0
  BY EmptySeq
<1>2. Len(Tail(q)) = Len(q) - 1
  BY HeadTailProperties
<1>3. Len(Tail(q)) # 0
  BY <1>1, <1>2
<1>4. Len(<<>>) = 0
  OBVIOUS
<1> QED
  BY <1>3, <1>4, Zenon

\* What SetterInv says of a setter that works on the directory.
LEMMA Unmarked ==
  ASSUME NEW s \in Setters, SetterInv(s), pc[s] \notin {"idle", "find", "ended"}
  PROVE  ~marker
BY DEF SetterInv

LEMMA StepInv ==
  ASSUME TypeOK, SetupInv, Alone, NEW s \in Setters, Step(s)
  PROVE  SetupInv'
<1> USE DEF Working, Goto, diskVars
<1>1. /\ pc \in [Setters -> Labels] /\ job \in [Setters -> Jobs]
      /\ job[s].part \in Parts
      /\ cache \in [Urls -> FileStates] /\ dir \in Dirs
      /\ wrap \in WrapRecords
  BY WrapType DEF TypeOK, Jobs
<1>2. /\ MarkedIsComplete
      /\ ~dir.made => dir = Absent
      /\ SetterInv(s)
      /\ pc[s] \notin {"idle", "find", "ended"} => ~marker
      /\ UNCHANGED dir => (~dir.made => dir = Absent)'
  BY Unmarked DEF SetupInv
<1>3. SUFFICES MarkedIsComplete' /\ (~dir.made => dir = Absent)' /\ SetterInv(s)'
  BY DEF SetupInv, Alone
<1>4. wrap' = wrap /\ Reporting' = Reporting
  BY DEF Step, Find, DoNotDownload, RemoveSome, RemoveAll, CreateDirectories,
         CannotSetUp, FileWrapSetup, VcsWrapSetup, Run, CheckoutFails, RunFails,
         CachedDownload, Fetch, FetchFails, StartCopy, Copy, CopyFails,
         ValidateHash, StartExtract, Extract, ExtractFails, Merge, MergeFails,
         ApplyPatch, ApplyPatchFails, ApplyDiff, ApplyDiffFails, SetUp, Mark,
         End, Reporting
<1>5. ASSUME ~marker', pc'[s] = "ended" PROVE MarkedIsComplete' /\ SetterInv(s)'
  BY <1>5 DEF SetterInv, MarkedIsComplete, Sourcing, Patching, Finishing, Transfers
<1>6. ASSUME ~marker' PROVE MarkedIsComplete'
  BY <1>6 DEF MarkedIsComplete
<1>7. ASSUME UNCHANGED <<dir, marker>> PROVE MarkedIsComplete'
  BY <1>2, <1>4, <1>7 DEF MarkedIsComplete, Complete
\* Steps inside a transfer, which keep the part that is transferred.
<1>8. ASSUME UNCHANGED <<dir, marker>>, pc[s] \in Transfers, pc'[s] \in Transfers,
             pc'[s] \notin {"extract", "extracting"},
             job'[s].part = job[s].part, job'[s].diffs = job[s].diffs
      PROVE  SetterInv(s)'
  BY <1>2, <1>4, <1>8 DEF SetterInv, Sourcing, Patching, Finishing, Transfers,
     SourceDone
<1>9. ASSUME UNCHANGED <<dir, marker>>, Miss(s), pc[s] \in Transfers
      PROVE  SetterInv(s)' /\ MarkedIsComplete' /\ (~dir.made => dir = Absent)'
  <2>1. /\ pc'[s] \in {"download", "ended"}
        /\ pc'[s] = "download" =>
             job'[s].part = job[s].part /\ job'[s].diffs = job[s].diffs
    BY <1>1, <1>9 DEF Miss, GiveUp, Jobs
  <2>2. ~marker'
    BY <1>2, <1>9 DEF Transfers
  <2> QED
    BY <1>2, <1>5, <1>7, <1>8, <1>9, <2>1, <2>2 DEF Transfers
<1>11. CASE Find(s)
  <2>1. /\ UNCHANGED <<dir, marker, job>>
        /\ pc'[s] = IF marker THEN "ended" ELSE IF dir.made THEN "remove"
                    ELSE "create"
    BY <1>1, <1>11 DEF Find
  <2>2. (marker => dir.made) /\ job[s] = NoJob
    BY <1>2, <1>11 DEF Find, SetterInv
  <2>3. SetterInv(s)'
    BY <2>1, <2>2 DEF SetterInv, Sourcing, Patching, Finishing, Transfers
  <2> QED
    BY <1>2, <1>7, <2>1, <2>3
<1>12. CASE DoNotDownload(s)
  <2>1. pc'[s] = "ended" /\ UNCHANGED <<dir, marker>> /\ ~marker
    BY <1>1, <1>2, <1>12 DEF DoNotDownload, GiveUp, SetterInv
  <2> QED
    BY <1>2, <1>5, <2>1
<1>13. CASE RemoveSome(s)
  <2>1. pc'[s] = "remove" /\ dir'.made /\ UNCHANGED job
    BY <1>1, <1>13 DEF RemoveSome
  <2>2. ~marker /\ marker' \in {marker, FALSE} /\ job[s] = NoJob
    BY <1>2, <1>13 DEF RemoveSome, SetterInv
  <2>3. ~marker'
    BY <2>2, Zenon
  <2> QED
    BY <1>6, <2>1, <2>2, <2>3 DEF SetterInv, Sourcing, Patching, Finishing, Transfers
<1>14. CASE RemoveAll(s)
  <2>1. /\ pc'[s] = "create" /\ ~marker' /\ dir' = Absent
        /\ UNCHANGED job /\ job[s] = NoJob
    BY <1>1, <1>2, <1>14 DEF RemoveAll, SetterInv
  <2> QED
    BY <1>6, <2>1 DEF SetterInv, Sourcing, Patching, Finishing, Transfers, Absent
<1>15. CASE CreateDirectories(s)
  <2>1. pc'[s] = "setup" /\ ~marker' /\ dir'.made /\ job' = job
    BY <1>1, <1>2, <1>15 DEF CreateDirectories, Dirs
  <2>2. dir'.patch = "none" /\ dir'.diffs = 0
    BY <1>1, <1>2, <1>15 DEF CreateDirectories, Dirs, Absent, SetterInv
  <2>3. job[s] = NoJob
    BY <1>2, <1>15 DEF CreateDirectories, SetterInv
  <2> QED
    BY <1>6, <2>1, <2>2, <2>3 DEF SetterInv, Sourcing, Patching, Finishing, Transfers, NoJob
<1>16. CASE CannotSetUp(s)
  <2>1. pc'[s] = "ended" /\ UNCHANGED <<dir, marker>> /\ ~marker
    BY <1>1, <1>2, <1>16 DEF CannotSetUp, GiveUp, SetterInv
  <2> QED
    BY <1>2, <1>5, <2>1
<1>17. CASE FileWrapSetup(s)
  <2>1. /\ pc'[s] \in {"download", "merge"} /\ UNCHANGED <<dir, marker, job>>
        /\ ~marker
    BY <1>1, <1>2, <1>17 DEF FileWrapSetup
  <2>2. dir.made /\ dir.patch = "none" /\ dir.diffs = 0 /\ job[s] = NoJob
    BY <1>2, <1>17 DEF FileWrapSetup, SetterInv, Sourcing
  <2> QED
    BY <1>2, <1>6, <2>1, <2>2 DEF SetterInv, Sourcing, Patching, Finishing, Transfers, NoJob
<1>18. CASE VcsWrapSetup(s)
  <2>1. Commands # <<>>
    BY <1>1, <1>18, CommandsType DEF VcsWrapSetup
  <2>2. /\ pc'[s] = "run" /\ UNCHANGED <<dir, marker>> /\ ~marker
        /\ job'[s].todo = Commands /\ job'[s].diffs = job[s].diffs
    BY <1>1, <1>2, <1>18 DEF VcsWrapSetup, Jobs
  <2>3. dir.made /\ dir.patch = "none" /\ dir.diffs = 0 /\ job[s].diffs = 0
    BY <1>2, <1>18 DEF VcsWrapSetup, SetterInv, Sourcing
  <2> QED
    BY <1>2, <1>6, <2>1, <2>2, <2>3 DEF SetterInv, Sourcing, Patching, Finishing, Transfers
<1>19. CASE Run(s)
  <2>1. /\ dir'.made = dir.made /\ dir'.patch = dir.patch
        /\ dir'.diffs = dir.diffs
        /\ Len(job[s].todo) = 1 => dir'.source = CheckedOut
    BY <1>1, <1>19 DEF Run, Dirs
  <2>2. Reporting => CheckedOut = "done"
    BY DEF CheckedOut, Reporting
  <2>3. /\ job[s].todo \in Seq(CommandNames) /\ job[s].todo # <<>>
        /\ job'[s].diffs = job[s].diffs
        /\ job'[s].todo = Tail(job[s].todo)
    BY <1>1, <1>2, <1>19 DEF Run, Jobs, SetterInv
  <2>4. Len(job[s].todo) # 1 => job'[s].todo # <<>>
    BY <2>3, TailNotEmpty
  <2>5. /\ pc'[s] = IF Len(job[s].todo) = 1 THEN "patch" ELSE "run"
        /\ ~marker'
    BY <1>1, <1>2, <1>19 DEF Run
  <2>6. dir.made /\ dir.patch = "none" /\ dir.diffs = 0 /\ job[s].diffs = 0
    BY <1>2, <1>19 DEF Run, SetterInv, Sourcing
  <2>7. CASE Len(job[s].todo) = 1
    BY <1>4, <1>6, <2>1, <2>2, <2>3, <2>5, <2>6, <2>7 DEF SetterInv, Sourcing, Patching, Finishing, Transfers, SourceDone
  <2>8. CASE Len(job[s].todo) # 1
    BY <1>6, <2>1, <2>3, <2>4, <2>5, <2>6, <2>8 DEF SetterInv, Sourcing, Patching, Finishing, Transfers
  <2> QED
    BY <2>7, <2>8
<1>20. CASE CheckoutFails(s)
  <2>1. /\ pc'[s] = "run" /\ UNCHANGED <<dir, marker>> /\ ~marker
        /\ job'[s].diffs = job[s].diffs
        /\ job'[s].todo = <<"fetch", "checkout!">> \o Tail(job[s].todo)
    BY <1>1, <1>2, <1>20 DEF CheckoutFails, Jobs
  <2>2. dir.made /\ dir.patch = "none" /\ dir.diffs = 0 /\ job[s].diffs = 0
        /\ job[s].todo \in Seq(CommandNames) /\ job[s].todo # <<>>
    BY <1>1, <1>2, <1>20 DEF CheckoutFails, SetterInv, Sourcing, Jobs
  <2>3. job'[s].todo # <<>>
    BY <2>1, <2>2
  <2> QED
    BY <1>2, <1>6, <2>1, <2>2, <2>3 DEF SetterInv, Sourcing, Patching, Finishing, Transfers
<1>21. CASE RunFails(s)
  <2>1. pc'[s] = "ended" /\ ~marker'
    BY <1>1, <1>2, <1>21 DEF RunFails, GiveUp
  <2>2. dir.made
    BY <1>2, <1>21 DEF RunFails, SetterInv, Sourcing
  <2>3. dir'.made
    BY <1>1, <2>2, <1>21 DEF RunFails, Dirs
  <2> QED
    BY <1>5, <2>1, <2>3
<1>22. CASE CachedDownload(s)
  <2>1. /\ pc'[s] \in {"fetch", "validate"} /\ UNCHANGED <<dir, marker, job>> /\ ~marker
        /\ pc[s] \in Transfers /\ pc'[s] \in Transfers
    BY <1>1, <1>2, <1>22 DEF CachedDownload, Transfers
  <2> QED
    BY <1>2, <1>6, <1>8, <2>1
<1>23. CASE Fetch(s)
  <2>1. /\ pc'[s] \in {"copy"} /\ UNCHANGED <<dir, marker, job>> /\ ~marker
        /\ pc[s] \in Transfers /\ pc'[s] \in Transfers
    BY <1>1, <1>2, <1>23 DEF Fetch, Transfers
  <2> QED
    BY <1>2, <1>6, <1>8, <2>1
<1>24. CASE FetchFails(s)
  <2>1. UNCHANGED <<dir, marker>> /\ pc[s] \in Transfers /\ Miss(s)
    BY <1>24 DEF FetchFails, Transfers
  <2> QED
    BY <1>9, <2>1
<1>25. CASE StartCopy(s)
  <2>1. /\ pc'[s] \in {"copying"} /\ UNCHANGED <<dir, marker, job>> /\ ~marker
        /\ pc[s] \in Transfers /\ pc'[s] \in Transfers
    BY <1>1, <1>2, <1>25 DEF StartCopy, Transfers
  <2> QED
    BY <1>2, <1>6, <1>8, <2>1
<1>26. CASE Copy(s)
  <2>1. /\ pc'[s] \in {"validate"} /\ UNCHANGED <<dir, marker, job>> /\ ~marker
        /\ pc[s] \in Transfers /\ pc'[s] \in Transfers
    BY <1>1, <1>2, <1>26 DEF Copy, Transfers
  <2> QED
    BY <1>2, <1>6, <1>8, <2>1
<1>27. CASE CopyFails(s)
  <2>1. UNCHANGED <<dir, marker>> /\ pc[s] \in Transfers /\ Miss(s)
    BY <1>27 DEF CopyFails, Transfers
  <2> QED
    BY <1>9, <2>1
<1>28. CASE ValidateHash(s)
  <2>1. CASE cache[Url(s)] = "good"
    <3>1. pc'[s] = "extract" /\ UNCHANGED <<dir, marker, job, cache>> /\ ~marker
      BY <1>1, <1>2, <2>1, <1>28 DEF ValidateHash
    <3> QED
      BY <1>2, <1>4, <1>6, <2>1, <3>1, <1>28 DEF ValidateHash, SetterInv, Sourcing, Patching, Finishing, Transfers, SourceDone,
         Url
  <2>2. CASE cache[Url(s)] # "good"
    <3>1. UNCHANGED <<dir, marker>> /\ pc[s] \in Transfers /\ Miss(s)
      BY <1>28, <2>2 DEF ValidateHash, Transfers
    <3> QED
      BY <1>9, <3>1
  <2> QED
    BY <2>1, <2>2
<1>29. CASE StartExtract(s)
  <2>1. /\ pc'[s] = IF pc[s] = "extract" THEN "extracting" ELSE "merging"
        /\ ~marker' /\ UNCHANGED <<job, cache>>
    BY <1>1, <1>2, <1>29 DEF StartExtract
  <2>2. /\ dir'.made = dir.made /\ dir'.diffs = dir.diffs
        /\ job[s].part = "source" => dir'.patch = dir.patch
        /\ job[s].part = "patch" => dir'.source = dir.source
    BY <1>1, <1>29 DEF StartExtract, SetPart, Dirs
  <2>3. dir.made /\ dir.diffs = 0 /\ job[s].diffs = 0
    BY <1>1, <1>2, <1>29 DEF StartExtract, SetterInv, Sourcing, Patching, Finishing, Transfers, Parts
  <2>4. CASE job[s].part = "source"
    <3>1. dir.patch = "none"
      BY <1>2, <2>4, <1>29 DEF StartExtract, SetterInv, Sourcing, Patching, Finishing, Transfers
    <3> QED
      BY <1>2, <1>6, <2>1, <2>2, <2>3, <2>4, <3>1, <1>29 DEF StartExtract, SetterInv, Sourcing, Patching, Finishing, Transfers, Url
  <2>5. CASE job[s].part = "patch"
    <3>1. SourceDone /\ wrap.patch # "none"
      BY <1>2, <2>5, <1>29 DEF StartExtract, SetterInv, Sourcing, Patching, Finishing, Transfers
    <3> QED
      BY <1>2, <1>4, <1>6, <2>1, <2>2, <2>3, <2>5, <3>1, <1>29
         DEF StartExtract, SetterInv, Sourcing, Patching, Finishing, Transfers, SourceDone, Url
  <2> QED
    BY <1>1, <2>4, <2>5 DEF Parts
<1>30. CASE Extract(s)
  <2>0. cache[Url(s)] = "good"
    BY <1>2, <1>30 DEF Extract, SetterInv
  <2>1. /\ pc'[s] = IF job[s].part = "source" THEN "patch" ELSE "diffs"
        /\ ~marker' /\ UNCHANGED job
    BY <1>1, <1>2, <1>30 DEF Extract, PartDone
  <2>2. /\ dir'.made = dir.made /\ dir'.diffs = dir.diffs
        /\ job[s].part = "source" =>
             (Reporting => dir'.source = "done") /\ dir'.patch = dir.patch
        /\ job[s].part = "patch" =>
             (Reporting => dir'.patch = "done") /\ dir'.source = dir.source
    BY <1>1, <2>0, <1>30 DEF Extract, SetPart, Dirs, Reporting
  <2>3. dir.made /\ dir.diffs = 0 /\ job[s].diffs = 0
    BY <1>1, <1>2, <1>30 DEF Extract, SetterInv, Sourcing, Patching, Finishing, Transfers, Parts
  <2>4. CASE job[s].part = "source"
    <3>1. dir.patch = "none"
      BY <1>2, <2>4, <1>30 DEF Extract, SetterInv, Sourcing, Patching, Finishing, Transfers
    <3> QED
      BY <1>4, <1>6, <2>1, <2>2, <2>3, <2>4, <3>1 DEF SetterInv, Sourcing, Patching, Finishing, Transfers, SourceDone
  <2>5. CASE job[s].part = "patch"
    <3>1. SourceDone /\ wrap.patch # "none"
      BY <1>2, <2>5, <1>30 DEF Extract, SetterInv, Sourcing, Patching, Finishing, Transfers
    <3> QED
      BY <1>4, <1>6, <2>1, <2>2, <2>3, <2>5, <3>1
         DEF SetterInv, Sourcing, Patching, Finishing, Transfers, SourceDone, PatchDone
  <2> QED
    BY <1>1, <2>4, <2>5 DEF Parts
<1>31. CASE ExtractFails(s)
  <2>1. pc'[s] = "ended" /\ UNCHANGED <<dir, marker>> /\ ~marker
    BY <1>1, <1>2, <1>31 DEF ExtractFails, GiveUp, SetterInv
  <2> QED
    BY <1>2, <1>5, <2>1
<1>32. CASE Merge(s)
  <2>1. /\ pc'[s] = IF job[s].part = "source" THEN "patch" ELSE "diffs"
        /\ ~marker' /\ UNCHANGED job
    BY <1>1, <1>2, <1>32 DEF Merge, PartDone
  <2>2. /\ dir'.made = dir.made /\ dir'.diffs = dir.diffs
        /\ job[s].part = "source" => dir'.source = "done" /\ dir'.patch = dir.patch
        /\ job[s].part = "patch" => dir'.patch = "done" /\ dir'.source = dir.source
    BY <1>1, <1>32 DEF Merge, SetPart, Dirs
  <2>3. dir.made /\ dir.diffs = 0 /\ job[s].diffs = 0
    BY <1>1, <1>2, <1>32 DEF Merge, SetterInv, Sourcing, Patching, Finishing, Transfers, Parts
  <2>4. CASE job[s].part = "source"
    <3>1. dir.patch = "none"
      BY <1>2, <2>4, <1>32 DEF Merge, SetterInv, Sourcing, Patching, Finishing, Transfers
    <3> QED
      BY <1>6, <2>1, <2>2, <2>3, <2>4, <3>1 DEF SetterInv, Sourcing, Patching, Finishing, Transfers, SourceDone
  <2>5. CASE job[s].part = "patch"
    <3>1. SourceDone /\ wrap.patch # "none"
      BY <1>2, <2>5, <1>32 DEF Merge, SetterInv, Sourcing, Patching, Finishing, Transfers
    <3> QED
      BY <1>4, <1>6, <2>1, <2>2, <2>3, <2>5, <3>1
         DEF SetterInv, Sourcing, Patching, Finishing, Transfers, SourceDone, PatchDone
  <2> QED
    BY <1>1, <2>4, <2>5 DEF Parts
<1>33. CASE MergeFails(s)
  <2>1. ~Reporting
    BY <1>33 DEF MergeFails, Reporting
  <2>2. /\ pc'[s] = IF job[s].part = "source" THEN "patch" ELSE "diffs"
        /\ UNCHANGED <<dir, marker, job>> /\ ~marker
    BY <1>1, <1>2, <1>33 DEF MergeFails, PartDone
  <2>3. /\ dir.made /\ dir.diffs = 0 /\ job[s].diffs = 0
        /\ job[s].part = "source" => dir.patch = "none"
    BY <1>1, <1>2, <1>33 DEF MergeFails, SetterInv, Sourcing, Patching, Finishing, Transfers, Parts
  <2> QED
    BY <1>1, <1>2, <1>4, <1>6, <2>1, <2>2, <2>3
       DEF SetterInv, Sourcing, Patching, Finishing, Transfers, SourceDone, PatchDone, Parts
<1>34. CASE ApplyPatch(s)
  <2>1. /\ job'[s].part = "patch" /\ job'[s].diffs = job[s].diffs
        /\ UNCHANGED <<dir, marker>> /\ ~marker
    BY <1>1, <1>2, <1>34 DEF ApplyPatch, Jobs
  <2>2. pc'[s] = CASE wrap.patch = "none" -> "diffs"
                   [] wrap.patch = "directory" -> "merge"
                   [] wrap.patch = "url" -> "download"
    BY <1>1, <1>34 DEF ApplyPatch
  <2>3. wrap.patch \in {"none", "directory", "url"}
    BY <1>1, <1>34 DEF ApplyPatch, WrapRecords
  <2>4. /\ dir.made /\ dir.diffs = 0 /\ job[s].diffs = 0 /\ SourceDone
        /\ dir.patch = "none"
    BY <1>2, <1>34 DEF ApplyPatch, SetterInv, Sourcing, Patching, Finishing, Transfers
  <2>5. CASE wrap.patch = "none"
    <3>1. pc'[s] = "diffs"
      BY <2>2, <2>5
    <3> QED
      BY <1>2, <1>4, <1>6, <2>1, <2>4, <2>5, <3>1
         DEF SetterInv, Sourcing, Patching, Finishing, Transfers, SourceDone, PatchDone
  <2>6. CASE wrap.patch # "none"
    <3>1. pc'[s] \in {"merge", "download"}
      BY <2>2, <2>3, <2>6
    <3> QED
      BY <1>2, <1>4, <1>6, <2>1, <2>4, <2>6, <3>1 DEF SetterInv, Sourcing, Patching, Finishing, Transfers, SourceDone
  <2> QED
    BY <2>5, <2>6
<1>35. CASE ApplyPatchFails(s)
  <2>1. pc'[s] = "ended" /\ UNCHANGED <<dir, marker>> /\ ~marker
    BY <1>1, <1>2, <1>35 DEF ApplyPatchFails, GiveUp, SetterInv
  <2> QED
    BY <1>2, <1>5, <2>1
<1>36. CASE ApplyDiff(s)
  <2>1. pc'[s] = "diffs" /\ ~marker'
    BY <1>1, <1>2, <1>36 DEF ApplyDiff
  <2>2. /\ dir'.made = dir.made /\ dir'.source = dir.source
        /\ dir'.patch = dir.patch /\ dir'.diffs = job[s].diffs + 1
        /\ job'[s].diffs = job[s].diffs + 1
    BY <1>1, <1>36 DEF ApplyDiff, Dirs, Jobs
  <2>3. SourceDone /\ PatchDone /\ dir.made
    BY <1>2, <1>36 DEF ApplyDiff, SetterInv, Finishing
  <2> QED
    BY <1>4, <1>6, <2>1, <2>2, <2>3 DEF SetterInv, Sourcing, Patching, Finishing, Transfers, SourceDone, PatchDone
<1>37. CASE ApplyDiffFails(s)
  <2>1. pc'[s] = "ended" /\ UNCHANGED <<dir, marker>> /\ ~marker
    BY <1>1, <1>2, <1>37 DEF ApplyDiffFails, GiveUp, SetterInv
  <2> QED
    BY <1>2, <1>5, <2>1
<1>38. CASE SetUp(s)
  <2>1. /\ pc'[s] = "mark" /\ UNCHANGED <<dir, marker, job>> /\ ~marker
        /\ job[s].diffs = wrap.diffs
    BY <1>1, <1>2, <1>38 DEF SetUp
  <2>2. SourceDone /\ PatchDone /\ dir.made /\ dir.diffs = job[s].diffs
    BY <1>2, <1>38 DEF SetUp, SetterInv, Finishing
  <2> QED
    BY <1>2, <1>4, <1>6, <2>1, <2>2 DEF SetterInv, Sourcing, Patching, Finishing, Transfers, SourceDone, PatchDone
<1>39. CASE Mark(s)
  <2>1. SourceDone /\ PatchDone /\ dir.made /\ dir.diffs = wrap.diffs
    BY <1>2, <1>39 DEF Mark, SetterInv, Finishing
  <2>2. pc'[s] = "ended" /\ UNCHANGED dir
    BY <1>1, <1>39 DEF Mark
  <2> QED
    BY <1>2, <1>4, <2>1, <2>2
       DEF SetterInv, Sourcing, Patching, Finishing, Transfers, SourceDone, PatchDone, MarkedIsComplete, Complete
<1>40. CASE End(s)
  <2>1. pc'[s] = "idle" /\ UNCHANGED <<dir, marker>>
    BY <1>1, <1>40 DEF End
  <2> QED
    BY <1>2, <1>4, <1>7, <2>1 DEF SetterInv, Sourcing, Patching, Finishing, Transfers
<1> QED
  BY <1>3, <1>11, <1>12, <1>13, <1>14, <1>15, <1>16, <1>17, <1>18, <1>19,
     <1>20, <1>21, <1>22, <1>23, <1>24, <1>25, <1>26, <1>27, <1>28, <1>29,
     <1>30, <1>31, <1>32, <1>33, <1>34, <1>35, <1>36, <1>37, <1>38, <1>39,
     <1>40 DEF Step

LEMMA StartInv ==
  ASSUME TypeOK, SetupInv, Alone, NEW s \in Setters, Start(s) \/ Crash(s)
  PROVE  SetupInv'
<1>1. pc \in [Setters -> Labels] /\ job \in [Setters -> Jobs]
  BY DEF TypeOK
<1>2. UNCHANGED <<wrap, dir, marker>>
  BY DEF Start, Crash, diskVars
<1>3. /\ pc'[s] \in {"find", "idle"}
      /\ pc'[s] = "find" => job'[s] = NoJob
  BY <1>1 DEF Start, Crash, Goto
<1>4. MarkedIsComplete' /\ (~dir.made => dir = Absent)'
  BY <1>2 DEF SetupInv, MarkedIsComplete, Reporting, Complete
<1>5. marker => dir.made
  BY DEF SetupInv, SetterInv
<1>6. SetterInv(s)'
  BY <1>2, <1>3, <1>5 DEF SetterInv, Sourcing, Patching, Finishing, Transfers
<1> QED
  BY <1>4, <1>6 DEF SetupInv, Alone

LEMMA InitInv == Init => SetupInv
BY DEF Init, SetupInv, MarkedIsComplete, Absent, SetterInv, Sourcing, Patching,
       Finishing, Transfers

LEMMA StutterInv ==
  ASSUME SetupInv, UNCHANGED vars PROVE SetupInv'
<1>1. \A s \in Setters : SetterInv(s)'
  BY DEF SetupInv, vars, diskVars, SetterInv, Sourcing, Patching, Finishing,
         Transfers, SourceDone, PatchDone, Reporting, Url
<1> QED
  BY <1>1 DEF SetupInv, vars, diskVars, MarkedIsComplete, Reporting, Complete

-----------------------------------------------------------------------------
(***************************************************************************)
(* The types, for any number of processes: a setter that runs programs has *)
(* one left to run.                                                        *)
(***************************************************************************)
Running == \A s \in Setters : pc[s] = "run" => job[s].todo # <<>>

LEMMA StepRunning ==
  ASSUME TypeOK, Running, NEW s \in Setters, Step(s)
  PROVE  Running'
<1>1. /\ pc \in [Setters -> Labels] /\ job \in [Setters -> Jobs]
      /\ wrap \in WrapRecords
  BY WrapType DEF TypeOK
<1>2. \A t \in Setters \ {s} : pc'[t] = pc[t] /\ job'[t] = job[t]
  BY <1>1
     DEF Step, Find, DoNotDownload, RemoveSome, RemoveAll, CreateDirectories,
         CannotSetUp, FileWrapSetup, VcsWrapSetup, Run, CheckoutFails, RunFails,
         CachedDownload, Fetch, FetchFails, StartCopy, Copy, CopyFails,
         ValidateHash, StartExtract, Extract, ExtractFails, Merge, MergeFails,
         ApplyPatch, ApplyPatchFails, ApplyDiff, ApplyDiffFails, SetUp, Mark,
         End, Goto, GiveUp, Miss, PartDone
<1>3. SUFFICES ASSUME pc'[s] = "run" PROVE job'[s].todo # <<>>
  BY <1>2 DEF Running
<1>4. VcsWrapSetup(s) \/ Run(s) \/ CheckoutFails(s)
  <2>1. \/ VcsWrapSetup(s) \/ Run(s) \/ CheckoutFails(s)
        \/ pc'[s] # "run"
    <3>1. CASE ApplyPatch(s)
      BY <1>1, <3>1 DEF ApplyPatch, Goto, WrapRecords
    <3>2. CASE ~ApplyPatch(s)
      BY <1>1, <3>2
         DEF Step, Find, DoNotDownload, RemoveSome, RemoveAll,
             CreateDirectories, CannotSetUp, FileWrapSetup, RunFails,
             CachedDownload, Fetch, FetchFails, StartCopy, Copy, CopyFails,
             ValidateHash, StartExtract, Extract, ExtractFails, Merge,
             MergeFails, ApplyPatchFails, ApplyDiff, ApplyDiffFails, SetUp,
             Mark, End, Goto, GiveUp, Miss, PartDone
    <3> QED
      BY <3>1, <3>2
  <2> QED
    BY <1>3, <2>1
<1>5. CASE VcsWrapSetup(s)
  <2>1. Commands # <<>>
    BY <1>1, <1>5, CommandsType DEF VcsWrapSetup
  <2> QED
    BY <1>1, <1>5, <2>1 DEF VcsWrapSetup, Jobs
<1>6. CASE Run(s)
  <2>1. job[s].todo \in Seq(CommandNames) /\ job[s].todo # <<>>
    BY <1>1, <1>6 DEF Run, Running, Jobs
  <2>2. Len(job[s].todo) # 1 /\ job'[s].todo = Tail(job[s].todo)
    BY <1>1, <1>3, <1>6 DEF Run, Goto, Jobs
  <2> QED
    BY <2>1, <2>2, TailNotEmpty
<1>7. CASE CheckoutFails(s)
  <2>1. /\ job[s].todo \in Seq(CommandNames) /\ job[s].todo # <<>>
        /\ job'[s].todo = <<"fetch", "checkout!">> \o Tail(job[s].todo)
    BY <1>1, <1>7 DEF CheckoutFails, Running, Jobs
  <2> QED
    BY <2>1
<1> QED
  BY <1>4, <1>5, <1>6, <1>7

\* The type invariant holds whatever wraps there are and however many
\* processes set them up: a setup never runs past its last program, and counts
\* no diff the wrap does not name.
THEOREM WrapTypeCorrect == Spec => []TypeOK
<1>1. Init => TypeOK /\ Running
  BY InitType DEF Init, Running
<1>2. TypeOK /\ Running /\ [Next]_vars => (TypeOK /\ Running)'
  <2> SUFFICES ASSUME TypeOK, Running, [Next]_vars PROVE (TypeOK /\ Running)'
    OBVIOUS
  <2>1. ASSUME NEW s \in Setters, Step(s) PROVE (TypeOK /\ Running)'
    BY <2>1, StepType, StepRunning DEF Running
  <2>2. ASSUME NEW s \in Setters, Start(s) PROVE (TypeOK /\ Running)'
    <3>1. NoJob \in Jobs /\ wrap' = wrap /\ Dirs' = Dirs /\ Jobs' = Jobs
      BY <2>2, StartTypes, WrapType DEF TypeOK, Start, Dirs, Jobs
    <3>2. job' \in [Setters -> Jobs] /\ pc' \in [Setters -> Labels]
      BY <2>2, <3>1 DEF TypeOK, Start, Goto, Labels
    <3>3. hopeful' \in [Setters -> BOOLEAN] /\ hindered' \in [Setters -> BOOLEAN]
      BY <2>2 DEF TypeOK, Start, CacheUsable
    <3>4. attempts' \in 0 .. MaxAttempts
      BY <2>2, WrapSetupAssumption DEF TypeOK, Start
    <3>5. Running'
      BY <2>2 DEF Running, TypeOK, Start, Goto
    <3> QED
      BY <2>2, <3>1, <3>2, <3>3, <3>4, <3>5 DEF TypeOK, Start, diskVars
  <2>3. ASSUME NEW s \in Setters, Crash(s) PROVE (TypeOK /\ Running)'
    <3>1. wrap' = wrap /\ Dirs' = Dirs /\ Jobs' = Jobs
      BY <2>3 DEF Crash, Dirs, Jobs
    <3>2. crashes' \in 0 .. MaxCrashes
      BY <2>3, WrapSetupAssumption DEF TypeOK, Crash
    <3>3. Running'
      BY <2>3 DEF Running, TypeOK, Crash, Goto
    <3> QED
      BY <2>3, <3>1, <3>2, <3>3 DEF TypeOK, Crash, Goto, Labels, diskVars
  <2>4. ASSUME UNCHANGED vars PROVE (TypeOK /\ Running)'
    BY <2>4 DEF TypeOK, Running, vars, diskVars, Dirs, Jobs
  <2> QED
    BY <2>1, <2>2, <2>3, <2>4 DEF Next
<1> QED
  BY <1>1, <1>2, PTL DEF Spec

-----------------------------------------------------------------------------
(***************************************************************************)
(* What the marker promises.                                               *)
(***************************************************************************)
LEMMA NextInv ==
  ASSUME TypeOK, SetupInv, Alone, [Next]_vars PROVE SetupInv'
BY StepInv, StartInv, StutterInv DEF Next

\* SetupInv is inductive for a process on its own.
THEOREM SetupInvariant ==
  ASSUME Alone PROVE Spec => []SetupInv
<1>1. TypeOK /\ SetupInv /\ [Next]_vars => SetupInv'
  BY NextInv
<1> QED
  BY <1>1, InitInv, WrapTypeCorrect, PTL DEF Spec

\* A directory with a .fullysetup holds all the wrap asks for, verified and
\* patched, after any number of crashes, failed calls and leftovers, for every
\* wrap whose setup reports its failures.
THEOREM MarkedComplete ==
  ASSUME Alone PROVE Spec => []MarkedIsComplete
<1>1. SetupInv => MarkedIsComplete
  BY DEF SetupInv
<1> QED
  BY <1>1, SetupInvariant, PTL

LEMMA StepUntouched ==
  ASSUME TypeOK, SetupInv, Alone, NEW s \in Setters, Step(s), marker
  PROVE  dir' = dir /\ marker'
<1>1. pc[s] \in {"idle", "find", "ended"} /\ dir.made
  BY DEF SetupInv, SetterInv
<1>2. Find(s) \/ End(s)
  BY <1>1 DEF Step, Find, DoNotDownload, RemoveSome, RemoveAll,
         CreateDirectories, CannotSetUp, FileWrapSetup, VcsWrapSetup, Run,
         CheckoutFails, RunFails, CachedDownload, Fetch, FetchFails, StartCopy,
         Copy, CopyFails, ValidateHash, StartExtract, Extract, ExtractFails,
         Merge, MergeFails, ApplyPatch, ApplyPatchFails, ApplyDiff,
         ApplyDiffFails, SetUp, Mark, End
<1> QED
  BY <1>2 DEF Find, End, diskVars

\* Once it is marked, a directory is never changed: open files of the
\* subproject do not disappear under a server that was restarted.
THEOREM MarkedStays ==
  ASSUME Alone PROVE Spec => MarkedUntouched
<1>1. TypeOK /\ SetupInv /\ [Next]_vars => [marker => dir' = dir /\ marker']_vars
  <2> SUFFICES ASSUME TypeOK, SetupInv, Next, marker PROVE dir' = dir /\ marker'
    OBVIOUS
  <2>1. ASSUME NEW s \in Setters, Start(s) \/ Crash(s)
        PROVE  dir' = dir /\ marker'
    BY <2>1 DEF Start, Crash, diskVars
  <2> QED
    BY <2>1, StepUntouched DEF Next, vars, diskVars
<1> QED
  BY <1>1, SetupInvariant, WrapTypeCorrect, PTL DEF Spec, MarkedUntouched
================================================================================
