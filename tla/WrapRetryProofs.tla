---------------------------- MODULE WrapRetryProofs ----------------------------
(***************************************************************************)
(* What earlier attempts leave behind does not stand in the way of a later *)
(* one: an attempt in which no call fails sets the wrap up, whatever the   *)
(* directory and the temporary files contain, unless every copy of some    *)
(* download in the cache is damaged.  And every attempt has an end: no     *)
(* setup takes more than so many steps.                                    *)
(***************************************************************************)
EXTENDS WrapSetupProofs

USE DEF Working, Goto, diskVars

\* An attempt on the way to a marker.
Unhindered(s) == ~hindered[s] /\ hopeful[s] /\ SetupPossible /\ pc[s] # "idle"

Usable(u) == cache[u] \in {"none", "good"}
MirrorLeft(p) == \E m \in Mirrors : HasMirror(p, m) /\ Usable(<<p, m>>)

FallbackLeft(s) ==
  /\ job[s].mirror = "main"
  /\ HasMirror(job[s].part, "fallback")
  /\ Usable(<<job[s].part, "fallback">>)

Downloading == {"download", "fetch", "copy", "copying", "validate"}

\* The mirror that is tried will do, or another one is left, for the present
\* download and for those to come.
Promise(s) ==
  /\ pc[s] \in Downloading => HasMirror(job[s].part, job[s].mirror)
  /\ pc[s] = "download" => Usable(Url(s)) \/ FallbackLeft(s)
  /\ pc[s] \in {"copy", "copying"} => temp[Url(s)] = "good"
  /\ pc[s] = "validate" => cache[Url(s)] = "good" \/ FallbackLeft(s)
  /\ \A q \in Parts :
       MirrorLeft(q) \/ (pc[s] \in Downloading /\ q = job[s].part)
  /\ pc[s] = "ended" => marker

Promises == \A s \in Setters : Unhindered(s) => Promise(s)

LEMMA MirrorsLeft ==
  ASSUME NEW p, MirrorLeft(p)
  PROVE  \/ Usable(<<p, "main">>)
         \/ HasMirror(p, "fallback") /\ Usable(<<p, "fallback">>)
BY DEF MirrorLeft, Mirrors

\* Steps that have nothing to do with downloads.
Elsewhere(s) ==
  \/ Find(s) \/ RemoveSome(s) \/ RemoveAll(s) \/ CreateDirectories(s)
  \/ VcsWrapSetup(s) \/ Run(s) \/ CheckoutFails(s)
  \/ StartExtract(s) \/ Extract(s) \/ Merge(s)
  \/ ApplyDiff(s) \/ SetUp(s) \/ Mark(s) \/ End(s)

LEMMA Hinders ==
  ASSUME TypeOK, NEW s \in Setters, Step(s), Unhindered(s)'
  PROVE  /\ Unhindered(s)
         /\ \/ Elsewhere(s) \/ FileWrapSetup(s) \/ ApplyPatch(s)
            \/ CachedDownload(s) \/ StartCopy(s) \/ Copy(s) \/ ValidateHash(s)
            \/ Fetch(s) /\ temp' = [temp EXCEPT ![Url(s)] = "good"]
<1>1. hindered \in [Setters -> BOOLEAN] /\ wrap' = wrap /\ hopeful' = hopeful
  BY DEF TypeOK, Step, Find, DoNotDownload, RemoveSome, RemoveAll, CreateDirectories,
         CannotSetUp, FileWrapSetup, VcsWrapSetup, Run, CheckoutFails, RunFails,
         CachedDownload, Fetch, FetchFails, StartCopy, Copy, CopyFails,
         ValidateHash, StartExtract, Extract, ExtractFails, Merge, MergeFails,
         ApplyPatch, ApplyPatchFails, ApplyDiff, ApplyDiffFails, SetUp, Mark, End
<1>2. ~hindered'[s] /\ hopeful[s] /\ SetupPossible /\ pc[s] # "idle"
  <2>1. pc[s] # "idle"
    BY DEF Step, Find, DoNotDownload, RemoveSome, RemoveAll, CreateDirectories,
         CannotSetUp, FileWrapSetup, VcsWrapSetup, Run, CheckoutFails, RunFails,
         CachedDownload, Fetch, FetchFails, StartCopy, Copy, CopyFails,
         ValidateHash, StartExtract, Extract, ExtractFails, Merge, MergeFails,
         ApplyPatch, ApplyPatchFails, ApplyDiff, ApplyDiffFails, SetUp, Mark, End
  <2> QED BY <1>1, <2>1 DEF Unhindered, SetupPossible
<1>3. ~(DoNotDownload(s) \/ RunFails(s) \/ FetchFails(s) \/ CopyFails(s)
         \/ ExtractFails(s) \/ MergeFails(s) \/ ApplyDiffFails(s))
  BY <1>1, <1>2 DEF DoNotDownload, RunFails, FetchFails, CopyFails, ExtractFails,
                    MergeFails, ApplyDiffFails, Hinder
<1>4. ~(CannotSetUp(s) \/ ApplyPatchFails(s))
  BY <1>2 DEF CannotSetUp, ApplyPatchFails, SetupPossible
<1>5. Fetch(s) => temp' = [temp EXCEPT ![Url(s)] = "good"]
  BY <1>1, <1>2 DEF Fetch, Hinder
<1>6. ~hindered[s]
  BY <1>1, <1>2, <1>3, <1>4
  DEF Step, Find, RemoveSome, RemoveAll, CreateDirectories, FileWrapSetup,
      VcsWrapSetup, Run, CheckoutFails, CachedDownload, Fetch, Hinder, StartCopy,
      Copy, ValidateHash, StartExtract, Extract, Merge, ApplyPatch, ApplyDiff,
      SetUp, Mark, End
<1> QED
  BY <1>2, <1>3, <1>4, <1>5, <1>6 DEF Step, Elsewhere, Unhindered

LEMMA ElsewhereKeeps ==
  ASSUME TypeOK, SetupInv, NEW s \in Setters, Elsewhere(s), Promise(s)
  PROVE  Promise(s)'
<1>1. /\ pc \in [Setters -> Labels] /\ UNCHANGED <<wrap, cache>>
      /\ pc[s] \notin Downloading
  BY DEF TypeOK, Elsewhere, Find, RemoveSome, RemoveAll, CreateDirectories,
         VcsWrapSetup, Run, CheckoutFails, StartExtract, Extract, Merge,
         ApplyDiff, SetUp, Mark, End, Downloading
<1>2. pc'[s] \notin Downloading
  BY <1>1
  DEF Elsewhere, Find, RemoveSome, RemoveAll, CreateDirectories,
      VcsWrapSetup, Run, CheckoutFails, StartExtract, Extract, Merge, PartDone,
      ApplyDiff, SetUp, Mark, End, Downloading
<1>3. pc'[s] = "ended" => marker'
  <2>1. CASE Find(s)
    <3>1. marker' = marker /\ (~marker => pc'[s] # "ended")
      BY <1>1, <2>1, Zenon DEF Find, Labels
    <3>2. marker \in BOOLEAN
      BY Zenon DEF TypeOK
    <3> QED BY <3>1, <3>2
  <2>2. CASE Mark(s)
    <3>1. marker' = dir.made
      BY <2>2, Zenon DEF Mark
    <3>2. dir.made
      BY <2>2, Zenon DEF Mark, SetupInv, SetterInv, Finishing
    <3> QED BY <3>1, <3>2, Zenon
  <2>3. CASE ~Find(s) /\ ~Mark(s)
    <3>1. pc'[s] # "ended"
      BY <1>1, <2>3
      DEF Elsewhere, RemoveSome, RemoveAll, CreateDirectories,
          VcsWrapSetup, Run, CheckoutFails, StartExtract, Extract, Merge, PartDone,
          ApplyDiff, SetUp, End
    <3> QED BY <3>1
  <2> QED BY <2>1, <2>2, <2>3
<1>4. \A q \in Parts : MirrorLeft(q)'
  BY <1>1 DEF Promise, MirrorLeft, HasMirror, Usable
<1> QED BY <1>2, <1>3, <1>4 DEF Promise, Downloading

\* A download begins with the first mirror.
LEMMA BeginKeeps ==
  ASSUME TypeOK, SetupInv, NEW s \in Setters, FileWrapSetup(s) \/ ApplyPatch(s),
         Promise(s)
  PROVE  Promise(s)'
<1>1. /\ pc \in [Setters -> Labels] /\ job \in [Setters -> Jobs]
      /\ UNCHANGED <<wrap, cache>> /\ pc[s] \in {"setup", "patch"}
  BY DEF TypeOK, FileWrapSetup, ApplyPatch
<1>2. \A q \in Parts : MirrorLeft(q) /\ MirrorLeft(q)'
  BY <1>1 DEF Promise, MirrorLeft, HasMirror, Usable, Downloading
<1>3. job'[s].mirror = "main" /\ job'[s].part \in Parts
  <2>1. pc[s] = "setup" => job[s] = NoJob
    BY DEF SetupInv, SetterInv
  <2> QED BY <1>1, <2>1 DEF FileWrapSetup, ApplyPatch, NoJob, Jobs, Parts
<1>4. pc'[s] \in {"download", "merge", "diffs"}
  <2>1. wrap.patch \in {"none", "directory", "url", "missing"}
    BY WrapType DEF TypeOK, WrapRecords
  <2> QED BY <1>1, <2>1 DEF FileWrapSetup, ApplyPatch
<1>5. (Usable(Url(s)) \/ FallbackLeft(s))'
  BY <1>1, <1>2, <1>3, MirrorsLeft DEF Url, FallbackLeft, Usable, HasMirror
<1> QED
  BY <1>2, <1>3, <1>4, <1>5 DEF Promise, HasMirror, Downloading

LEMMA DownloadKeeps ==
  ASSUME TypeOK, SetupInv, NEW s \in Setters, Promise(s),
         \/ CachedDownload(s) \/ StartCopy(s) \/ Copy(s) \/ ValidateHash(s)
         \/ Fetch(s) /\ temp' = [temp EXCEPT ![Url(s)] = "good"]
  PROVE  Promise(s)'
<1>1. /\ pc \in [Setters -> Labels] /\ job \in [Setters -> Jobs] /\ wrap' = wrap
      /\ pc[s] \in Downloading
      /\ cache \in [Urls -> FileStates] /\ temp \in [Urls -> FileStates]
  BY DEF TypeOK, CachedDownload, StartCopy, Copy, ValidateHash, Fetch, Downloading
<1>2. job[s].part \in Parts /\ job[s].mirror \in Mirrors /\ Url(s) \in Urls
  BY <1>1 DEF Jobs, Urls, Url
<1>3. HasMirror(job[s].part, job[s].mirror)
  BY <1>1 DEF Promise
\* The downloads of the other part are left alone.
<1>4. \A q \in Parts : q # job[s].part => MirrorLeft(q)'
  <2> SUFFICES ASSUME NEW q \in Parts, q # job[s].part PROVE MirrorLeft(q)'
    OBVIOUS
  <2>1. PICK m \in Mirrors : HasMirror(q, m) /\ Usable(<<q, m>>)
    BY DEF Promise, MirrorLeft
  <2>2. <<q, m>> \in Urls /\ <<q, m>> # Url(s)
    BY DEF Urls, Url
  <2>3. cache'[<<q, m>>] = cache[<<q, m>>]
    BY <1>1, <2>2 DEF CachedDownload, StartCopy, Copy, ValidateHash, Fetch
  <2> QED BY <1>1, <2>1, <2>3 DEF MirrorLeft, HasMirror, Usable
<1>5. CASE CachedDownload(s)
  BY <1>1, <1>3, <1>4, <1>5
  DEF CachedDownload, Promise, Downloading, HasMirror, Usable, Url, FallbackLeft
<1>6. CASE Fetch(s) /\ temp' = [temp EXCEPT ![Url(s)] = "good"]
  BY <1>1, <1>2, <1>3, <1>4, <1>6 DEF Fetch, Promise, Downloading, HasMirror, Url
<1>7. CASE StartCopy(s)
  BY <1>1, <1>3, <1>4, <1>7 DEF StartCopy, Promise, Downloading, HasMirror, Url
<1>8. CASE Copy(s)
  BY <1>1, <1>2, <1>3, <1>4, <1>8 DEF Copy, Promise, Downloading, HasMirror, Url
<1>9. CASE ValidateHash(s)
  <2>1. CASE cache[Url(s)] = "good"
    <3>1. pc'[s] = "extract" /\ UNCHANGED <<cache, job>>
      BY <1>1, <1>9, <2>1 DEF ValidateHash
    <3>2. MirrorLeft(job[s].part)'
      BY <1>1, <1>2, <1>3, <2>1, <3>1 DEF MirrorLeft, HasMirror, Usable, Url
    <3> QED BY <1>4, <3>1, <3>2 DEF Promise, Downloading
  <2>2. CASE cache[Url(s)] # "good"
    <3>1. FallbackLeft(s)
      BY <1>9, <2>2 DEF ValidateHash, Promise
    <3>2. /\ pc'[s] = "download" /\ job'[s].part = job[s].part
          /\ job'[s].mirror = "fallback" /\ UNCHANGED cache
      BY <1>1, <1>9, <2>2, <3>1 DEF ValidateHash, Miss, FallbackLeft, Jobs
    <3> QED
      BY <1>1, <1>4, <3>1, <3>2
      DEF Promise, Downloading, HasMirror, Usable, Url, FallbackLeft
  <2> QED BY <2>1, <2>2
<1> QED BY <1>5, <1>6, <1>7, <1>8, <1>9

LEMMA NextPromises ==
  ASSUME Alone, TypeOK, SetupInv, Promises, [Next]_vars PROVE Promises'
<1>1. CASE UNCHANGED vars
  BY <1>1
  DEF vars, Promises, Unhindered, SetupPossible, Promise, Usable, MirrorLeft,
      FallbackLeft, HasMirror, Url
<1>2. ASSUME NEW s \in Setters, Step(s) PROVE Promises'
  <2>1. Unhindered(s)' => Promise(s)'
    BY <1>2, Hinders, ElsewhereKeeps, BeginKeeps, DownloadKeeps DEF Promises
  <2> QED BY <2>1 DEF Promises, Alone
<1>3. ASSUME NEW s \in Setters, Crash(s) PROVE Promises'
  BY <1>3 DEF Crash, TypeOK, Promises, Unhindered, Alone
<1>4. ASSUME NEW s \in Setters, Start(s) PROVE Promises'
  <2>1. pc'[s] = "find" /\ UNCHANGED <<wrap, cache>> /\ hopeful'[s] = CacheUsable
    BY <1>4 DEF Start, TypeOK
  <2>2. Unhindered(s)' => \A q \in Parts : MirrorLeft(q)'
    BY <2>1 DEF Unhindered, CacheUsable, MirrorLeft, Usable, HasMirror
  <2>3. Unhindered(s)' => Promise(s)'
    BY <2>1, <2>2 DEF Promise, Downloading
  <2> QED BY <2>3 DEF Promises, Alone
<1> QED BY <1>1, <1>2, <1>3, <1>4 DEF Next

(***************************************************************************)
(* For one process: an attempt in which no call fails ends with the marker *)
(* if the wrap can be set up and the downloads in the cache can be used,   *)
(* after any number of attempts that failed or crashed at any point.       *)
(***************************************************************************)
THEOREM RetrySucceeds == ASSUME Alone PROVE Spec => []FaultlessAttemptSucceeds
<1>1. Init => Promises
  BY DEF Init, Promises, Unhindered
<1>2. TypeOK /\ SetupInv /\ Promises /\ [Next]_vars => Promises'
  BY NextPromises
<1>3. Promises => FaultlessAttemptSucceeds
  BY DEF Promises, Unhindered, Promise, FaultlessAttemptSucceeds
<1> QED
  BY <1>1, <1>2, <1>3, SetupInvariant, WrapTypeCorrect, PTL DEF Spec
-----------------------------------------------------------------------------
(***************************************************************************)
(* No setup goes on for ever: what is left of it gets less with each of    *)
(* its steps, for any number of processes.                                 *)
(***************************************************************************)
\* Where a failed checkout may be tried again, which happens once.
Retries(q) == {i \in 1 .. Len(q) : q[i] = "checkout"}
OneRetry(q) == \A i, j \in Retries(q) : i = j

TransferLeft(l) ==
  CASE l = "download" -> 8
    [] l = "fetch" -> 7
    [] l = "copy" -> 6
    [] l = "copying" -> 5
    [] l = "validate" -> 4
    [] l \in {"extract", "merge"} -> 3
    [] l \in {"extracting", "merging"} -> 2

DiffsLeft(s) == wrap.diffs - job[s].diffs
RetryLeft(s) == IF Retries(job[s].todo) = {} THEN 0 ELSE 3
FallbackTime(s) == IF job[s].mirror = "main" THEN 10 ELSE 0

\* A directory that is removed may go in two steps.
Removed == [made |-> TRUE, source |-> Damage(dir.source),
            patch |-> Damage(dir.patch), diffs |-> 0]
FilesLeft == IF dir = Removed THEN 0 ELSE 1

\* The steps to come at most, or more.
Remaining(s) ==
  CASE pc[s] = "idle" -> 0
    [] pc[s] = "ended" -> 1
    [] pc[s] = "mark" -> 2
    [] pc[s] = "diffs" -> 3 + DiffsLeft(s)
    [] pc[s] \in Transfers ->
         (IF job[s].part = "patch" THEN 4 ELSE 40)
           + DiffsLeft(s) + FallbackTime(s) + TransferLeft(pc[s])
    [] pc[s] = "patch" -> 30 + DiffsLeft(s)
    [] pc[s] = "run" -> 40 + DiffsLeft(s) + 2 * Len(job[s].todo) + RetryLeft(s)
    [] pc[s] = "setup" -> 100 + DiffsLeft(s)
    [] pc[s] = "create" -> 101 + DiffsLeft(s)
    [] pc[s] = "remove" -> 102 + DiffsLeft(s) + FilesLeft
    [] pc[s] = "find" -> 200 + DiffsLeft(s)

CountsDown ==
  \A s \in Setters :
    Step(s) => /\ Remaining(s) \in Nat /\ Remaining(s)' \in Nat
               /\ Remaining(s)' < Remaining(s)

LEMMA TailRetry ==
  ASSUME NEW S, NEW q \in Seq(S), q # <<>>, OneRetry(q)
  PROVE  /\ OneRetry(Tail(q))
         /\ Retries(q) = {} => Retries(Tail(q)) = {}
         /\ Head(q) = "checkout" => Retries(Tail(q)) = {} /\ Retries(q) # {}
<1>1. /\ Len(q) \in Nat \ {0} /\ Len(Tail(q)) = Len(q) - 1 /\ Head(q) = q[1]
      /\ \A i \in 1 .. Len(q) - 1 : Tail(q)[i] = q[i + 1]
  BY HeadTailProperties, EmptySeq, LenProperties
<1>2. \A i \in Retries(Tail(q)) : i \in Nat \ {0} /\ i + 1 \in Retries(q)
  BY <1>1 DEF Retries
<1>3. OneRetry(Tail(q))
  BY <1>2 DEF OneRetry
<1>4. Head(q) = "checkout" => 1 \in Retries(q)
  BY <1>1 DEF Retries
<1> QED BY <1>2, <1>3, <1>4 DEF OneRetry

\* Lists of programs, of which only the second one may be tried again.
Tries(q, n) == q \in Seq(CommandNames) /\ Len(q) <= n /\ Retries(q) \subseteq {2}

LEMMA JoinedTries ==
  ASSUME NEW q, NEW n \in Nat, Tries(q, n),
         NEW r, NEW m \in Nat, Tries(r, m), Retries(r) = {}
  PROVE  Tries(q \o r, n + m)
<1>1. /\ q \in Seq(CommandNames) /\ Len(q) \in Nat /\ Len(q) <= n
      /\ r \in Seq(CommandNames) /\ Len(r) \in Nat /\ Len(r) <= m
  BY LenProperties DEF Tries
<1>2. /\ q \o r \in Seq(CommandNames) /\ Len(q \o r) = Len(q) + Len(r)
      /\ \A i \in 1 .. Len(q) + Len(r) :
           (q \o r)[i] = IF i <= Len(q) THEN q[i] ELSE r[i - Len(q)]
  BY <1>1, ConcatProperties
<1>3. ASSUME NEW i \in Retries(q \o r) PROVE i = 2
  <2>1. i \in 1 .. Len(q) + Len(r) /\ (q \o r)[i] = "checkout"
    BY <1>2 DEF Retries
  <2>2. CASE i <= Len(q)
    <3>1. i \in Retries(q)
      BY <1>1, <1>2, <2>1, <2>2 DEF Retries
    <3> QED BY <3>1 DEF Tries
  <2>3. CASE ~(i <= Len(q))
    <3>1. i - Len(q) \in Retries(r)
      BY <1>1, <1>2, <2>1, <2>3 DEF Retries
    <3> QED BY <3>1
  <2> QED BY <2>2, <2>3
<1> QED BY <1>1, <1>2, <1>3 DEF Tries

LEMMA CommandsRetry ==
  ASSUME wrap \in WrapRecords, wrap.kind \in {"git", "svn", "hg"}
  PROVE  OneRetry(Commands) /\ Len(Commands) <= 6
<1>1. /\ Tries(<<"clone">>, 1) /\ Tries(<<"checkout!">>, 1)
      /\ Tries(<<"submodule">>, 1) /\ Retries(<<"submodule">>) = {}
      /\ Tries(<<"set-url">>, 1) /\ Retries(<<"set-url">>) = {}
      /\ Tries(<<>>, 1) /\ Retries(<<>>) = {}
  BY DEF Tries, Retries, CommandNames
<1>2. Tries(<<"clone", "checkout">>, 2) /\ Tries(<<"clone", "checkout!">>, 2)
  BY DEF Tries, Retries, CommandNames
<1>3. Tries(<<"init", "remote", "fetch", "checkout!">>, 4)
  BY DEF Tries, Retries, CommandNames
<1>4. \A q, n : Tries(q, n) /\ n \in {1, 2, 4} => Tries(q, 4)
  BY LenProperties DEF Tries
<1>5. Tries(Commands, 6)
  <2>1. CASE wrap.kind = "git"
    <3>1. Tries(GitCommands, 4)
      BY <1>1, <1>2, <1>3, <1>4 DEF GitCommands, WrapRecords
    <3>2. PICK e : /\ e = IF wrap.recursive THEN <<"submodule">> ELSE <<>>
                   /\ Tries(e, 1) /\ Retries(e) = {}
      BY <1>1
    <3>3. PICK p : /\ p = IF wrap.push THEN <<"set-url">> ELSE <<>>
                   /\ Tries(p, 1) /\ Retries(p) = {}
      BY <1>1
    <3>4. Tries(GitCommands \o e, 4 + 1)
      BY <3>1, <3>2, JoinedTries
    <3>5. Tries((GitCommands \o e) \o p, (4 + 1) + 1)
      BY <3>3, <3>4, JoinedTries
    <3>6. Commands = (GitCommands \o e) \o p
      BY <2>1, <3>2, <3>3 DEF Commands
    <3> QED BY <3>5, <3>6
  <2>2. CASE wrap.kind \in {"svn", "hg"}
    <3>1. Tries(Commands, 4)
      BY <1>1, <1>2, <1>4, <2>2 DEF Commands
    <3> QED BY <3>1, LenProperties DEF Tries
  <2> QED BY <2>1, <2>2
<1> QED BY <1>5 DEF Tries, OneRetry

LEMMA FetchRetry ==
  ASSUME NEW q \in Seq(CommandNames), q # <<>>, OneRetry(q), Head(q) = "checkout"
  PROVE  /\ Len(<<"fetch", "checkout!">> \o Tail(q)) = Len(q) + 1
         /\ Retries(<<"fetch", "checkout!">> \o Tail(q)) = {}
<1>1. /\ Len(q) \in Nat \ {0} /\ Len(Tail(q)) = Len(q) - 1
      /\ Tail(q) \in Seq(CommandNames)
      /\ Retries(Tail(q)) = {}
  BY HeadTailProperties, EmptySeq, LenProperties, TailRetry
<1>2. <<"fetch", "checkout!">> \in Seq(CommandNames)
  BY DEF CommandNames
<1>3. PICK r \in Seq(CommandNames) : r = Tail(q)
  BY <1>1
<1>4. PICK f \in Seq(CommandNames) :
        f = <<"fetch", "checkout!">> /\ Len(f) = 2 /\ f[1] = "fetch" /\ f[2] = "checkout!"
  BY <1>2
<1>5. /\ Len(f \o r) = 2 + Len(r)
      /\ \A i \in 1 .. Len(f) + Len(r) :
           (f \o r)[i] = IF i <= Len(f) THEN f[i] ELSE r[i - Len(f)]
  BY ConcatProperties, <1>4
<1>6. Retries(f \o r) = {}
  <2> SUFFICES ASSUME NEW i \in Retries(f \o r) PROVE FALSE
    OBVIOUS
  <2>1. i \in 1 .. 2 + Len(r) /\ (f \o r)[i] = "checkout" /\ Len(r) \in Nat
    BY <1>5, LenProperties DEF Retries
  <2>2. CASE i \in {1, 2}
    BY <1>4, <1>5, <2>1, <2>2
  <2>3. CASE i \notin {1, 2}
    <3>1. i - 2 \in Retries(r)
      BY <1>4, <1>5, <2>1, <2>3 DEF Retries
    <3> QED BY <1>1, <1>3, <3>1
  <2> QED BY <2>2, <2>3
<1> QED BY <1>1, <1>3, <1>4, <1>5, <1>6

\* A setter begins with the source.  If it runs programs, it has one left to
\* run, and tries again once.
Beginning == {"find", "remove", "create", "setup"}
RunsOn ==
  \A s \in Setters :
    /\ pc[s] \in Beginning => job[s].part = "source"
    /\ pc[s] = "run" => job[s].todo # <<>> /\ OneRetry(job[s].todo)
LEMMA StepRunsOn ==
  ASSUME TypeOK, RunsOn, NEW s \in Setters, Step(s) PROVE RunsOn'
<1>1. /\ pc \in [Setters -> Labels] /\ job \in [Setters -> Jobs]
      /\ wrap \in WrapRecords /\ Running
  BY WrapType DEF TypeOK, RunsOn, Running
<1>2. Running'
  BY <1>1, StepRunning
<1>3. \A t \in Setters \ {s} : pc'[t] = pc[t] /\ job'[t] = job[t]
  BY <1>1
     DEF Step, Find, DoNotDownload, RemoveSome, RemoveAll, CreateDirectories,
         CannotSetUp, FileWrapSetup, VcsWrapSetup, Run, CheckoutFails, RunFails,
         CachedDownload, Fetch, FetchFails, StartCopy, Copy, CopyFails,
         ValidateHash, StartExtract, Extract, ExtractFails, Merge, MergeFails,
         ApplyPatch, ApplyPatchFails, ApplyDiff, ApplyDiffFails, SetUp, Mark,
         End, GiveUp, Miss, PartDone
<1>10. pc'[s] \in Beginning => job'[s].part = "source"
  <2>1. CASE ApplyPatch(s)
    BY <1>1, <2>1 DEF ApplyPatch, WrapRecords, Beginning
  <2>2. pc'[s] \in Beginning /\ ~ApplyPatch(s) => pc[s] \in Beginning /\ job'[s] = job[s]
    BY <1>1
       DEF Step, Find, DoNotDownload, RemoveSome, RemoveAll, CreateDirectories,
           CannotSetUp, FileWrapSetup, VcsWrapSetup, Run, CheckoutFails, RunFails,
           CachedDownload, Fetch, FetchFails, StartCopy, Copy, CopyFails,
           ValidateHash, StartExtract, Extract, ExtractFails, Merge, MergeFails,
           ApplyPatchFails, ApplyDiff, ApplyDiffFails, SetUp, Mark,
           End, GiveUp, Miss, PartDone, Beginning
  <2> QED BY <2>1, <2>2 DEF RunsOn
<1>4. SUFFICES ASSUME pc'[s] = "run" PROVE OneRetry(job'[s].todo)
  BY <1>2, <1>3, <1>10 DEF RunsOn, Running
<1>5. \/ VcsWrapSetup(s) \/ Run(s) \/ CheckoutFails(s)
      \/ pc'[s] # "run"
  <2>1. CASE ApplyPatch(s)
    BY <1>1, <2>1 DEF ApplyPatch, WrapRecords
  <2>2. CASE ~ApplyPatch(s)
    BY <1>1, <2>2
       DEF Step, Find, DoNotDownload, RemoveSome, RemoveAll,
           CreateDirectories, CannotSetUp, FileWrapSetup, RunFails,
           CachedDownload, Fetch, FetchFails, StartCopy, Copy, CopyFails,
           ValidateHash, StartExtract, Extract, ExtractFails, Merge,
           MergeFails, ApplyPatchFails, ApplyDiff, ApplyDiffFails, SetUp,
           Mark, End, GiveUp, Miss, PartDone
  <2> QED BY <2>1, <2>2
<1>6. pc[s] = "run" => job[s].todo \in Seq(CommandNames) /\ job[s].todo # <<>>
                      /\ OneRetry(job[s].todo)
  BY <1>1 DEF RunsOn, Jobs
<1>7. CASE VcsWrapSetup(s)
  <2>1. OneRetry(Commands)
    BY <1>1, <1>7, CommandsRetry DEF VcsWrapSetup
  <2>2. job'[s].todo = Commands
    BY <1>1, <1>7 DEF VcsWrapSetup, Jobs
  <2> QED BY <2>1, <2>2
<1>8. CASE Run(s)
  <2>1. job'[s].todo = Tail(job[s].todo)
    BY <1>1, <1>8 DEF Run, Jobs
  <2> QED BY <1>6, <1>8, <2>1, TailRetry DEF Run
<1>9. CASE CheckoutFails(s)
  <2>1. job'[s].todo = <<"fetch", "checkout!">> \o Tail(job[s].todo)
    BY <1>1, <1>9 DEF CheckoutFails, Jobs
  <2>2. Retries(job'[s].todo) = {}
    BY <1>6, <1>9, <2>1, FetchRetry DEF CheckoutFails
  <2> QED BY <2>2 DEF OneRetry
<1> QED BY <1>4, <1>5, <1>7, <1>8, <1>9

LEMMA RunsOnInvariant == Spec => []RunsOn
<1>1. Init => RunsOn
  BY DEF Init, RunsOn, Beginning
<1>2. TypeOK /\ RunsOn /\ [Next]_vars => RunsOn'
  <2> SUFFICES ASSUME TypeOK, RunsOn, [Next]_vars PROVE RunsOn'
    OBVIOUS
  <2>1. ASSUME NEW s \in Setters, Start(s) \/ Crash(s) PROVE RunsOn'
    <3>1. \A t \in Setters : \/ pc'[t] \notin Beginning \cup {"run"}
                             \/ pc'[t] = "find" /\ job'[t] = NoJob
                             \/ pc'[t] = pc[t] /\ job'[t] = job[t]
      BY <2>1 DEF Start, Crash, TypeOK, Beginning
    <3> QED BY <3>1 DEF RunsOn, NoJob, Beginning
  <2>2. CASE UNCHANGED vars
    BY <2>2 DEF vars, RunsOn
  <2> QED BY <2>1, <2>2, StepRunsOn DEF Next
<1> QED BY <1>1, <1>2, WrapTypeCorrect, PTL DEF Spec

\* What is left, point by point.
TransferTable(s) ==
  pc[s] \in Transfers =>
    Remaining(s) = (IF job[s].part = "patch" THEN 4 ELSE 40)
                     + DiffsLeft(s) + FallbackTime(s) + TransferLeft(pc[s])

Table(s) ==
  /\ pc[s] = "idle" => Remaining(s) = 0
  /\ pc[s] = "ended" => Remaining(s) = 1
  /\ pc[s] = "mark" => Remaining(s) = 2
  /\ pc[s] = "diffs" => Remaining(s) = 3 + DiffsLeft(s)
  /\ pc[s] = "patch" => Remaining(s) = 30 + DiffsLeft(s)
  /\ pc[s] = "run" =>
       Remaining(s) = 40 + DiffsLeft(s) + 2 * Len(job[s].todo) + RetryLeft(s)
  /\ pc[s] = "setup" => Remaining(s) = 100 + DiffsLeft(s)
  /\ pc[s] = "create" => Remaining(s) = 101 + DiffsLeft(s)
  /\ pc[s] = "remove" => Remaining(s) = 102 + DiffsLeft(s) + FilesLeft
  /\ pc[s] = "find" => Remaining(s) = 200 + DiffsLeft(s)

LEMMA RemainingAt == \A s \in Setters : Table(s) /\ TransferTable(s)
<1> SUFFICES ASSUME NEW s \in Setters PROVE Table(s) /\ TransferTable(s)
  OBVIOUS
<1> USE DEF Table
<1>1. CASE pc[s] = "idle"
  BY <1>1 DEF Remaining, Transfers, TransferTable
<1>2. CASE pc[s] = "ended"
  BY <1>2 DEF Remaining, Transfers, TransferTable
<1>3. CASE pc[s] = "mark"
  BY <1>3 DEF Remaining, Transfers, TransferTable
<1>4. CASE pc[s] = "diffs"
  BY <1>4 DEF Remaining, Transfers, TransferTable
<1>5. CASE pc[s] = "patch"
  BY <1>5 DEF Remaining, Transfers, TransferTable
<1>6. CASE pc[s] = "run"
  BY <1>6 DEF Remaining, Transfers, TransferTable
<1>7. CASE pc[s] = "setup"
  BY <1>7 DEF Remaining, Transfers, TransferTable
<1>8. CASE pc[s] = "create"
  BY <1>8 DEF Remaining, Transfers, TransferTable
<1>9. CASE pc[s] = "remove"
  BY <1>9 DEF Remaining, Transfers, TransferTable
<1>10. CASE pc[s] = "find"
  BY <1>10 DEF Remaining, Transfers, TransferTable
<1>11. CASE pc[s] \notin {"idle", "ended", "mark", "diffs", "patch", "run", "setup",
                         "create", "remove", "find"}
  <2>1. Table(s)
    BY <1>11
  <2>2. TransferTable(s)
    BY DEF Remaining, Transfers, TransferTable
  <2> QED BY <2>1, <2>2
<1> QED
  BY <1>1, <1>2, <1>3, <1>4, <1>5, <1>6, <1>7, <1>8, <1>9, <1>10, <1>11

LEMMA RemainingAtNext == (\A s \in Setters : Table(s) /\ TransferTable(s))'
BY RemainingAt, PTL

\* The parts of it, and how the points lie to each other.
PartsOfIt(s) ==
  /\ DiffsLeft(s) \in Nat /\ RetryLeft(s) \in {0, 3}
  /\ FallbackTime(s) \in {0, 10} /\ FilesLeft \in {0, 1}
  /\ pc[s] \in Transfers => TransferLeft(pc[s]) \in 2 .. 8
  /\ Len(job[s].todo) \in Nat

Order(s) ==
  /\ Remaining(s) \in Nat
  /\ pc[s] \notin {"idle", "ended"} => Remaining(s) >= 2
  /\ pc[s] \in Transfers /\ job[s].part = "patch" =>
       Remaining(s) > 3 + DiffsLeft(s) /\ Remaining(s) < 30 + DiffsLeft(s)
  /\ pc[s] \in Transfers /\ job[s].part = "source" =>
       Remaining(s) > 30 + DiffsLeft(s) /\ Remaining(s) < 100 + DiffsLeft(s)
  /\ pc[s] = "run" => Remaining(s) > 30 + DiffsLeft(s)

LEMMA Measured == TypeOK => \A s \in Setters : PartsOfIt(s) /\ Order(s)
<1> SUFFICES ASSUME TypeOK, NEW s \in Setters PROVE PartsOfIt(s) /\ Order(s)
  OBVIOUS
<1>1. /\ wrap \in WrapRecords /\ job[s] \in Jobs /\ pc[s] \in Labels
  BY WrapType DEF TypeOK
<1>2. /\ wrap.diffs \in Nat /\ job[s].diffs \in 0 .. wrap.diffs
      /\ job[s].todo \in Seq(CommandNames)
  BY <1>1 DEF WrapRecords, Jobs
<1>3. Len(job[s].todo) \in Nat
  BY <1>2, LenProperties
<1>4. /\ DiffsLeft(s) \in Nat /\ RetryLeft(s) \in {0, 3}
      /\ FallbackTime(s) \in {0, 10} /\ FilesLeft \in {0, 1}
  BY <1>2 DEF DiffsLeft, RetryLeft, FallbackTime, FilesLeft
<1>5. pc[s] \in Transfers => TransferLeft(pc[s]) \in 2 .. 8
  BY DEF Transfers, TransferLeft
<1>6. PartsOfIt(s)
  BY <1>3, <1>4, <1>5 DEF PartsOfIt
<1>7. Table(s) /\ TransferTable(s)
  BY RemainingAt
<1>8. Order(s)
  <2>1. CASE pc[s] \in Transfers
    <3>1. pc[s] \notin {"idle", "ended", "run"}
      BY <2>1 DEF Transfers
    <3> QED BY <1>4, <1>5, <1>7, <2>1, <3>1 DEF TransferTable, Order
  <2>2. CASE pc[s] \in {"idle", "ended", "mark"}
    <3>1. pc[s] \notin Transfers
      BY <2>2 DEF Transfers
    <3> QED BY <1>7, <2>2, <3>1 DEF Table, Order
  <2>3. CASE pc[s] \in {"diffs", "patch", "setup", "create", "find"}
    <3>1. pc[s] \notin Transfers
      BY <2>3 DEF Transfers
    <3> DEFINE d == DiffsLeft(s)
    <3>2. Remaining(s) \in {3 + d, 30 + d, 100 + d, 101 + d, 200 + d}
      BY <1>7, <2>3 DEF Table
    <3>3. d \in Nat
      BY <1>4
    <3> HIDE DEF d
    <3>4. Remaining(s) \in Nat /\ Remaining(s) >= 2
      BY <3>2, <3>3
    <3> QED BY <2>3, <3>1, <3>4 DEF Order
  <2>4. CASE pc[s] = "run"
    <3>1. pc[s] \notin Transfers
      BY <2>4 DEF Transfers
    <3> DEFINE d == DiffsLeft(s) n == Len(job[s].todo) r == RetryLeft(s)
    <3>2. Remaining(s) = 40 + d + 2 * n + r
      BY <1>7, <2>4 DEF Table
    <3>3. d \in Nat /\ n \in Nat /\ r \in Nat
      BY <1>3, <1>4
    <3> HIDE DEF d, n, r
    <3>4. Remaining(s) \in Nat /\ Remaining(s) >= 2 /\ Remaining(s) > 30 + d
      BY <3>2, <3>3
    <3> QED BY <2>4, <3>1, <3>4 DEF Order, d
  <2>5. CASE pc[s] = "remove"
    <3>1. pc[s] \notin Transfers
      BY <2>5 DEF Transfers
    <3> DEFINE d == DiffsLeft(s) f == FilesLeft
    <3>2. Remaining(s) = 102 + d + f
      BY <1>7, <2>5 DEF Table
    <3>3. d \in Nat /\ f \in Nat
      BY <1>4
    <3> HIDE DEF d, f
    <3>4. Remaining(s) \in Nat /\ Remaining(s) >= 2
      BY <3>2, <3>3
    <3> QED BY <2>5, <3>1, <3>4 DEF Order
  <2> QED BY <1>1, <2>1, <2>2, <2>3, <2>4, <2>5 DEF Labels, Transfers
<1> QED BY <1>6, <1>8

LEMMA MeasuredNext == TypeOK' => (\A s \in Setters : PartsOfIt(s) /\ Order(s))'
BY Measured, PTL
\* Before and after a step.
Measure(s) == Table(s) /\ TransferTable(s) /\ PartsOfIt(s) /\ Order(s)

\* A setup that is given up, or has ended, has one step left, or none.
LEMMA LastSteps ==
  ASSUME NEW s \in Setters, pc \in [Setters -> Labels], Measure(s), Measure(s)',
         \/ pc[s] \notin {"idle", "ended"} /\ GiveUp(s)
         \/ pc[s] \notin {"idle", "ended"} /\ Goto(s, "ended")
         \/ End(s)
  PROVE  Remaining(s)' < Remaining(s)
<1>1. CASE pc[s] \notin {"idle", "ended"} /\ pc'[s] = "ended"
  BY <1>1 DEF Measure, Table, Order
<1>2. CASE pc[s] = "ended" /\ pc'[s] = "idle"
  BY <1>2 DEF Measure, Table
<1> QED BY <1>1, <1>2 DEF End, GiveUp

\* The steps of a transfer.
LEMMA TransferCounts ==
  ASSUME TypeOK, NEW s \in Setters, Measure(s), Measure(s)', wrap' = wrap,
         pc[s] \in Transfers, pc'[s] \in Transfers,
         \/ job'[s] = job[s] /\ TransferLeft(pc'[s]) < TransferLeft(pc[s])
         \/ job'[s] = [job[s] EXCEPT !.mirror = "fallback"] /\ job[s].mirror = "main"
  PROVE  Remaining(s)' < Remaining(s)
<1> DEFINE d == DiffsLeft(s) p == IF job[s].part = "patch" THEN 4 ELSE 40
           m == FallbackTime(s) t == TransferLeft(pc[s])
<1>0. job[s] \in Jobs
  BY DEF TypeOK
<1>1. DiffsLeft(s)' = d /\ job'[s].part = job[s].part
  BY <1>0 DEF DiffsLeft, Jobs
<1>2. Remaining(s) = p + d + m + t
  BY DEF Measure, TransferTable
<1>3. Remaining(s)' = p + d + FallbackTime(s)' + TransferLeft(pc[s])'
  BY <1>1 DEF Measure, TransferTable
<1>4. /\ d \in Nat /\ p \in Nat /\ m \in {0, 10} /\ FallbackTime(s)' \in {0, 10}
      /\ t \in 2 .. 8 /\ TransferLeft(pc[s])' \in 2 .. 8
  BY DEF Measure, PartsOfIt
<1>5. \/ FallbackTime(s)' = m /\ TransferLeft(pc[s])' < t
      \/ FallbackTime(s)' = 0 /\ m = 10
  BY <1>0 DEF FallbackTime, Jobs
<1> DEFINE n == FallbackTime(s)' u == TransferLeft(pc[s])'
<1> HIDE DEF d, p, m, t, n, u
<1>6. n + u < m + t
  BY <1>4, <1>5 DEF n, u
<1>7. n \in Nat /\ u \in Nat /\ m \in Nat /\ t \in Nat
  BY <1>4 DEF n, u
<1>8. p + d + n + u < p + d + m + t
  BY <1>4, <1>6, <1>7
<1> QED BY <1>2, <1>3, <1>8 DEF n, u

LEMMA MissCounts ==
  ASSUME TypeOK, NEW s \in Setters, Measure(s), Measure(s)', wrap' = wrap,
         pc[s] \in Transfers, Miss(s)
  PROVE  Remaining(s)' < Remaining(s)
<1>1. pc[s] \notin {"idle", "ended"}
  BY DEF Transfers
<1>2. CASE GiveUp(s)
  BY <1>1, <1>2, LastSteps DEF TypeOK
<1>3. CASE ~GiveUp(s)
  <2>1. /\ job[s].mirror = "main" /\ pc' = [pc EXCEPT ![s] = "download"]
        /\ job' = [job EXCEPT ![s].mirror = "fallback"]
    BY <1>3 DEF Miss
  <2>2. pc'[s] = "download" /\ job'[s] = [job[s] EXCEPT !.mirror = "fallback"]
    BY <2>1 DEF TypeOK
  <2>3. pc'[s] \in Transfers
    BY <2>2 DEF Transfers
  <2> QED BY <2>1, <2>2, <2>3, TransferCounts
<1> QED BY <1>2, <1>3

\* From one part of a setup to the next.
LEMMA PartsCount ==
  ASSUME TypeOK, NEW s \in Setters, Measure(s), Measure(s)', wrap' = wrap,
         job'[s].diffs = job[s].diffs,
         \/ pc[s] = "find" /\ pc'[s] \in {"remove", "create"}
         \/ pc[s] = "remove" /\ pc'[s] = "create"
         \/ pc[s] = "create" /\ pc'[s] = "setup"
         \/ /\ pc[s] = "setup" /\ pc'[s] \in Transfers
            /\ job'[s].part = "source"
         \/ pc[s] \in Transfers /\ job[s].part = "source" /\ pc'[s] = "patch"
         \/ pc[s] = "run" /\ pc'[s] = "patch"
         \/ pc[s] = "patch" /\ pc'[s] = "diffs"
         \/ pc[s] = "patch" /\ pc'[s] \in Transfers /\ job'[s].part = "patch"
         \/ pc[s] \in Transfers /\ job[s].part = "patch" /\ pc'[s] = "diffs"
         \/ pc[s] = "diffs" /\ pc'[s] = "mark"
  PROVE  Remaining(s)' < Remaining(s)
<1> DEFINE d == DiffsLeft(s) R == Remaining(s) Q == Remaining(s)'
           f == FilesLeft f1 == FilesLeft'
<1>1. DiffsLeft(s)' = d
  BY DEF DiffsLeft
<1>2. /\ d \in Nat /\ f \in {0, 1} /\ f1 \in {0, 1} /\ R \in Nat /\ Q \in Nat
  BY DEF Measure, PartsOfIt, Order
<1>3. \/ R = 200 + d /\ Q \in {102 + d + f1, 101 + d}
      \/ R = 102 + d + f /\ Q = 101 + d
      \/ R = 101 + d /\ Q = 100 + d
      \/ R = 100 + d /\ Q < 100 + d
      \/ R > 30 + d /\ Q = 30 + d
      \/ R = 30 + d /\ Q = 3 + d
      \/ R = 30 + d /\ Q < 30 + d
      \/ R > 3 + d /\ Q = 3 + d
      \/ R = 3 + d /\ Q = 2
  BY <1>1 DEF Measure, Table, Order
<1> HIDE DEF d, R, Q, f, f1
<1>4. Q < R
  BY <1>2, <1>3
<1> QED BY <1>4 DEF Q, R
\* Programs, one at a time.
LEMMA ProgramsCount ==
  ASSUME TypeOK, RunsOn, NEW s \in Setters, Measure(s), Measure(s)',
         VcsWrapSetup(s) \/ Run(s) \/ CheckoutFails(s)
  PROVE  Remaining(s)' < Remaining(s)
<1> DEFINE d == DiffsLeft(s) n == Len(job[s].todo) n1 == Len(job'[s].todo)
           r == RetryLeft(s) r1 == RetryLeft(s)'
<1>0. /\ pc \in [Setters -> Labels] /\ job \in [Setters -> Jobs] /\ wrap \in WrapRecords
      /\ wrap' = wrap
  BY WrapType DEF TypeOK, VcsWrapSetup, Run, CheckoutFails
<1>1. job'[s].diffs = job[s].diffs
  BY <1>0 DEF VcsWrapSetup, Run, CheckoutFails, Jobs
<1>2. DiffsLeft(s)' = d
  BY <1>0, <1>1 DEF DiffsLeft
<1>3. /\ d \in Nat /\ n \in Nat /\ n1 \in Nat /\ r \in {0, 3} /\ r1 \in {0, 3}
  BY DEF Measure, PartsOfIt
<1>4. CASE VcsWrapSetup(s)
  <2>1. pc[s] = "setup" /\ pc'[s] = "run" /\ job'[s].todo = Commands
    BY <1>0, <1>4 DEF VcsWrapSetup, Jobs
  <2>2. n1 <= 6
    BY <1>0, <1>4, <2>1, CommandsRetry DEF VcsWrapSetup
  <2>3. Remaining(s) = 100 + d /\ Remaining(s)' = 40 + d + 2 * n1 + r1
    BY <1>2, <2>1 DEF Measure, Table
  <2> HIDE DEF d, n1, r1
  <2> QED BY <1>3, <2>2, <2>3
<1>5. CASE Run(s) /\ pc'[s] = "patch"
  <2>1. pc[s] = "run"
    BY <1>5 DEF Run
  <2> QED BY <1>0, <1>1, <1>5, <2>1, PartsCount
<1>6. /\ job[s].todo \in Seq(CommandNames)
      /\ pc[s] = "run" => job[s].todo # <<>> /\ OneRetry(job[s].todo)
  BY <1>0 DEF RunsOn, Jobs
<1>7. CASE Run(s) /\ pc'[s] # "patch"
  <2>1. pc[s] = "run" /\ pc'[s] = "run" /\ job'[s].todo = Tail(job[s].todo)
    BY <1>0, <1>7 DEF Run, Jobs
  <2>2. n1 = n - 1 /\ n # 0
    BY <1>3, <1>6, <2>1, HeadTailProperties, EmptySeq
  <2>3. r1 <= r
    <3>1. Retries(job[s].todo) = {} => Retries(job'[s].todo) = {}
      BY <1>6, <2>1, TailRetry
    <3> QED BY <3>1 DEF RetryLeft
  <2>4. Remaining(s) = 40 + d + 2 * n + r /\ Remaining(s)' = 40 + d + 2 * n1 + r1
    BY <1>2, <2>1 DEF Measure, Table
  <2> HIDE DEF d, n, n1, r, r1
  <2> QED BY <1>3, <2>2, <2>3, <2>4
<1>8. CASE CheckoutFails(s)
  <2>1. /\ pc[s] = "run" /\ pc'[s] = "run" /\ Head(job[s].todo) = "checkout"
        /\ job'[s].todo = <<"fetch", "checkout!">> \o Tail(job[s].todo)
    BY <1>0, <1>8 DEF CheckoutFails, Jobs
  <2>2. n1 = n + 1 /\ Retries(job'[s].todo) = {}
    BY <1>6, <2>1, FetchRetry
  <2>3. Retries(job[s].todo) # {}
    BY <1>6, <2>1, TailRetry
  <2>4. r1 = 0 /\ r = 3
    BY <2>2, <2>3 DEF RetryLeft
  <2>5. Remaining(s) = 40 + d + 2 * n + r /\ Remaining(s)' = 40 + d + 2 * n1 + r1
    BY <1>2, <2>1 DEF Measure, Table
  <2> HIDE DEF d, n, n1, r, r1
  <2> QED BY <1>3, <2>2, <2>4, <2>5
<1> QED BY <1>4, <1>5, <1>7, <1>8

\* A step of the removal leaves nothing to a second one; diffs go one by one.
LEMMA RepeatsCount ==
  ASSUME TypeOK, NEW s \in Setters, Measure(s), Measure(s)',
         RemoveSome(s) \/ ApplyDiff(s)
  PROVE  Remaining(s)' < Remaining(s)
<1>0. /\ pc \in [Setters -> Labels] /\ job \in [Setters -> Jobs] /\ wrap' = wrap
  BY DEF TypeOK, RemoveSome, ApplyDiff
<1>1. CASE RemoveSome(s)
  <2>1. pc[s] = "remove" /\ pc' = pc /\ DiffsLeft(s)' = DiffsLeft(s)
    BY <1>0, <1>1 DEF RemoveSome, DiffsLeft
  <2>2. dir' = Removed /\ dir # Removed
    BY <1>1 DEF RemoveSome, Removed
  <2>3. Removed' = Removed
    BY <2>2 DEF Removed, Damage
  <2>4. FilesLeft = 1 /\ FilesLeft' = 0
    BY <2>2, <2>3 DEF FilesLeft
  <2>5. Remaining(s) = 102 + DiffsLeft(s) + 1 /\ Remaining(s)' = 102 + DiffsLeft(s) + 0
    BY <2>1, <2>4 DEF Measure, Table
  <2>6. DiffsLeft(s) \in Nat
    BY DEF Measure, PartsOfIt
  <2> QED BY <2>5, <2>6
<1>2. CASE ApplyDiff(s)
  <2>1. /\ pc[s] = "diffs" /\ pc' = pc
        /\ job'[s].diffs = job[s].diffs + 1
    BY <1>0, <1>2 DEF ApplyDiff, Jobs
  <2>2. wrap.diffs \in Nat /\ job[s].diffs \in 0 .. wrap.diffs
    BY WrapType DEF TypeOK, WrapRecords, Jobs
  <2>3. DiffsLeft(s)' = DiffsLeft(s) - 1 /\ DiffsLeft(s) \in Int
    BY <1>0, <2>1, <2>2 DEF DiffsLeft
  <2>4. Remaining(s) = 3 + DiffsLeft(s) /\ Remaining(s)' = 3 + DiffsLeft(s)'
    BY <2>1 DEF Measure, Table
  <2> QED BY <2>3, <2>4
<1> QED BY <1>1, <1>2

LEMMA StepCounts ==
  ASSUME TypeOK, RunsOn, NEW s \in Setters, Step(s), Measure(s), Measure(s)'
  PROVE  Remaining(s)' < Remaining(s)
<1>0. /\ pc \in [Setters -> Labels] /\ job \in [Setters -> Jobs] /\ wrap \in WrapRecords
      /\ job[s] \in Jobs
  BY WrapType DEF TypeOK
<1>1. wrap' = wrap
  BY DEF Step, Find, DoNotDownload, RemoveSome, RemoveAll, CreateDirectories,
         CannotSetUp, FileWrapSetup, VcsWrapSetup, Run, CheckoutFails, RunFails,
         CachedDownload, Fetch, FetchFails, StartCopy, Copy, CopyFails,
         ValidateHash, StartExtract, Extract, ExtractFails, Merge, MergeFails,
         ApplyPatch, ApplyPatchFails, ApplyDiff, ApplyDiffFails, SetUp, Mark, End
<1>2. CASE \/ DoNotDownload(s) \/ CannotSetUp(s) \/ RunFails(s) \/ ExtractFails(s)
           \/ ApplyPatchFails(s) \/ ApplyDiffFails(s) \/ Mark(s) \/ End(s)
  <2>1. \/ pc[s] \notin {"idle", "ended"} /\ (GiveUp(s) \/ Goto(s, "ended"))
        \/ End(s)
    BY <1>2 DEF DoNotDownload, CannotSetUp, RunFails, ExtractFails, ApplyPatchFails,
                ApplyDiffFails, Mark
  <2> QED BY <1>0, <2>1, LastSteps
<1>3. CASE Find(s)
  <2>1. CASE pc'[s] = "ended"
    BY <1>0, <1>3, <2>1, LastSteps DEF Find
  <2>2. CASE pc'[s] # "ended"
    BY <1>0, <1>1, <1>3, <2>2, PartsCount DEF Find
  <2> QED BY <2>1, <2>2
<1>4. CASE RemoveAll(s) \/ CreateDirectories(s) \/ SetUp(s)
  BY <1>0, <1>1, <1>4, PartsCount DEF RemoveAll, CreateDirectories, SetUp
<1>5. CASE VcsWrapSetup(s) \/ Run(s) \/ CheckoutFails(s)
  BY <1>5, ProgramsCount
<1>6. CASE RemoveSome(s) \/ ApplyDiff(s)
  BY <1>6, RepeatsCount
<1>7. CASE FetchFails(s) \/ CopyFails(s)
  <2>1. pc[s] \in Transfers /\ Miss(s)
    BY <1>7 DEF FetchFails, CopyFails, Transfers
  <2> QED BY <1>1, <2>1, MissCounts
<1>8. CASE \/ CachedDownload(s) \/ Fetch(s) \/ StartCopy(s) \/ Copy(s) \/ StartExtract(s)
           \/ ValidateHash(s) /\ pc'[s] = "extract" /\ job' = job
  <2>1. /\ job' = job
        /\ \/ pc[s] = "download" /\ pc'[s] \in {"validate", "fetch"}
           \/ pc[s] = "fetch" /\ pc'[s] = "copy"
           \/ pc[s] = "copy" /\ pc'[s] = "copying"
           \/ pc[s] = "copying" /\ pc'[s] = "validate"
           \/ pc[s] = "validate" /\ pc'[s] = "extract"
           \/ pc[s] = "extract" /\ pc'[s] = "extracting"
           \/ pc[s] = "merge" /\ pc'[s] = "merging"
    BY <1>0, <1>8
    DEF CachedDownload, Fetch, StartCopy, Copy, StartExtract, ValidateHash
  <2>2. pc[s] \in Transfers /\ pc'[s] \in Transfers
    BY <2>1 DEF Transfers
  <2>3. TransferLeft(pc'[s]) < TransferLeft(pc[s])
    BY <2>1 DEF TransferLeft
  <2> QED BY <1>1, <2>1, <2>2, <2>3, TransferCounts
<1>9. CASE ValidateHash(s) /\ ~(pc'[s] = "extract" /\ job' = job)
  <2>1. pc[s] \in Transfers /\ Miss(s)
    BY <1>0, <1>9 DEF ValidateHash, Transfers
  <2> QED BY <1>1, <2>1, MissCounts
<1>10. CASE Extract(s) \/ Merge(s) \/ MergeFails(s)
  <2>1. /\ pc[s] \in Transfers /\ job' = job
        /\ pc'[s] = IF job[s].part = "source" THEN "patch" ELSE "diffs"
    BY <1>0, <1>10 DEF Extract, Merge, MergeFails, PartDone, Transfers
  <2>2. job[s].part \in Parts
    BY <1>0 DEF Jobs
  <2> QED BY <1>1, <2>1, <2>2, PartsCount DEF Parts
<1>11. CASE FileWrapSetup(s)
  <2>1. pc[s] = "setup" /\ pc'[s] \in Transfers /\ job' = job
    BY <1>0, <1>11 DEF FileWrapSetup, Transfers
  <2>2. job[s].part = "source"
    BY <2>1 DEF RunsOn, Beginning
  <2> QED BY <1>1, <2>1, <2>2, PartsCount
<1>12. CASE ApplyPatch(s)
  <2>1. /\ pc[s] = "patch" /\ job'[s].diffs = job[s].diffs /\ job'[s].part = "patch"
        /\ pc'[s] = "diffs" \/ pc'[s] \in Transfers
    BY <1>0, <1>12 DEF ApplyPatch, Transfers, WrapRecords, Jobs
  <2> QED BY <1>1, <2>1, PartsCount
<1> QED
  BY <1>2, <1>3, <1>4, <1>5, <1>6, <1>7, <1>8, <1>9, <1>10, <1>11, <1>12 DEF Step

(***************************************************************************)
(* However many processes set the wrap up, and whatever fails: a setup has *)
(* only so many steps, of which each takes one away at least.  With        *)
(* fairness, which keeps it going, that is AttemptsEnd.                    *)
(***************************************************************************)
THEOREM SetupsCountDown == Spec => [][CountsDown]_vars
<1>1. TypeOK /\ RunsOn /\ TypeOK' /\ [Next]_vars => [CountsDown]_vars
  <2> SUFFICES ASSUME TypeOK, RunsOn, TypeOK', NEW s \in Setters, Step(s)
               PROVE  /\ Remaining(s) \in Nat /\ Remaining(s)' \in Nat
                      /\ Remaining(s)' < Remaining(s)
    BY DEF CountsDown
  <2>1. Measure(s) /\ Measure(s)'
    BY RemainingAt, RemainingAtNext, Measured, MeasuredNext DEF Measure
  <2> QED BY <2>1, StepCounts DEF Measure, Order
<1> QED BY <1>1, WrapTypeCorrect, RunsOnInvariant, PTL DEF Spec
================================================================================
