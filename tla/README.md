# A TLA+ model of mesonlsp

mesonlsp is a language server for Meson build files. An editor sends it the
text of `meson.build` files; it lexes, parses and type-checks the project and
its subprojects, publishes diagnostics, and answers questions about the result
(completion, hover, inlay hints, ...). This directory holds TLA+ modules that
model the concurrent core of the server, its transport and the set-up of
subprojects, its lexer and parser, and its static analyses next to the runs they
predict, TLC configurations that check them on small instances, and proofs that
TLAPS checks for all instances.

Contents: [the system](#the-system), [what is hard](#what-is-hard),
[modules](#the-modules), [runs](#the-runs), [fairness](#fairness),
[proofs](#the-proofs), [what the model shows of the code](#what-the-model-shows-of-the-code),
[abstractions](#abstractions-and-limits), [not modelled](#what-is-not-modelled),
[plan](#plan). Line numbers refer to the sources under `src/src/`.

## The system

| part (directory) | state it keeps | operations | what makes it correct |
|---|---|---|---|
| JSON-RPC loop (`libjsonrpc`) | parser state of the header, list of futures, output mutex | read a message, start its handler in a thread, write a reply or notification, wait | framing is never lost; one whole response to each request; threads are waited for, and bounded in number |
| dispatch (`libls`) | - | one handler for each method; results and exceptions become responses | every request is answered, also if its handler throws, unless the error itself cannot be sent |
| language server (`liblangserver/langserver`) | workspaces, `cachedContents`, options, diagnostics of the start, `smph`, the inotify watcher | didChange, didClose, didChangeConfiguration, initialized, shutdown, formatting, the queries, reparse on `.wrap` changes | an edit is analysed, and nothing is left behind by an old one |
| workspace (`liblangserver/workspace`) | trees, `reading`, `writing`, `completing`, running and waiting tasks | owns, patchFile and its update task, queries, dropCache, clearDiagnostics, fullReparse | queries and updates exclude each other; every permit comes back |
| tree (`libanalyze/mesontree`) | ASTs, overrides, metadata, scope, subproject state | fullParse, partialParse, clear | what the editor sent wins over the disk |
| lexer, parser (`libparsing`) | position, tokens, nesting | tokenize, parse | a program comes back as it was written; nothing is dropped in silence; an error leaves the statements before it alone |
| type analyzer (`libanalyze/typeanalyzer`) | scope of types, stack of branches and overrides, known versions and files | one visit for each kind of node | the types shown for an expression cover what a run computes; what is reported as an error is one; what a run lacks is warned about |
| partial interpreter (same) | - | which texts may an expression be, searching backwards from it | every directory a run enters is guessed, and no other where nothing is left to choose |
| options (`libanalyze/options`) | option lists | extract, check, look up | deprecated and unknown options are reported |
| subprojects (`libanalyze/subprojects`) | the list of subprojects of a tree | find wraps and directories, name the directory of a wrap in the cache, set up, parse | a directory of the cache is used for what was set up in it |
| wraps (`libwrap`), downloads (`libutils`) | directories, markers and downloads in the user's cache | set up, mark, reuse | only a complete, verified directory is taken for a subproject |
| types, functions, methods (`libobjects`, `libtypenamespace`) | tables | compatible types, lookup, versions | a value fits where Meson takes it; versions are ordered as Meson orders them |
| queries, formatting, linter, LSP types | - | functions of a tree; external formatter; JSON | - |

How they interact. `main` runs `JsonRpcServer::loop`, which starts a thread
(`std::async`) for every message. The thread runs the handler of the language
server, which goes through the workspaces: an edit takes `smph`, then `writing`
and `reading` of the workspace that owns the file, stores the text as an
override, clears the tree, and starts an *update task* that reparses the tree,
publishes its diagnostics and releases both semaphores: permits are taken by
one thread and released by another. Queries take `reading` around their work. A
watcher thread reparses a workspace when a `.wrap` file changes. Parsing a
project finds its subprojects and sets their wraps up in a cache directory that
all servers of a user share.

## What is hard

`PROJECT.json` lists every hazard with its line. The main groups:

* *Interleaving.* Threads are not ordered by the messages they serve; edits,
  updates, queries, closes and reparses of one workspace meet. Three binary
  semaphores, one of them handed from thread to task, have to come back on
  every path, the exceptional ones included.
* *Stale state.* Diagnostics of a file that left the analysis; contents from
  disk where the editor has newer ones; two caches of the edited text
  (`cachedContents` for the formatter, overrides for the analyser).
* *Partial failure.* The analysis, a query, or the publishing of diagnostics
  throws in the middle; a handler throws after it took a semaphore; the error
  that answers an exception throws in turn. A program, a download, an extraction
  or a copy fails.
* *Crash and restart.* The cache outlives the process. Whatever a crash leaves
  in it must not be taken for a subproject.
* *Broken text.* While a file is edited it is wrong most of the time, and what
  the parser makes of it is what every query sees.
* *Prediction.* The analyses visit a build file once, in the order of its text,
  while a run takes one branch of an if, goes round a loop any number of times,
  and enters a directory or not. All branches share one scope, which even
  survives the edit it was computed from; versions and files that a condition
  asks for are pushed and popped around its block; the partial interpreter walks
  backwards through blocks that may not have been run.
* *Framing.* Bodies contain anything, damaged ones included; replies of many
  threads go to one output.

## The modules

    AnalysisService   <--implements--   LanguageServer  (extends Workspace)
                                             ^
                            MCLanguageServer; LanguageServerProofs, which
                            ServiceProofs extends, which EditProofs extends
    JsonRpcServer     <-- MCJsonRpcServer, JsonRpcProofs
    WrapSetup         <-- MCWrapSetup; WrapSetupProofs, which WrapRetryProofs extends
    Subprojects       <-- MCSubprojects, SubprojectsProofs
    LexedBuffer       <-- LexerProofs       (LexedBuffer extends Lexer)
    BuildFile         <-- MCBuildFile       (BuildFile extends LexedBuffer and Parser)
    Guesses           <-- MCGuesses         (Guesses extends PartialInterpreter,
                                             instantiates MesonRun)
    Analysis          <-- MCAnalysis        (Analysis extends MesonTree, which extends
                                             TypeAnalyzer; instantiates MesonRun)
    TypeAnalyzer extends Ast and Types and instantiates PartialInterpreter

**Workspace** (`workspace.hpp`, `workspace.cpp`, `mesontree.cpp`). The trees of
all workspaces (`ast`: the text each file's AST was made from, `NoText` if the
file is not analysed), what the editor sent (`overrides`), the three semaphores
`reading`, `writing`, `completing`, the update task of each workspace and what
the client shows. `Patch` is `patchFile` after its two `acquire`s; the task goes
from `parse` through `publish` to the release of `reading` and then `writing`;
`ParseThrows` is the `catch` branch, whose releases come in the other order.
`Effective` and `Parsed` are `parseFile` and `partialParse`: which text wins,
and which files a text of the main file reaches (`Covers`).

**LanguageServer** (`langserver.cpp`, `ls.cpp`). Handler threads and the
watcher. `pc[h]` is the point its handler has reached, `at[h]` the workspace of
the loop over workspaces it is in. Every action is what one thread does between
two points where another can get in: an acquire, the work under it, a release, a
publish. The environment sends messages (`Send...`), with the last edit of a
file remembered in `client`. A thread whose message needs several workspaces
goes on with the next one (`Continue`). `ForeignChange` is a `didChange` of a document
that is no file: `onDidChangeTextDocument` takes `smph` before `extractPathFromUrl` looks
at the URI and throws (`langserver.cpp:400-401`), and `ls.cpp:73-80` turns such
URIs away for requests only.

**AnalysisService**. What a workspace promises, without semaphores, tasks and
threads: a monitor that is idle or in the hands of one query or one edit. A
tree is rebuilt only inside an edit, from the accepted texts and otherwise
from disk, and an answer is the analysed text of a moment without an edit. `Reload`
is the exception the code makes, a reparse that waits for nobody: it replaces
trees at any moment, forgets the edits, and may take the trees from under the session it
falls into (`freed`): such a query may answer anything, and such an edit rebuilds nothing.
`LanguageServer!Service` maps the detailed state to it (a session is an edit
while a task holds `reading`, a query while a thread does).

**JsonRpcServer** (`jsonrpc.cpp`, dispatch of `ls.cpp`, `main.cpp`). The loop as
a state machine over a sequence of tokens: a token stands for a run of
characters that the loop does not tell apart, a line end for CR and LF, and
lengths count tokens. `ReadHeader` is the character-wise header automaton with
its five states, `ReadBody` the read of Content-Length characters, then
parsing, dispatch, the drain at the 100th message (`Drain`), and the two-part
output under `output_mutex` (`WriteHeader`, `WritePayload`) that replies of all
threads and error answers of the loop share. Errors can fail as well. The error of the
loop quotes the piece of the body the parser stopped at, and when this is not UTF-8
`dump` throws out of the `catch` in `loop` (`ComplaintThrows`); a body that the end of
the input cuts off is filled with 0xFF, so that it may come to that, too. A length
that is no number throws in `stoi` (`LengthThrows`). The error of a request quotes its
exception; when it cannot be dumped the thread ends with an exception
(`ErrorTextThrows`), which stays in its future until `get` throws it, in a drain
or in `wait` (`FutureThrows`). In all three cases the process ends (`alive`). What a client is that keeps to the
protocol is said once, for any number of messages: `Framed` describes a set of
sessions by their frames, of which the last may be cut off anywhere, and `Once` a
client that sends no body twice. `MCJsonRpcServer` makes its sessions from scripts and
TLC checks that they are such sessions (`SessionsAreFramed`).

**WrapSetup** (`subprojectstate.cpp`, `subproject.hpp`, `libwrap`, `utils.cpp`).
The life of one wrap's directory over several starts of the server: look for
the marker, remove what is left, create, set up in the way of the wrap's kind
(download, check, extract; merge; or run git, svn, hg), patch, apply diffs,
mark. `Crash` ends a setup at any step; what is on disk stays. The steps inside
a download, a copy, an extraction and a merge are separate, because a crash or
another process can come between them. The wrap is chosen at the start from all
that `MCWrapSetup` lists.

**Subprojects** (`subprojectstate.cpp`, `subproject.hpp`). Which subprojects a tree has.
`FindSubprojects` looks through the wrap files and directories and compares what
`createIdentifierForWrap` (`Identifier`) makes of each wrap file with the names in
the cache; `SetUp`, `SetUpFails` and `SetUpThrows` are the `init` of one wrap, whose steps
are the subject of WrapSetup; `ParseSubprojects` puts the new tree in the place of the
old one. The user edits wrap files and directories at any time, and `End` is the end
of the server, after which the cache is still there.

**Lexer** (`lexer.cpp`). `Lex` is the constructor and `tokenize`, a function from
text to token types; `TokenizeOne` is one call of `tokenizeOne` with all it
returns, the counters of open brackets (which decide whether a newline ends a
line); `Round` is a round of the loop around it, with what is skipped after a failure.
The loops of the code are recursive functions on positions or on the state of the lexer,
or the first position with some property, so that the module can be proved about.

**LexedBuffer**. A file in the editor and the first half of `MesonTree::parseFile`: after
each edit (`Insert`, `Erase`) `LexFile` lexes the text and, for comparison, each of its
parts that ends with a newline. Texts and edits are arbitrary here.

**Parser** (`parser.cpp`, `parser.hpp`). One operator for each member function,
from `E9` to `Statement` (`e1`) and from `Line` to `Parse`; a loop of the code is an
operator of its own (`OrTail`, `ArgsFrom`), and so is what follows a call whose result
is used more than once (`AfterOperand`, `Endif`). The state of the parser goes through
them as a record: position, number of errors, result. `SkipTo` is the recovery
(`seekTo`, `seekToOverInvalidTokens`).

**BuildFile**. A LexedBuffer that starts as the text of a well-formed program, and the
other half of `parseFile`: `ParseFile` is `LexFile` followed by the parser, on the text and
on each of its parts that ends with a newline; the trees are in `trees`. `Written` makes the text of a program from a table of
precedences, independently of the parser, in two layouts; `Spell` gives back the
tokens a tree stands for.

**Ast** (`node.hpp`, `node.cpp`). The tree the analyses walk: a node is a record of
its type, name, text and children. A text is a sequence of atoms, pieces of a
string that no analysis looks into. A place in a file is a sequence of frames
(block, branch, statement), which is how the modules below speak of parents.

**PartialInterpreter** (`partialinterpreter.cpp`). What the argument of `subdir`,
`set_variable` or `get_variable` may be. `AbstractEval` looks for the assignments
of a variable backwards through the statements before the call and the blocks
around it and gives back what they may yield as nodes; `Calculate` evaluates
an expression in the call itself to texts. Each operator is the member
function of its name.

**MesonRun**. What Meson does with a build file. It is not part of the repository:
it is the reference that predictions are compared with, and is written from what
the code expects of Meson. A run goes from statement to statement, conditions and
options are chosen freely, and a step that Meson would reject is not possible.

**Guesses**. `MesonRun` and the partial interpreter on one program: at each
`subdir` the run makes, what it is called with is kept together with the
guesses.

**Types** (`type.hpp`, `type.cpp`, `typenamespace.cpp`, `function.cpp`, `version.hpp`,
`argument.hpp`). Types as a tag with the types inside, `Compatible`, `dedup`,
the lookup of functions and methods, arguments, and the comparison of versions
with `After`. The tables of Meson's functions are a constant.

**TypeAnalyzer** (`typeanalyzer.cpp`). The visitor as a state machine: `Visit` is the
visit of a statement, or the end of a block; `at` is the place it has reached.
`scope` holds the types of the variables, `stack`, `overridden` and `selections` what
the branches of the ifs around the place assigned, what was there before, and what
may be there after; `needUse` the assignments that want a use, `versions` and
`versionVars` what conditions say of the version. Types of expressions are an
operator by structure (`TypesOf`); what is reported goes to `found`, and the types of
all nodes, at the moment of the visit, to `sights`.

**MesonTree** (`mesontree.cpp`, `mesontree.hpp`). What one tree keeps from an analysis to the
next: `PartialParse` begins with the scope that the last one left, `Clear` empties
everything else.

**Analysis**. A project that is analysed, edited, analysed again, and then run: at
each step the values the run computes are compared with the types that the
analyzer shows at this place, and what the run gets past with what was reported.

## The runs

All passing runs finish in about three minutes or less; those of state machines
have a type invariant.

| run | question | instance | checks |
|---|---|---|---|
| `edits` | do edits of files, closes and queries of one workspace leave it consistent, also if the analysis throws? | 2 handlers, 3 messages, a project (2 files) with a subproject (1 file), 3 texts of which one drops the subdirectory | `PermitsReturned`, `NoStaleDiagnostics`, `EditorWinsOverDisk` |
| `settles` | does every edit of a file reach the client, and everything come to rest? | 2 workspaces of one file, 2 handlers, 3 messages, fairness | `CachedContentsAnalysed`, `DiagnosticsCurrent`, `EditsReachClient`, `ServerSettles` |
| `faults` | what holds whatever throws, and while trees are replaced without a lock? | all messages, edits of documents that are no files among them, the watcher, all exceptions, 2 messages | `TypeOK`, `QueriesExcludeUpdates`, `HoldersHavePermits`, `UpdateAssertion`, `AnswersSeeAcceptedEdits`, `TreesChangeUnderLock`, `ImplementsService`, `OnlyFaultsLosePermits` |
| `jsonrpc` | is framing kept, and is everything answered when main returns? | eight sessions: two whole ones with bodies that look like headers, with a damaged body that is UTF-8 and with one that is not, ending within a body and within a header, with `exit`, with a length that is no number; one request whose error may quote what is not UTF-8; drain at 2 | `OutputWellFormed`, `AtMostOneResponse`, `FuturesBounded`, `AnsweredWhenDone`, `HandledAsSent`, `Terminates`, `TypeOK` |
| `wraps` | what may be left in the cache, and does a retry succeed? | 46 wraps of all kinds, one process, 3 setups, 2 crashes anywhere, any call may fail | `MarkedIsComplete`, `MarkedUntouched`, `FaultlessAttemptSucceeds`, `AttemptsEnd`, `TypeOK` |
| `subprojects` | is the cache used for the right wraps, whatever is edited? | 2 names, 7 texts of a wrap file, two pairs of which share a name in the cache, 2 edits, 2 full parses, with downloads or without, setups that fail, ends of the server | `CachedIsCurrent`, `TreesStayWhole`, `TypeOK` |
| `parsing` | what do lexer and parser make of programs, and of programs that were just edited? | every expression of two levels, with one operator of each precedence, and blocks up to nested ifs, in two layouts (1516 texts); every insertion of one of 46 characters into, and every removal of a part of, nine programs | `RoundTrip`, `CleanTreeSpellsText`, `EarlierStatementsSurvive`, `SuccessEndsInEof` |
| `guesses` | does the partial interpreter find every directory a run enters? | 5800 build files: a first, a middle and a last statement out of texts, lists, dictionaries, string methods, options, branches and loops; every run of each | `GuessesCoverRuns`, `NoPhantoms` |
| `types` | is what the type analyzer shows and reports true of the runs? | nine families of projects: values and operators; loops; uses; names given as texts; guards on versions; directories; files on disk; statements after which nothing runs; edits of all these. Four versions of Meson, every run of each | `TypesCoverRuns`, `NoFalseErrors`, `UnusedIsUnread`, `NewCallsAreWarned` |
| `ignored`, `shared`, `loopids` | violations, see [below](#what-the-model-shows-of-the-code) | the smallest instance that shows them | `IgnoredSubprojectsHidden`, `UnfinishedDetected`, `LoopIdsReported` |

Why the bounds are enough. Two handlers, the watcher and one task for each
workspace give every pair of parties that compete for a permit; a third
message lets a handler be reused while the other is still in the middle of its
message, which is how permits get lost or doubled. A tree of two files is the
least in which a file can leave the analysis; a subproject is the least in which
one workspace has two trees; two workspaces are the least in which a permit of
one could be given to the other. For mutual exclusion the bounds do not matter:
it is proved. In `jsonrpc` two is the least drain at which a message arrives
between drains, and the sessions cross it twice. In `wraps` three setups with
two crashes are a crash during the recovery from a crash, and a clean attempt
after it. In `subprojects` two full parses are one that sets up and
one that finds, and two edits are one before and one while a wrap is set up. In `parsing` two levels put every operator on either side of every
other, which is where precedence and grouping show, and one edit is enough to
reach every error path of the parser but those that only see the junk that
another one left. In `guesses` and `types` a program is made of three parts: one
that gives a variable a value, one that changes it or hides it in a branch, a
loop, a directory or behind a guard, and one that uses it; this is the least in
which an analysis has to combine what two statements say about a third. Loops
over two items are the least that go round, ifs in ifs and in loops the least
in which a stack of branches has two entries. A new analysis after an
edit begins with what the last one left, so one edit is enough. The bounds are the constants `MaxMessages`, `MaxAttempts`,
`MaxCrashes`, `MaxEdits`, `MaxStarts`, `Drain` and the sets in the MC modules.

`parsing`, `guesses`, `types` and `loopids` have an end, after the last edit or the last
statement of a run, and do not check for deadlock.
`faults` switches the deadlock check off: with an exception in a query the
code really stops answering (see the hazards); the actions after it are in the
model, and the run says what survives. Of the four faults that lose a permit it
reaches three; an edit that finds its file gone takes three messages, and a disk
without the `subdir` call, and is left to the theorem. In all other runs the only states
without a successor would be those at rest, where `Rest`-like steps are allowed
explicitly, so that a deadlock is an error. In `subprojects` the server
may end at any time, so there are none.

Deliberate restrictions of a run are stated as constants or in the property:
`edits` and `settles` have no reparse, no exception in a query and only documents with
`file:` URIs, since `PermitsReturned` and `ServerSettles` fail in the code otherwise (an edit
of any other document keeps `smph`, and no edit is accepted after it; `faults` and
`PermitsNotLost` have such edits). They send no requests for formatting, which take
no semaphore. `settles` has no second file whose subdir call may vanish. `FaultlessAttemptSucceeds` speaks of attempts in which no call
failed (`hindered`) and that did not start with only damaged downloads in the
cache (`hopeful`); those are never removed, so that such a wrap stays unusable:
this is what the code does. `Reporting` leaves out wraps whose setup does not
report a failure: `mergeDirectories` swallows exceptions, `extractFile` skips
entries whose path contains `..` and reports success (`utils.cpp:179-183`), and `hg` revisions
other than the tip are not checked out.

## Fairness

`LanguageServer!FairSpec`: weak fairness for each thread and each task, no
fairness for the environment. Threads come from `std::async(launch::async)` and
are scheduled by the system. Semaphores of the standard library do not promise
first come, first served, and the model does not assume it: the number of
messages is finite, so nobody can be overtaken for ever, and weak fairness is
enough. `JsonRpcServer!FairSpec`: weak fairness for the loop, each handler and
each sender. `WrapSetup!FairSpec`: a setup that has begun takes steps; crashes
and new starts are not fair. Programs and downloads that hang for ever are not
assumed to end by anything but this: curl has its timeouts (`utils.cpp:59-62`),
child processes do not.

## The proofs

| theorem | says | assumptions |
|---|---|---|
| `LanguageServerProofs!TypeCorrect` | `Spec => []TypeOK` | the constants' assumptions |
| `LanguageServerProofs!OneHolder` | `Spec => []SemaphoresInv` | the same |
| `LanguageServerProofs!Exclusion` | `Spec => []QueriesExcludeUpdates` | the same |
| `LanguageServerProofs!PermitsHeld` | `Spec => []HoldersHavePermits` | the same |
| `LanguageServerProofs!AssertionHolds` | `Spec => []UpdateAssertion` | the same |
| `ServiceProofs!EditorWins` | `Spec => []EditorWinsOverDisk` | the same |
| `ServiceProofs!AnswersCurrent` | `Spec => []AnswersSeeAcceptedEdits` | the same |
| `ServiceProofs!ChangesLocked` | `Spec => TreesChangeUnderLock` | the same |
| `ServiceProofs!Implements` | `Spec => ImplementsService` | the same |
| `EditProofs!PermitsNotLost` | `Spec => OnlyFaultsLosePermits` | the same |
| `EditProofs!PermitsComeBack` | `Spec => []PermitsReturned` | `FilesStay`, `Careful` |
| `EditProofs!NoDeadlock` | `Spec => []SomebodyMoves` | the same, and `WatcherLives` |
| `EditProofs!MessagesCountDown` | `Spec => [][CountsDown]_vars` | the constants' assumptions |
| `EditProofs!NothingStale` | `Spec => []NoStaleDiagnostics` | `Undisturbed`, `PublishesAll` |
| `EditProofs!NothingMissing` | `Spec => []DiagnosticsCurrent` | the same, and `~MayMiss` |
| `EditProofs!EditsAnalysed` | at rest, the cached text of each file in `AlwaysAnalysed` is the analysed one | `Undisturbed`, `NeverClosed`, `AnalysesSucceed` |
| `EditProofs!NoEditOnlyCached` | `Spec => []CachedContentsAnalysed` | the same, and `AlwaysAnalysed = Files` |
| `JsonRpcProofs!TypeCorrect` | `Spec => []TypeOK` | the constants' assumptions |
| `JsonRpcProofs!ThreadsBounded` | `Spec => []FuturesBounded` | the same |
| `JsonRpcProofs!AllAnswered` | `Spec => []AnsweredWhenDone` | the same |
| `JsonRpcProofs!OutputWhole` | `Spec => [](Distinct => OutputWellFormed)` | the same |
| `JsonRpcProofs!AnsweredAtMostOnce` | `Spec => [](Distinct => AtMostOneResponse)` | the same |
| `JsonRpcProofs!FramingKept` | `Spec => []HandledAsSent` | a client that keeps to the protocol (`Framed`) |
| `JsonRpcProofs!SessionAnsweredOnce` | `Spec => [](OutputWellFormed /\ AtMostOneResponse)` | `Framed`, and no body is sent twice (`Once`) |
| `JsonRpcProofs!SessionAnswered` | the process is not ended by an error, and when main returns every request that was sent has a response | `Framed`, `WellBehaved` |
| `JsonRpcProofs!StepsCountDown` | `Spec => [][CountsDown]_vars` | the constants' assumptions |
| `WrapSetupProofs!WrapTypeCorrect` | `Spec => []TypeOK`, any number of processes | the same |
| `WrapSetupProofs!SetupInvariant` | `Spec => []SetupInv` | at most one process (`Alone`) |
| `WrapSetupProofs!MarkedComplete` | `Spec => []MarkedIsComplete` | `Alone` |
| `WrapSetupProofs!MarkedStays` | `Spec => MarkedUntouched` | `Alone` |
| `WrapRetryProofs!RetrySucceeds` | `Spec => []FaultlessAttemptSucceeds` | `Alone` |
| `WrapRetryProofs!SetupsCountDown` | `Spec => [][CountsDown]_vars`, any number of processes | the constants' assumptions |
| `SubprojectsProofs!SubprojectTypes` | `Spec => []TypeOK` | the constants' assumptions |
| `SubprojectsProofs!CacheIsCurrent` | `Spec => []CachedIsCurrent` | the same |
| `SubprojectsProofs!WholeTrees` | `Spec => []TreesStayWhole` | the same |
| `LexerProofs!LexEnds` | the loop of `tokenize` ends | none: any text over any characters |
| `LexerProofs!LexSucceedsOrReports` | `Lex` ends with TOKEOF or has reported an error | none |
| `LexerProofs!BufferSuccessEndsInEof` | `BufferSpec => []SuccessEndsInEof` | none |
| `LexerProofs!LexedLinesStay` | what is read up to a line end without a failure are the first tokens of the whole text | none |
| `LexerProofs!BufferEarlierTokensSurvive` | `BufferSpec => []EarlierTokensSurvive` | none |

The assumptions are about constants, each for something the code really does
that makes the theorem false without it:

* `Undisturbed`: no configuration change and no changed wrap file. Both replace
  the trees without the semaphores (`workspace.cpp:463`), so that an update may lose its
  tree and what it publishes is arbitrary. The theorems of ServiceProofs do not
  need this: `AnalysisService` says what a reparse may do, and they say that it
  does no more.
* `FilesStay`: `Undisturbed`, or the build definitions on disk reach all the files,
  so that a reparse takes none out of the analysis. An edit brings a file in with
  its `subdir` call, another thread finds it there, a reparse from disk drops
  both, and `patchFile` returns with the semaphores (`workspace.hpp:95`).
* `Careful`: neither a query nor a publish throws, and only files are edited
  (`FilesEdited`), since the permit would be lost (`workspace.cpp:547`,
  `workspace.hpp:170`, `langserver.cpp:401`).
* `WatcherLives`: no wrap file changes, or neither a parse nor a publish throws:
  an exception ends the watcher with `smph` (`langserver.cpp:364`).
* `PublishesAll`: no publish throws, and what `initialize` found has been published
  before the first edit. `onInitialized` publishes it at any later time
  (`langserver.cpp:379`).
* `~MayMiss`: no analysis throws and no subproject is ignored; where one does or is,
  diagnostics may be missing, but are never old.
* `NeverClosed`: a `didClose` whose thread is late drops the override of an edit that
  was sent after it, so that the text stays in `cachedContents` only.
* `AnalysesSucceed`: no analysis throws. One that does leaves the files it did not come
  to without an AST, and an edit of such a file finds no workspace that owns it.
* `AlwaysAnalysed = Files`: no edit of a main file takes another one out of the
  analysis; an override of a file that is not analysed is not applied when it returns.
  `EditsAnalysed` needs nothing of the kind: it speaks of those files that always stay.
* `Framed`: each message begins with a header whose first line is the right
  Content-Length. The premise is about constants and is satisfiable: for the
  sessions of the run but the one with the bad length TLC evaluates it.
* `WellBehaved`: all tokens are UTF-8, the input does not end within a body, and no request is
  sent that ends the process (`exit`) or whose error may not be UTF-8 (`MayQuote`). Each of them
  ends the process with requests unanswered (`jsonrpc.cpp:174`, `ls.cpp:190-193`). A
  damaged body in UTF-8, or an input that ends within a header, is allowed.
* `Alone`: at most one process sets up the wrap.

*Semaphores.* `QueriesExcludeUpdates` is not inductive: that a thread in `read`
excludes others depends on the permit being 0, and that on who else could
release it. `SemaphoresInv` says so: each thread is at a point that its message
leads to (`OnTrack`); each semaphore is 0 while somebody holds it, and has one
holder (`OneInSmph`, `OneReads`, `OneWrites`); `completing` is only set by the
holder of `reading`, or left behind by a query that threw, in which case
`reading` is 0 for good (`ReaderCompletes`). Steps are sorted by what they can
disturb: most move one thread without a new role (`Quiet`), each acquire and
release has a lemma of its own, and the steps of the task are those of
`UpdateKeepsRoles`. Exceptions and unsynchronised reparses are among the steps,
so exclusion is proved in spite of them, for any number of threads, workspaces,
files and messages.

*Edits and queries.* That an answer is made from the last accepted edit rests on
who may touch a tree between two steps of a thread. `ServiceInv` says: threads
and tasks are at home in the workspace they lock (`ThreadsAtHome`, `TasksAtHome`), and
a query whose trees were freed, which may see anything, has no accepted edit to see
(`FreedSeeNoEdits`): the reparse that freed them dropped the overrides, and no edit
gets in before the query ends. `EditorWinsOverDisk` needs none of this: every step that changes an
override or a tree brings the two into line.

Two facts about threads are invariants of their own: each handles a message that was
sent, or a change the watcher saw (`Received`), and the file of an edit stays in the
analysis from `owns` on until it is patched (`StaysOwned`, under `FilesStay`). No
single lock gives the second: other edits wait for `smph`, and an update, which could take the
file out, belongs to an edit before it and ends before `writing` is free. For the
theorems that assume `Undisturbed`, `TreesInv` adds that no task works on a tree that
was freed (`NothingFreed`).

*Cached texts.* `CachedContentsAnalysed` speaks of states at rest, when nobody is on the
way any more. What is inductive (`CacheInv`): a cached text is in the overrides, or
an edit of this file is on its way and has not passed the workspace of the file
(`CachedOrOnItsWay`); an edit on its way is the last one cached, because `smph` is
held from the cache to the patch (`EditsCached`); and a file that is always analysed
has no AST only while its update is parsing, and then `reading` is taken
(`ParsedUnlessUpdated`), so that `owns`, which comes later, finds it.

*Permits.* `PermitsReturned` speaks of states at rest; what is inductive is that each
permit that is not free is in somebody's hands (`SmphInHands`, `PermitsInHands`), an edit that
passes it to its update task included. `PermitsNotLost` shows which steps break that:
`ForeignChange` loses `smph`, and nothing else does (a watcher that died keeps it in its
hands); `LosesPermits`, three faults, lose those of their own workspace. It needs no
assumption, and `PermitsComeBack` is what is left of it when `Careful` and `StaysOwned`
exclude the four.
`NoDeadlock` follows from the same invariant: who
has `smph` may wait for `writing`, who has `writing` for `reading`, and who has `reading`
waits for nobody, so in a state that is not at rest an update is running or some thread
is at a point where it need not wait. `ENABLED` is out of the prover's reach, so `Waits`
names those points by hand: `WaitingStops` proves that a thread that waits takes no step,
and that every other one can take a step is what the deadlock check of the run `edits`
covers on its instance.

*Refinement.* A step of the server begins or ends an edit or a query, rebuilds trees,
fixes an answer, reloads a workspace, or changes nothing that `AnalysisService` sees.
`Session` is a function of the semaphores' holders, so the lemmas are by what a step
does to them (`SessionSet`, `AnswerSet`); `PatchRefines` is the step in which an edit
begins, where `Exclusion` gives the guard of `BeginEdit`. A reparse maps to `Reload`, and the
`dangling` threads and tasks of the detailed state to `freed`.

*Diagnostics.* For each file, what the client shows is due, or somebody is about to
publish something for it that is (`ShownInv`). The update parses the trees it
has cleared before, keeps the list of files that were shown, and publishes an empty
list for those that are gone: these are `ParsesCleared` and `PublishesDue`.

*JSON-RPC.* `FuturesBounded` follows from what is counted (`Counted`): each message
since the last drain has at most one future. `AnsweredWhenDone` needs that futures are
only forgotten after their threads have ended, and that a request whose
thread has ended has its reply in the output (`Outgoing`, `Served`). A thread that ended with
an exception is never forgotten: its future is still there when the loop, or `wait`, comes to
it, and that ends the process instead. So the theorem promises answers when main
returns, and not that it does; `SessionAnswered` says for which clients nothing but
main's return ends the process. Its invariant is `Unharmed`: no thread has failed, and what
is parsed is UTF-8. For the
output itself, `Orderly` says that whoever has `output_mutex` has written its header
last, and that a request has a reply in the output only when its thread has nothing
left to send. The module knows a message by its body, so a client that sends one
body twice has two messages with one thread; `Distinct` leaves this out of the
theorems; the sessions of the run send no body twice.

`HandledAsSent` is about the framing: the loop knows nothing but the next character and
a length, yet never takes a part of a body for a header. The inductive invariant `Place`
says where in the session it is. While it reads a header, what it has read is
the beginning of the header of the next frame, the automaton is in the state this
beginning leads to, and from the first line end on the length is that of the frame
(`InHeader`); then the input goes on with the body (`InBody`), and after it what is left is
again a session of the client whose bodies, after those handled, make up what was sent
(`AfterFrame`, `AfterMessage`). An error about a body either leaves the loop there
or ends the process, so that the place is kept as long as there is one. The induction over frames is in `Framed`, a
property of a set of sessions that is closed under taking a frame off, so that the
invariant needs no recursion.

*Wraps.* `MarkedIsComplete` is not inductive: that the marker is only created in
a complete directory depends on every step before it. `SetupInv` says what the
directory contains at each point: nothing of a patch while the source is being
made, a whole source from `patch` on (for wraps that report their failures),
a whole patch from `diffs` on, as many diffs as were counted, and that a
marker excludes every point at which the directory is changed. The checked hash
matters at `extract`: the cached file is good there and nobody changes it
in between, which needs `Alone`. With a second process the theorems are false:
the run `shared` shows why. `RetrySucceeds` follows an attempt in which no call fails:
at each point the mirror that is tried will do or another one is left, for
the present download and those to come (`Promises`); that the temporary file is
good when it is copied comes from the download just before, whatever an earlier
attempt left there. Types need one conjunct of `SetupInv` only
(`Running`), which holds for any number of processes.

*Subprojects.* Two facts carry `CachedIsCurrent`: every directory has the name of the
wrap file it was made for (`NamedByWrap`), and what is registered or in use as set up has a
marked directory in the cache (`RegisteredInCache`, `UsedInCache`). With
`IdentifiersTellApart`, which is about the identifier alone, the wrap file that finds a directory
and the one it was made for ask for the same. `TreesStayWhole` needs that a full parse
makes directories anew for those wraps only that are not marked, also when two of its
entries share a directory.

*Termination.* Liveness is beyond the prover, but its safety half is not: that nothing can
go on for ever. `StepsCountDown`, `SetupsCountDown` and `MessagesCountDown` measure what
is left and show that each step makes it smaller. For the server that is one number for the loop,
mostly the length of the input, and one for each thread, which no other thread
changes; only the loop starts threads, one for each message. For a setup it is a number by
point, with the programs, diffs and mirrors that are left. The one loop that could go
round is a checkout that fails and is tried again after a fetch: the second
time it is one that gives up (`OneRetry`, `CheckoutFails`). For the language server (`MessagesCountDown`, with reparses and all
exceptions) it is a number for each thread, by the point of its handler and the workspaces its
loop has not reached, and the lists of diagnostics it is publishing, which are
finite and lose an entry with each of its other steps; an update has the
same, and only an edit that leaves `patchFile`, which lowers its own number, gives
one something to do. With the fairness of the specification, which keeps things going, these are
`Terminates`, `AttemptsEnd` and, with `NoDeadlock`, `ServerSettles`, which TLC checks.

*Lexer.* What a recursive function computes is a matter of induction, over numbers
here. The library's induction theorems take an operator as a parameter, which the installed
provers cannot instantiate, so `LexerProofs` starts with induction over a set and a
measure (`MeasureInduction`, from the fact that `<` is well-founded). A recursive
function is a `CHOOSE` of a solution of its equations: `RecursionExists` shows, for
equations whose steps lower a measure, that there is one, and `RecursionUnique` that there is
no other. The measure is the distance to the zero byte that the constructor
appends: every lookahead that is not the zero byte has another character behind it
(`CharBeforeEnd`), which is why neither a string nor a comment nor a continued line
runs over the end. `TokenizeOneReads` sums up what a call of `tokenizeOne` may do, and
`TokenizeKeeps` is the rule for the loop: what each round keeps holds when it is over.
`EarlierTokensSurvive` compares two runs of the lexer, one on a text that ends
after a newline and one on a text that goes on (`SameLines`). They may differ only in
what reads that newline or beyond: no run of characters, no closed string and
no lookahead does so, but a comment or a continued line may, and then the first text
has no token left but TOKEOF (`TokenStartAgree`). A string that is still open at the end is a failure of the
first run. The premise of the property, no failure, is needed for this: `TokenizeAgrees`.

Only model-checked: liveness (`EditsReachClient`, `ServerSettles`,
`Terminates`, `AttemptsEnd`) and everything under fairness, which the prover does not
reach, as it does not reach `ENABLED`; and what the parser, the partial interpreter and the
type analyzer make of programs (`parsing` but for the lexer, `guesses`, `types`). Their
modules are mutually recursive over trees as the code is, with `RECURSIVE` operators, and the
prover has no SMT backend for a module that reaches one.

## What the model shows of the code

Three runs end in a violation of what the repository's documents say.

* `ignored`: with `ignoreDiagnosticsFromSubprojects`, an edit of a file of a
  subproject shows its diagnostics (`workspace.hpp:151`), although
  `docs/Configuration.md:22` says they are not shown. `parse` and `fullReparse` look
  at the option, the update task does not.
* `shared`: two servers setting up one wrap. One finds the other's unmarked
  directory, removes and recreates it (`subprojectstate.cpp:112-120`); the
  other one, finished, writes its marker into the emptied directory; the first
  one's clone fails. What remains is marked and incomplete, and is never
  reattempted, against `CHANGELOG.md:277`.
* `loopids`: a `foreach` with one identifier over a dictionary is not reported,
  because the test of the flag `foundAny` is the wrong way round
  (`typeanalyzer.cpp:1806`; the function for two identifiers has it right,
  `:1852`), against `CHANGELOG.md:345`.

Behaviours that the modules contain and that no document excludes are listed as
hazards with a note: a completion that is made from the tree before the edit that was
sent ahead of it, since nothing orders their threads (`jsonrpc.cpp:57`; once the edit was
accepted, nobody sees the old tree: `AnswersSeeAcceptedEdits`), permits that are lost after an exception in a query or in
publishing, trees that are freed under a running update, an override that is
not applied when a file returns to the analysis, downloads that stay damaged,
`foo(a not)` that is parsed without an error (`parser.cpp:137`), an
unterminated string that takes the newline after it along, so that the
statements below it are lost (`lexer.cpp:643`), and the programs that the analyses
do not follow, listed under [abstractions](#abstractions-and-limits).

## Abstractions and limits

*Language server.* A text is a member of a small set; `Covers` says which files
a text of the main file makes part of the tree, `Faulty` which texts have
diagnostics, and the diagnostics of a file are represented by its text. A file
belongs to one tree. A file is owned exactly if it has an AST: `ownedFiles` is
filled while build definitions are visited (custom parser, the default). Options
files are owned without an AST and left out. `owns` is one atomic step. Clearing
and new diagnostics of one update are published in one step, except when
publishing throws in between. Trees that were freed give arbitrary results.
`settingUp` and `running` are written and never read, so they are not modelled.
`Init` is the state after `initialize`. Message ids are distinct. An exception in a
handler ends its message here; what becomes of the answer, and of the process when
the error cannot be sent, is in `JsonRpcServer`. A `didClose` of a document that is no file
throws before it takes anything.

*JSON-RPC.* A token is UTF-8 or it is not (`IllFormed`), and what an error quotes is one token:
nlohmann's parser stops at the first token with which the body is no beginning of a
valid one, and it quotes the token it stopped at. In a body that was cut off
that is the first 0xFF. `exit` calls `_exit(0)` before anything else could look at
`shouldExit`; the code after it is not modelled. The header text accumulates
over its lines as in the code, so that only its first line can give the
length; the sessions put it first.

*Wraps.* Wraps interact only through downloads of the same URL, so one wrap is
followed at a time. The retries with other CA files are part of `Fetch`.
`remove_all` deletes in any order and may be cut short. A server may answer with
something else than the file. An exception that leaves `initSubprojects` has the
effect of `Crash`. The `git pull` at the end, whose failure is ignored, is part of
`SetUp`. The programs are assumed to be executable: when `execvp` fails, the
forked child of `launchProcess` returns into the setup instead of ending
(`utils.cpp:340-345`), a behaviour the plan has a module for.

*Subprojects.* What a wrap file says is reduced to what the identifier is made of and a
number for all other lines; `Normalized` gives the path for each URL. Identifiers of different
kinds (a path, two kinds of hashes) are taken for different. `CachedIsCurrent` takes texts
for alike that the code does not tell apart: URLs that differ in a character that is
replaced, and revisions that differ in their first character if no space follows
the `=`, because `lookAhead` starts one too far (`subprojectstate.cpp:222`). It
also leaves out a directory that was set up from a text edited in between
(`asked` and `made` differ), which is then used for the old text. A directory that a wrap
names as well is registered a second time, since the `continue` at
`subprojectstate.cpp:144` belongs to the inner loop. One full parse runs at a time; what
several of them, in one server or more, do to one directory is the subject of the run
`shared`. Subprojects of subprojects find theirs in the same way and are left out, and so is
`subproject_dir`. Files below `packagefiles` are not part of any name, so an edit of them
reaches no directory that is set up; they are not modelled.

*Lexer and parser.* A run of characters that nothing tells apart is one. `b` after a
zero stands for the three prefixes of bases; values of numbers, and their
overflow, are left out, as are all locations: the location of an unexpected
character's error, whose end is never written (`lexer.cpp:610`), is a hazard
without a property. The code for Windows that ignores zero bytes at the end is
left out. `RoundTrip` takes "not" and "-" to bind tighter than comparisons
and `and` to group to the right, as e6 and e3 do. `CleanTreeSpellsText` leaves
parentheses, commas and line ends to `RoundTrip`. What the language server sees is the
custom parser, which is the default (`useCustomParser`); tree-sitter is not
modelled.

*Partial interpreter.* The guesses are a set: the order in which the code enters
the directories, and how often, are left out. The code that casts a node
without a look at its type is only given programs where the type is right
(see the hazards). `GuessesCoverRuns` does not hold for all programs, and
`Guesses!Followed` names the ones left out, each with an example and the lines:
text that is appended with `+=`, a format string that is assigned and used later,
`split` without a separator of something that has several values, and in the
argument of the call; an `=` in an earlier branch of the same if, at which the
search ends; values that a loop carries from one round to the next; and the
variable of a loop after it. `NoPhantoms` speaks of programs without a choice
(`Straight`) and leaves out lists that were added (`KeepsApart`). The search ends at
the beginning of the file, does not take `set_variable` for an assignment, and
does not look at the second argument of `get`; none of the programs has that.
Format strings of several placeholders are left out.

*Type analyzer.* `Analysis!Followed`, `ReadsUnseen`, `MistakesVersion` and `KeepsVersion` name
what the analyzer does not follow, again with example and line: a variable that a
loop, perhaps never entered, gives a value to, and that has one before it, or is
carried around; a name or a directory that is one of several; `subdir_done` in a branch
of a directory; `set_variable` and `get_variable` in different branches of one if;
uses by `get_variable`, as the key of a dictionary, and by an identifier that is a
statement of a file or of the body of a loop (`checkUsage` counts the latter in a
branch only, `typeanalyzer.cpp:1690-1735`, so that `x = executable(...)` and `x` alone is reported as
unused); comparisons of the version
other than `>=`, or joined by `or`; a variable that no longer holds the version.
Outside these the properties hold for every run. `TypesCoverRuns` asks that a list is
shown as a list, and its items as what the list holds, and the same of dictionaries;
where no type is shown, nothing is asked. `x.get()` without arguments on an object of which nothing is known
dereferences null (`typeanalyzer.cpp:2133`); `GuessMethod` takes any method of the
name there, and no project of the run has such a call. Types are sets, in the order of
`Tags` where the code takes the first; nested types that are not deduplicated
and repeated entries are left out. Also left out: the lints on the spelling
of names and on special values of `target_machine` and compilers, on shadowed
names, on format strings without a placeholder and on statements without effect;
`subproject.get_variable` and errors about subprojects, which need another tree;
`set_variable` and `subdir` inside an expression; paths with `..`. The parts of
versions are compared as texts in the code, as in `After`; the versions of the run
have parts of one length for each place, where this is right, so that no property covers
the comparison of others (1.10 is older than 1.2 for the code). The tables of functions and
methods are data: `MCAnalysis` holds the entries its projects use, copied from the
type namespace. The option values are the constant `Options`.

`Ast`, `PartialInterpreter`, `TypeAnalyzer`, `MesonRun` and `Analysis` are recursive, as
the code is, so they are checked and not proved about.

## What is not modelled

Options: reading `meson_options.txt` and its diagnostics is a pass over one file
without state of its own; the analyses know the options from a constant.
Queries and linter: functions of a tree without state of their own, of which only
the locking around them matters and is in `LanguageServer`. The tables of the
type namespace: data. Formatting: an external library is called. LSP types, logging,
argument parsing: conversion and input/output. Reading a wrap file: a parse of an INI
file by tree-sitter, whose result `WrapSetup` chooses freely. What a
forked child of `launchProcess` does when its program cannot be executed is
listed as a hazard and not modelled. tree-sitter, the other parser, is not the
default and is left out.

## Plan

Done: Workspace, LanguageServer and AnalysisService with their proofs;
JsonRpcServer, WrapSetup and Subprojects with their proofs; Lexer, Parser and BuildFile; Ast,
PartialInterpreter and Guesses; Types, TypeAnalyzer, MesonTree and Analysis with
the reference MesonRun.

Left:

1. **Options** as a module of its own, and subprojects of subprojects.
2. **Processes**: `launchProcess` with a program that cannot be executed, and
   what the forked server does with the session.
3. Proofs: what of `NothingStale` survives a reparse; and the cache that WrapSetup
   promises to Subprojects as an abstract specification that it implements.
