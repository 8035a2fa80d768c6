------------------------------ MODULE Subprojects ------------------------------
(***************************************************************************)
(* Which subprojects a tree has: SubprojectState (libanalyze/subprojects). *)
(* A full parse looks through the directory of subprojects, sets up the    *)
(* wraps that are not in the user's cache yet, and parses them all.  The   *)
(* cache names the directory of a wrap by an identifier made from the wrap *)
(* file.  Meanwhile the user edits wrap files and adds directories, and    *)
(* the server may end.  How one wrap is set up is WrapSetup's concern:     *)
(* here it succeeds or fails.                                              *)
(***************************************************************************)
EXTENDS Naturals, Sequences

CONSTANTS
  Names,        \* of subprojects
  Texts,        \* what a wrap file may say
  Normalized,   \* normalizeURLToFilePath, for each URL
  NoUrl,        \* there is no line with a URL
  NoWrap,       \* there is no wrap file
  MaxEdits, MaxStarts   \* bounds: edits of the user, full parses

Urls == DOMAIN Normalized

\* A revision is a sequence of characters; is there a space next to its = ?
\* What is in other lines decides how a wrap is set up, but not where.
TextRecords ==
  [kind : {"file", "git", "redirect", "other"}, url : Urls \cup {NoUrl},
   revision : Seq(STRING), spaced : BOOLEAN, patched : BOOLEAN, lines : Nat]

ASSUME SubprojectsAssumption ==
  /\ Texts \subseteq TextRecords
  /\ \A t \in Texts : t.kind = "git" => t.revision # <<>>
  /\ MaxEdits \in Nat
  /\ MaxStarts \in Nat

WrapFiles == [text : Texts, stamp : 0 .. MaxEdits]

ASSUME NoWrapAssumption == NoWrap \notin WrapFiles

VARIABLES
  wraps,       \* the wrap file of each name, with its time stamp
  folders,     \* the directories of subprojects
  cache,       \* the directories of wraps that were made, by their names
  pc,          \* "idle", or "init" from findSubprojects to the end of a parse
  registered,  \* subprojects of the state that is being made
  todo,        \* those that initSubprojects has not come to
  failed,      \* those with an error
  used,        \* subprojects of the tree in use, and which of them failed
  edits, starts

userVars == <<wraps, folders, edits>>
vars == <<userVars, cache, pc, registered, todo, failed, used, starts>>

Nothing == [subprojects |-> {}, failed |-> {}]

Init ==
  /\ wraps \in [Names -> [text : Texts, stamp : {0}] \cup {NoWrap}]
  /\ folders \in SUBSET Names
  /\ cache = [d \in {} |-> NoWrap]
  /\ pc = "idle"
  /\ registered = {} /\ todo = {} /\ failed = {}
  /\ used = Nothing
  /\ edits = 0
  /\ starts = 0

-----------------------------------------------------------------------------
(***************************************************************************)
(* createIdentifierForWrap.  lookAhead skips one character too many after  *)
(* "revision=": without a space the first one of the revision is lost.     *)
(***************************************************************************)
LookAhead(t) == IF t.spaced THEN t.revision ELSE Tail(t.revision)

\* Seeded fault: patches and diffs are not looked for.
ByContentsUnlessUrl(t) == t.kind \notin {"file", "git"} \/ t.url = NoUrl

\* Named by the hash and the time of the whole file?
ByContents(t) == t.patched \/ t.kind \notin {"file", "git"} \/ t.url = NoUrl

Identifier(w) ==
  IF ByContents(w.text) THEN <<"contents", w.text, w.stamp>>
  ELSE IF w.text.kind = "file" THEN <<"url", Normalized[w.text.url]>>
  ELSE <<"revision", w.text.url, LookAhead(w.text)>>

Dir(n, w) == <<n, Identifier(w)>>

\* Seeded fault: any directory that exists passes for one that is set up.
Exists(d) == d \in DOMAIN cache

Marked(d) == d \in DOMAIN cache /\ cache[d].marked

-----------------------------------------------------------------------------
(***************************************************************************)
(* findSubprojects.  Redirections are skipped.  A marked directory is used *)
(* as it is; for every other wrap an empty one is made, if downloads are   *)
(* allowed.  Directories are registered even if there is a wrap of their   *)
(* name: the continue that should prevent it belongs to the inner loop.    *)
(***************************************************************************)
Wrapped == {n \in Names : wraps[n] # NoWrap /\ wraps[n].text.kind # "redirect"}

SetUpBefore == {n \in Wrapped : Marked(Dir(n, wraps[n]))}

FromWraps(how, S) == {[name |-> n, how |-> how, wrap |-> wraps[n]] : n \in S}
FromFolders == {[name |-> n, how |-> "folder", wrap |-> NoWrap] : n \in folders}

Empty(w) == [made |-> NoWrap, asked |-> w, marked |-> FALSE]

\* Empty directories for the wraps of S, in place of what is there.
Remade(S) ==
  [d \in DOMAIN cache \cup {Dir(n, wraps[n]) : n \in S} |->
     IF \E n \in S : d = Dir(n, wraps[n]) THEN Empty(wraps[d[1]]) ELSE cache[d]]

FindSubprojects ==
  /\ pc = "idle"
  /\ starts < MaxStarts
  /\ starts' = starts + 1
  /\ \E new \in {Wrapped \ SetUpBefore, {}} :   \* are downloads allowed?
       /\ todo' = FromWraps("wrap", new)
       /\ registered' = FromWraps("cached", SetUpBefore) \cup todo' \cup FromFolders
       /\ cache' = Remade(new)
  /\ failed' = {}
  /\ pc' = "init"
  /\ UNCHANGED <<userVars, used>>

(***************************************************************************)
(* initSubprojects.  WrapSubproject::init reads the wrap file once more,   *)
(* which may have changed.  A setup that fails leaves no marker.           *)
(***************************************************************************)
SetUp(r) ==
  /\ wraps[r.name] # NoWrap
  /\ wraps[r.name].text.kind # "redirect"
  /\ cache' = [cache EXCEPT ![Dir(r.name, r.wrap)] =
                 [made |-> wraps[r.name], asked |-> r.wrap, marked |-> TRUE]]
  /\ todo' = todo \ {r}
  /\ UNCHANGED <<userVars, pc, registered, failed, used, starts>>

SetUpFails(r) ==
  /\ wraps[r.name] # NoWrap
  /\ failed' = failed \cup {r}
  /\ todo' = todo \ {r}
  /\ UNCHANGED <<userVars, cache, pc, registered, used, starts>>

\* Seeded fault: what was still to be set up is kept.
LeaveUnfinished ==
  /\ pc' = "idle"
  /\ registered' = {} /\ failed' = {}
  /\ UNCHANGED <<userVars, cache, todo, starts>>

\* The state that was being made is dropped.
Leave ==
  /\ pc' = "idle"
  /\ registered' = {} /\ todo' = {} /\ failed' = {}
  /\ UNCHANGED <<userVars, cache, starts>>

\* parseWrap throws if the file is gone; the tree in use stays.
SetUpThrows(r) ==
  /\ wraps[r.name] = NoWrap
  /\ Leave
  /\ UNCHANGED used

\* Subprojects are parsed, those that failed as well, and the tree is used.
ParseSubprojects ==
  /\ pc = "init"
  /\ todo = {}
  /\ used' = [subprojects |-> registered, failed |-> failed]
  /\ Leave

\* The server ends, at any time.
End == used' = Nothing /\ Leave

-----------------------------------------------------------------------------
(***************************************************************************)
(* The user.  A second edit in one second has a stamp of its own here; in  *)
(* the identifier the hash of the file tells it apart.                     *)
(***************************************************************************)
EditWrap(n) ==
  /\ edits < MaxEdits
  /\ edits' = edits + 1
  /\ \/ \E t \in Texts : wraps' = [wraps EXCEPT ![n] = [text |-> t, stamp |-> edits']]
     \/ wraps' = [wraps EXCEPT ![n] = NoWrap]
  /\ UNCHANGED <<folders, cache, pc, registered, todo, failed, used, starts>>

EditFolder(n) ==
  /\ edits < MaxEdits
  /\ edits' = edits + 1
  /\ folders' \in {folders \cup {n}, folders \ {n}}
  /\ UNCHANGED <<wraps, cache, pc, registered, todo, failed, used, starts>>

Next ==
  \/ FindSubprojects
  \/ \E r \in todo : SetUp(r) \/ SetUpFails(r) \/ SetUpThrows(r)
  \/ ParseSubprojects
  \/ End
  \/ \E n \in Names : EditWrap(n) \/ EditFolder(n)

Spec == Init /\ [][Next]_vars

-----------------------------------------------------------------------------
Dirs == {Dir(n, w) : n \in Names, w \in WrapFiles}
Contents == [made : WrapFiles \cup {NoWrap}, asked : WrapFiles, marked : BOOLEAN]
Entries ==
  [name : Names, how : {"cached", "wrap"}, wrap : WrapFiles]
    \cup [name : Names, how : {"folder"}, wrap : {NoWrap}]

\* The type of every variable.
TypeOK ==
  /\ wraps \in [Names -> WrapFiles \cup {NoWrap}]
  /\ folders \subseteq Names
  /\ DOMAIN cache \subseteq Dirs
  /\ \A d \in DOMAIN cache : cache[d] \in Contents
  /\ pc \in {"idle", "init"}
  /\ registered \subseteq Entries
  /\ todo \subseteq registered
  /\ failed \subseteq registered
  /\ \A r \in todo \cup failed : r.how = "wrap"
  /\ used \in [subprojects : SUBSET Entries, failed : SUBSET Entries]
  /\ edits \in 0 .. MaxEdits
  /\ starts \in 0 .. MaxStarts

(***************************************************************************)
(* Texts that ask for the same subproject, as far as they can be told      *)
(* apart: URLs that normalize to the same path, and revisions that differ  *)
(* in the character that is lost, cannot, nor can other lines, unless      *)
(* there is a patch or a diff.                                             *)
(***************************************************************************)
Alike(t, u) ==
  \/ t = u
  \/ /\ t.kind = u.kind
     /\ ~t.patched /\ ~u.patched
     /\ t.url # NoUrl /\ u.url # NoUrl
     /\ \/ t.kind = "file" /\ Normalized[t.url] = Normalized[u.url]
        \/ t.kind = "git" /\ t.url = u.url /\ LookAhead(t) = LookAhead(u)

(***************************************************************************)
(* A directory of the cache is only used for a wrap file that asks for     *)
(* what was set up in it, whatever edits and starts came in between; but   *)
(* for one edited between findSubprojects and init, whose new contents are *)
(* set up in the directory of the old ones.                                *)
(***************************************************************************)
CachedIsCurrent ==
  \A r \in registered \cup used.subprojects :
    LET dir == cache[Dir(r.name, r.wrap)] IN
    r.how = "cached" /\ dir.made = dir.asked => Alike(dir.made.text, r.wrap.text)

(***************************************************************************)
(* While a tree is in use, the directories of its wraps stay as they were  *)
(* when they were set up: whatever another full parse finds, makes anew,   *)
(* fails at or leaves half done.                                           *)
(***************************************************************************)
TreesStayWhole ==
  \A r \in used.subprojects \ used.failed :
    r.how # "folder" => cache[Dir(r.name, r.wrap)].marked
================================================================================
