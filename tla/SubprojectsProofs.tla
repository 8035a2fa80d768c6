--------------------------- MODULE SubprojectsProofs ---------------------------
(***************************************************************************)
(* For any names, wrap files, edits and starts: what is found in the cache *)
(* was set up for a wrap file that cannot be told apart from the one it is *)
(* used for, and what a tree uses is not touched again.                    *)
(***************************************************************************)
EXTENDS Subprojects, TLAPS

USE DEF userVars

LEMMA IdentifiersTellApart ==
  ASSUME NEW v \in WrapFiles, NEW w \in WrapFiles, Identifier(v) = Identifier(w)
  PROVE  Alike(v.text, w.text)
<1>1. v.text \in TextRecords /\ w.text \in TextRecords
  BY SubprojectsAssumption DEF WrapFiles
<1>2. CASE ByContents(v.text) \/ ByContents(w.text)
  <2>1. v.text = w.text
    BY <1>2 DEF Identifier
  <2> QED BY <2>1 DEF Alike
<1>3. CASE ~ByContents(v.text) /\ ~ByContents(w.text)
  BY <1>1, <1>3 DEF Identifier, ByContents, Alike, TextRecords
<1> QED BY <1>2, <1>3

-----------------------------------------------------------------------------
(***************************************************************************)
(* Types.                                                                  *)
(***************************************************************************)
LEMMA InitTypes == Init => TypeOK
<1> SUFFICES ASSUME Init PROVE TypeOK
  OBVIOUS
<1>1. [text : Texts, stamp : {0}] \subseteq WrapFiles
  BY SubprojectsAssumption DEF WrapFiles
<1> QED
  BY <1>1, SubprojectsAssumption DEF Init, TypeOK, Nothing

LEMMA FindTypes ==
  ASSUME TypeOK, FindSubprojects PROVE TypeOK'
<1>1. PICK new \in {Wrapped \ SetUpBefore, {}} :
        /\ todo' = FromWraps("wrap", new)
        /\ registered' = FromWraps("cached", SetUpBefore) \cup todo' \cup FromFolders
        /\ cache' = Remade(new)
  BY DEF FindSubprojects
<1>2. \A n \in Wrapped : n \in Names /\ wraps[n] \in WrapFiles
  BY DEF TypeOK, Wrapped
<1>3. /\ registered' \subseteq Entries /\ todo' \subseteq registered'
      /\ \A r \in todo' : r.how = "wrap"
  BY <1>1, <1>2 DEF TypeOK, FromWraps, FromFolders, SetUpBefore, Entries
<1>4. DOMAIN cache' \subseteq Dirs
  BY <1>1, <1>2 DEF TypeOK, Remade, Dirs, SetUpBefore
<1>5. \A d \in DOMAIN cache' : cache'[d] \in Contents
  <2> SUFFICES ASSUME NEW d \in DOMAIN cache' PROVE cache'[d] \in Contents
    OBVIOUS
  <2>1. CASE \E n \in new : d = Dir(n, wraps[n])
    <3>1. PICK n \in new : d = Dir(n, wraps[n])
      BY <2>1
    <3>2. cache'[d] = Empty(wraps[n])
      BY <1>1, <3>1 DEF Remade, Dir
    <3> QED BY <1>2, <3>2 DEF Empty, Contents, SetUpBefore
  <2>2. CASE ~ \E n \in new : d = Dir(n, wraps[n])
    BY <1>1, <2>2 DEF Remade, TypeOK
  <2> QED BY <2>1, <2>2
<1>6. failed' \subseteq registered' /\ starts' \in 0 .. MaxStarts
  BY SubprojectsAssumption DEF TypeOK, FindSubprojects
<1> QED BY <1>3, <1>4, <1>5, <1>6 DEF TypeOK, FindSubprojects

LEMMA NextTypes == TypeOK /\ [Next]_vars => TypeOK'
<1> SUFFICES ASSUME TypeOK, [Next]_vars PROVE TypeOK'
  OBVIOUS
<1>1. CASE FindSubprojects
  BY <1>1, FindTypes
<1>2. ASSUME NEW r \in todo, SetUp(r) PROVE TypeOK'
  <2>1. wraps[r.name] \in WrapFiles /\ (Dir(r.name, r.wrap) \in DOMAIN cache =>
          [made |-> wraps[r.name], asked |-> r.wrap, marked |-> TRUE] \in Contents)
    BY <1>2, NoWrapAssumption DEF TypeOK, SetUp, Contents, Entries
  <2> QED
    BY <1>2, <2>1 DEF TypeOK, SetUp
<1>3. ASSUME NEW r \in todo, SetUpFails(r) PROVE TypeOK'
  BY <1>3 DEF TypeOK, SetUpFails
<1>4. CASE Leave /\ used' \in [subprojects : SUBSET Entries, failed : SUBSET Entries]
  BY <1>4 DEF TypeOK, Leave
<1>5. ASSUME NEW r \in todo, SetUpThrows(r) PROVE TypeOK'
  BY <1>4, <1>5 DEF SetUpThrows, TypeOK
<1>6. CASE ParseSubprojects
  BY <1>4, <1>6 DEF ParseSubprojects, TypeOK
<1>7. CASE End
  BY <1>4, <1>7 DEF End, Nothing
<1>8. ASSUME NEW n \in Names, EditWrap(n) PROVE TypeOK'
  <2>1. edits' \in 0 .. MaxEdits
    BY <1>8, SubprojectsAssumption DEF EditWrap, TypeOK
  <2>2. wraps' \in [Names -> WrapFiles \cup {NoWrap}]
    BY <1>8, <2>1 DEF EditWrap, TypeOK, WrapFiles
  <2> QED BY <1>8, <2>1, <2>2 DEF EditWrap, TypeOK
<1>9. ASSUME NEW n \in Names, EditFolder(n) PROVE TypeOK'
  BY <1>9, SubprojectsAssumption DEF EditFolder, TypeOK
<1>10. CASE UNCHANGED vars
  BY <1>10 DEF vars, TypeOK
<1> QED
  BY <1>1, <1>2, <1>3, <1>5, <1>6, <1>7, <1>8, <1>9, <1>10 DEF Next

(***************************************************************************)
(* Every variable has its type, for any names and wrap files.              *)
(***************************************************************************)
THEOREM SubprojectTypes == Spec => []TypeOK
BY InitTypes, NextTypes, PTL DEF Spec

-----------------------------------------------------------------------------
(***************************************************************************)
(* The cache: a directory has the name of the wrap file it was made for,   *)
(* and what was found or set up in the cache is marked for good.           *)
(***************************************************************************)
NamedByWrap == \A d \in DOMAIN cache : Identifier(cache[d].asked) = d[2]

IsMarked(r) == Marked(Dir(r.name, r.wrap))

RegisteredInCache ==
  \A r \in registered :
    /\ r.how # "folder" => Dir(r.name, r.wrap) \in DOMAIN cache
    /\ r.how # "folder" /\ r \notin todo \cup failed => IsMarked(r)

UsedInCache ==
  \A r \in used.subprojects :
    /\ r.how # "folder" => Dir(r.name, r.wrap) \in DOMAIN cache
    /\ r.how # "folder" /\ r \notin used.failed => IsMarked(r)

CacheInv == NamedByWrap /\ RegisteredInCache /\ UsedInCache

\* Steps that change nothing in a marked directory keep what is used.
KeepsMarked ==
  /\ DOMAIN cache \subseteq DOMAIN cache'
  /\ \A d \in DOMAIN cache : Marked(d) => Marked(d)'

LEMMA FindCache ==
  ASSUME TypeOK, CacheInv, FindSubprojects PROVE CacheInv'
<1>1. PICK new \in {Wrapped \ SetUpBefore, {}} :
        /\ todo' = FromWraps("wrap", new)
        /\ registered' = FromWraps("cached", SetUpBefore) \cup todo' \cup FromFolders
        /\ cache' = Remade(new)
  BY DEF FindSubprojects
<1>2. \A n \in new : ~Marked(Dir(n, wraps[n]))
  BY DEF SetUpBefore
<1>3. DOMAIN cache \subseteq DOMAIN cache'
      /\ \A n \in new : Dir(n, wraps[n]) \in DOMAIN cache'
  BY <1>1 DEF Remade
<1>4. \A d \in DOMAIN cache : Marked(d) => cache'[d] = cache[d]
  BY <1>1, <1>2 DEF Remade
<1>5. KeepsMarked
  BY <1>3, <1>4 DEF KeepsMarked, Marked
<1>6. NamedByWrap'
  <2> SUFFICES ASSUME NEW d \in DOMAIN cache' PROVE Identifier(cache'[d].asked) = d[2]
    BY DEF NamedByWrap, Identifier, ByContents
  <2>1. CASE \E n \in new : d = Dir(n, wraps[n])
    <3>1. PICK n \in new : d = Dir(n, wraps[n])
      BY <2>1
    <3>2. cache'[d] = Empty(wraps[n]) /\ d[2] = Identifier(wraps[n])
      BY <1>1, <3>1 DEF Remade, Dir
    <3> QED BY <3>2 DEF Empty
  <2>2. CASE ~ \E n \in new : d = Dir(n, wraps[n])
    <3>1. d \in DOMAIN cache /\ cache'[d] = cache[d]
      BY <1>1, <2>2 DEF Remade
    <3> QED BY <3>1 DEF CacheInv, NamedByWrap
  <2> QED BY <2>1, <2>2
<1>7. RegisteredInCache'
  <2> SUFFICES ASSUME NEW r \in registered', r.how # "folder"
               PROVE  /\ Dir(r.name, r.wrap) \in DOMAIN cache'
                      /\ r \notin todo' => Marked(Dir(r.name, r.wrap))'
    BY DEF RegisteredInCache, IsMarked, Dir, Identifier, ByContents
  <2>1. CASE r \in todo'
    BY <1>1, <1>3, <2>1 DEF FromWraps
  <2>2. CASE r \in FromWraps("cached", SetUpBefore)
    <3>1. Marked(Dir(r.name, r.wrap))
      BY <2>2 DEF FromWraps, SetUpBefore
    <3> QED BY <1>5, <3>1 DEF KeepsMarked, Marked, Dir, Identifier, ByContents
  <2> QED BY <1>1, <2>1, <2>2 DEF FromFolders
<1>8. UsedInCache'
  BY <1>5 DEF CacheInv, UsedInCache, KeepsMarked, IsMarked, FindSubprojects,
              Marked, Dir, Identifier, ByContents
<1> QED BY <1>6, <1>7, <1>8 DEF CacheInv

LEMMA SetUpCache ==
  ASSUME TypeOK, CacheInv, NEW r \in todo, SetUp(r) PROVE CacheInv'
<1> DEFINE d == Dir(r.name, r.wrap)
<1>1. d \in DOMAIN cache
  BY DEF CacheInv, RegisteredInCache, TypeOK
<1>2. /\ cache' = [cache EXCEPT ![d] =
                    [made |-> wraps[r.name], asked |-> r.wrap, marked |-> TRUE]]
      /\ todo' = todo \ {r} /\ UNCHANGED <<registered, failed, used>>
  BY DEF SetUp
<1> HIDE DEF d
<1>3. DOMAIN cache' = DOMAIN cache /\ Marked(d)'
      /\ \A e \in DOMAIN cache : e # d => cache'[e] = cache[e]
  BY <1>1, <1>2 DEF Marked
<1>4. KeepsMarked
  BY <1>3 DEF KeepsMarked, Marked
<1>5. NamedByWrap'
  <2>1. Identifier(r.wrap) = d[2]
    BY DEF d, Dir
  <2> QED BY <1>1, <1>2, <1>3, <2>1 DEF CacheInv, NamedByWrap
<1>6. RegisteredInCache'
  <2> SUFFICES ASSUME NEW e \in registered, e.how # "folder"
               PROVE  /\ Dir(e.name, e.wrap) \in DOMAIN cache'
                      /\ e \notin todo' \cup failed' => Marked(Dir(e.name, e.wrap))'
    BY <1>2 DEF RegisteredInCache, IsMarked
  <2>1. CASE e = r
    BY <1>1, <1>3, <2>1 DEF d
  <2>2. CASE e # r
    BY <1>2, <1>3, <1>4, <2>2 DEF CacheInv, RegisteredInCache, IsMarked, KeepsMarked
  <2> QED BY <2>1, <2>2
<1>7. UsedInCache'
  BY <1>2, <1>3, <1>4 DEF CacheInv, UsedInCache, IsMarked, KeepsMarked
<1> QED BY <1>5, <1>6, <1>7 DEF CacheInv

\* All other steps leave the cache alone.
LEMMA NextCache == TypeOK /\ CacheInv /\ [Next]_vars => CacheInv'
<1> SUFFICES ASSUME TypeOK, CacheInv, [Next]_vars PROVE CacheInv'
  OBVIOUS
<1> USE DEF CacheInv, NamedByWrap, RegisteredInCache, UsedInCache, IsMarked, Marked
<1>1. CASE FindSubprojects
  BY <1>1, FindCache
<1>2. ASSUME NEW r \in todo, SetUp(r) PROVE CacheInv'
  BY <1>2, SetUpCache
<1>3. ASSUME NEW r \in todo, SetUpFails(r) PROVE CacheInv'
  BY <1>3 DEF SetUpFails
<1>4. ASSUME NEW r \in todo, SetUpThrows(r) PROVE CacheInv'
  BY <1>4 DEF SetUpThrows, Leave
<1>5. CASE ParseSubprojects
  BY <1>5 DEF ParseSubprojects, Leave
<1>6. CASE End
  BY <1>6 DEF End, Leave, Nothing
<1>7. ASSUME NEW n \in Names, EditWrap(n) \/ EditFolder(n) PROVE CacheInv'
  BY <1>7 DEF EditWrap, EditFolder
<1>8. CASE UNCHANGED vars
  BY <1>8 DEF vars
<1> QED BY <1>1, <1>2, <1>3, <1>4, <1>5, <1>6, <1>7, <1>8 DEF Next

LEMMA CacheInvariant == Spec => [](TypeOK /\ CacheInv)
<1>1. Init => CacheInv
  BY DEF Init, CacheInv, NamedByWrap, RegisteredInCache, UsedInCache, Nothing
<1> QED BY <1>1, InitTypes, NextTypes, NextCache, PTL DEF Spec

(***************************************************************************)
(* A directory found in the cache was set up for a wrap file that asks for *)
(* the same, as far as identifiers tell, after any edits, failures, starts *)
(* and exceptions; but for wrap files that changed while they were set up. *)
(***************************************************************************)
THEOREM CacheIsCurrent == Spec => []CachedIsCurrent
<1>1. TypeOK /\ CacheInv => CachedIsCurrent
  <2> SUFFICES ASSUME TypeOK, CacheInv, NEW r \in registered \cup used.subprojects,
                      r.how = "cached",
                      cache[Dir(r.name, r.wrap)].made = cache[Dir(r.name, r.wrap)].asked
               PROVE  Alike(cache[Dir(r.name, r.wrap)].made.text, r.wrap.text)
    BY DEF CachedIsCurrent
  <2> DEFINE d == Dir(r.name, r.wrap)
  <2>1. d \in DOMAIN cache /\ r \in Entries
    BY DEF CacheInv, RegisteredInCache, UsedInCache, TypeOK
  <2>2. cache[d].asked \in WrapFiles /\ r.wrap \in WrapFiles
    BY <2>1 DEF TypeOK, Contents, Entries
  <2>3. Identifier(cache[d].asked) = Identifier(r.wrap)
    BY <2>1 DEF CacheInv, NamedByWrap, Dir
  <2> QED BY <2>2, <2>3, IdentifiersTellApart
<1> QED BY <1>1, CacheInvariant, PTL

(***************************************************************************)
(* The wraps of a tree in use stay set up, whatever later parses do.       *)
(***************************************************************************)
THEOREM WholeTrees == Spec => []TreesStayWhole
<1>1. CacheInv => TreesStayWhole
  BY DEF CacheInv, UsedInCache, IsMarked, Marked, TreesStayWhole
<1> QED BY <1>1, CacheInvariant, PTL
================================================================================
