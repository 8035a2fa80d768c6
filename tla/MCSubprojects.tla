----------------------------- MODULE MCSubprojects -----------------------------
(***************************************************************************)
(* A small instance of Subprojects: wraps of every kind that the code      *)
(* names in a way of its own, and pairs of them that get the same name.    *)
(***************************************************************************)
EXTENDS Subprojects, TLC

CONSTANTS zlib, glib

MCNames == {zlib, glib}
Symmetry == Permutations(MCNames)

\* Two of the archives differ in a character that is replaced.
MCNormalized == [u \in {"1.0+2", "1.0~2", "repo"} |->
  IF u \in {"1.0+2", "1.0~2"} THEN "1.0_2" ELSE u]

File(url, patched, lines) ==
  [kind |-> "file", url |-> url, revision |-> <<>>, spaced |-> TRUE,
   patched |-> patched, lines |-> lines]
Git(revision, spaced) ==
  [kind |-> "git", url |-> "repo", revision |-> revision, spaced |-> spaced,
   patched |-> FALSE, lines |-> 0]
Redirect ==
  [kind |-> "redirect", url |-> NoUrl, revision |-> <<>>, spaced |-> TRUE,
   patched |-> FALSE, lines |-> 0]

MCTexts == {
  File("1.0+2", FALSE, 0), File("1.0~2", FALSE, 1), File("1.0~2", TRUE, 0),
  Git(<<"v", "1">>, TRUE), Git(<<"v", "2">>, FALSE), Git(<<"w", "2">>, FALSE),
  Redirect }
================================================================================
