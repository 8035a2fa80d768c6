----------------------------- MODULE MCWrapSetup -----------------------------
(***************************************************************************)
(* Small instances of WrapSetup: the kinds of wraps, each with the options *)
(* that change what is done.                                               *)
(***************************************************************************)
EXTENDS WrapSetup

FileWrap == [kind |-> "file", source |-> "url", revision |-> "head",
             shallow |-> FALSE, recursive |-> FALSE, push |-> FALSE,
             patch |-> "none", readable |-> TRUE, fallbacks |-> {}, dotted |-> {}, diffs |-> 0]
GitWrap == [FileWrap EXCEPT !.kind = "git"]

MCFileWraps ==
  {[FileWrap EXCEPT !.patch = p, !.fallbacks = F, !.diffs = d] :
     p \in {"none", "directory", "url", "missing"}, F \in {{}, Parts}, d \in 0 .. 2}
  \cup {[FileWrap EXCEPT !.source = x, !.patch = "directory", !.readable = b] :
          x \in {"directory", "missing"}, b \in BOOLEAN}
  \cup {[FileWrap EXCEPT !.patch = "url", !.dotted = {"source"}]}

MCGitWraps ==
  {[GitWrap EXCEPT !.revision = r, !.shallow = b, !.recursive = c, !.push = c] :
     r \in {"commit", "branch", "head"}, b \in BOOLEAN, c \in BOOLEAN}
  \cup {[GitWrap EXCEPT !.patch = "directory", !.diffs = 1]}

MCOtherWraps ==
  {[FileWrap EXCEPT !.kind = k, !.diffs = 1] : k \in {"svn", "hg", "invalid"}}
  \cup {[FileWrap EXCEPT !.kind = "hg", !.revision = "branch"]}

MCWraps == MCFileWraps \cup MCGitWraps \cup MCOtherWraps

\* A wrap that is cloned and patched.
MCPatchedWraps == {[GitWrap EXCEPT !.patch = "directory"]}
===============================================================================
