--------------------------- MODULE AnalysisService ---------------------------
(***************************************************************************)
(* What a workspace promises to the handlers of the language server,       *)
(* without its semaphores, tasks and threads: a monitor.  At any time it   *)
(* is idle, in the hands of one query, or in the hands of one edit.        *)
(* Only an edit changes what is analysed, a tree is rebuilt from what the  *)
(* editor sent and otherwise from disk, and every answer is the analysed   *)
(* text of a moment without an edit.  The exception is a workspace that is *)
(* parsed anew, from disk and at any time: whoever is at work in it loses  *)
(* its trees and gets to see anything until it has ended.                  *)
(***************************************************************************)
CONSTANTS
  Workspaces, Threads, Trees, Files, Contents,
  NoText,       \* not analysed, not edited
  Disk,         \* the text of each file on disk
  TreeOf,       \* the tree of each file
  WorkspaceOf   \* the workspace of each tree

VARIABLES
  session,  \* "idle", "query" or "edit" for each workspace
  text,     \* the analysed text of each file
  edits,    \* the text of the last accepted edit of each file
  answer,   \* the answer a thread is about to give, NoText for none
  freed     \* the workspaces whose present session has lost its trees

vars == <<session, text, edits, answer, freed>>

Home(f) == WorkspaceOf[TreeOf[f]]

Init ==
  /\ session = [w \in Workspaces |-> "idle"]
  /\ text \in [Files -> Contents]
  /\ edits = [f \in Files |-> NoText]
  /\ answer = [h \in Threads |-> NoText]
  /\ freed = {}

\* An edit is accepted: the tree of its file is not to be seen any more.
BeginEdit(f, x) ==
  /\ session[Home(f)] = "idle"
  /\ session' = [session EXCEPT ![Home(f)] = "edit"]
  /\ edits' = [edits EXCEPT ![f] = x]
  /\ text' = [g \in Files |-> IF TreeOf[g] = TreeOf[f] THEN NoText ELSE text[g]]
  /\ UNCHANGED <<answer, freed>>

\* The tree is analysed; some of its files may be left out.
Rebuild(t) ==
  /\ session[WorkspaceOf[t]] = "edit"
  /\ WorkspaceOf[t] \notin freed
  /\ \E S \in SUBSET {g \in Files : TreeOf[g] = t} :
       text' = [g \in Files |->
                  CASE TreeOf[g] # t -> text[g]
                    [] g \in S -> IF edits[g] # NoText THEN edits[g] ELSE Disk[g]
                    [] OTHER -> NoText]
  /\ UNCHANGED <<session, edits, answer, freed>>

EndEdit(w) ==
  /\ session[w] = "edit"
  /\ session' = [session EXCEPT ![w] = "idle"]
  /\ freed' = freed \ {w}
  /\ UNCHANGED <<text, edits, answer>>

BeginQuery(w) ==
  /\ session[w] = "idle"
  /\ session' = [session EXCEPT ![w] = "query"]
  /\ UNCHANGED <<text, edits, answer, freed>>

Look(h, f) ==
  /\ session[Home(f)] = "query"
  /\ \E x \in Contents :
       /\ Home(f) \notin freed => x = text[f]
       /\ answer' = [answer EXCEPT ![h] = x]
  /\ UNCHANGED <<session, text, edits, freed>>

EndQuery(h, w) ==
  /\ session[w] = "query"
  /\ session' = [session EXCEPT ![w] = "idle"]
  /\ answer' = [answer EXCEPT ![h] = NoText]
  /\ freed' = freed \ {w}
  /\ UNCHANGED <<text, edits>>

\* The file is closed: from now on it is read from disk again.
Forget(f) ==
  /\ edits' = [edits EXCEPT ![f] = NoText]
  /\ UNCHANGED <<session, text, answer, freed>>

\* The workspace is parsed anew from disk; some files may be left out, and
\* the edits are forgotten.
Reload(w) ==
  /\ \E S \in SUBSET {f \in Files : Home(f) = w} :
       text' = [f \in Files |-> CASE Home(f) # w -> text[f]
                                  [] f \in S -> Disk[f]
                                  [] OTHER -> NoText]
  /\ edits' = [f \in Files |-> IF Home(f) = w THEN NoText ELSE edits[f]]
  /\ \/ UNCHANGED freed
     \/ session[w] # "idle" /\ freed' = freed \cup {w}
  /\ UNCHANGED <<session, answer>>

Next ==
  \/ \E f \in Files, x \in Contents : BeginEdit(f, x)
  \/ \E t \in Trees : Rebuild(t)
  \/ \E w \in Workspaces : EndEdit(w) \/ BeginQuery(w) \/ Reload(w)
  \/ \E h \in Threads, f \in Files : Look(h, f)
  \/ \E h \in Threads, w \in Workspaces : EndQuery(h, w)
  \/ \E f \in Files : Forget(f)

Spec == Init /\ [][Next]_vars
=============================================================================
