---------------------------- MODULE MCJsonRpcServer ----------------------------
(***************************************************************************)
(* Small instances of JsonRpcServer: requests, a notification, a body that *)
(* is no JSON-RPC call, one that is no JSON, and the end of a session.     *)
(***************************************************************************)
EXTENDS JsonRpcServer, SequencesExt

MCBodies == {"hover", "didChange", "rename", "response", "exit"}

\* A body may contain line breaks and what looks like a header.
MCChars ==
  [m \in MCBodies |->
     IF m = "didChange" THEN <<m, "CR", "LF", "CR", "LF", "length 1", "}">>
     ELSE <<m, "}">>]

MCKind == [m \in MCBodies |->
  CASE m \in {"hover", "rename"} -> "request"
    [] m = "didChange" -> "notification"
    [] m = "exit" -> "exit"
    [] m = "response" -> "invalid"]

MCLengthOf == [l \in {"length 1", "length 2", "length 7"} |->
  CASE l = "length 1" -> 1 [] l = "length 2" -> 2 [] l = "length 7" -> 7]

LengthLine(n) == CHOOSE l \in DOMAIN MCLengthOf : MCLengthOf[l] = n

Line(t) == <<t, "CR", "LF">>
Frame(body) == Line(LengthLine(Len(body))) \o <<"CR", "LF">> \o body
TypedFrame(body) ==
  Line(LengthLine(Len(body))) \o Line("type") \o <<"CR", "LF">> \o body

\* Neither is JSON; the parser stops at the first piece of the one and at the
\* second piece of the other, which its error quotes.
Garbage == <<"}", "}">>
NotUtf8 == <<"hover", "0xE9">>

\* A session is a sequence of parts, each with the bodies it sends.
Part(ms, in) == [sent |-> ms, input |-> in]
Whole(m) == Part(<<m>>, Frame(MCChars[m]))
Typed(m) == Part(<<m>>, TypedFrame(MCChars[m]))
Damaged(body) == Part(<<>>, Frame(body))
Cut(m, n) == Part(<<>>, SubSeq(Frame(MCChars[m]), 1, n))

Play(parts) ==
  Part(FlattenSeq([i \in DOMAIN parts |-> parts[i].sent]),
       FlattenSeq([i \in DOMAIN parts |-> parts[i].input]))

Scripts == {
  <<Whole("hover"), Whole("didChange"), Whole("rename")>>,
  <<Whole("didChange"), Whole("hover"), Whole("response"), Whole("rename")>>,
  <<Whole("hover"), Damaged(Garbage), Typed("rename"), Whole("didChange")>>,
  <<Whole("hover"), Damaged(NotUtf8), Whole("rename")>>,
  <<Whole("hover"), Cut("didChange", 8)>>,
  <<Whole("hover"), Cut("didChange", 4)>>,
  <<Whole("rename"), Whole("didChange"), Whole("exit")>> }

FramedSessions == {Play(s) : s \in Scripts}

\* The second frame has a length that is no number.
BadFrame(m) == Part(<<m>>, Line("length x") \o <<"CR", "LF">> \o MCChars[m])

MCSessions == FramedSessions \cup {Play(<<Whole("hover"), BadFrame("rename")>>)}

\* What may be left of a session: but for the one with the bad frame, the
\* sessions satisfy the premises of the theorems about clients.
Feeds == {Play(s) : s \in UNION {Suffixes(s) : s \in Scripts}}
Tokens == UNION {ToSet(s.input) : s \in FramedSessions}

ASSUME SessionsAreFramed ==
  /\ Framed(Feeds) /\ FramedSessions \subseteq Feeds
  /\ \A s \in Feeds : s.sent \in Seq(MCBodies) /\ s.input \in Seq(Tokens)
  /\ \A s \in FramedSessions : Once(s.sent)
================================================================================
