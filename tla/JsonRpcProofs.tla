----------------------------- MODULE JsonRpcProofs -----------------------------
(***************************************************************************)
(* What the JSON-RPC server promises its client, for any input, any number *)
(* of messages and any Drain: the number of threads is bounded, output of  *)
(* different threads is not mixed, and a request is answered once, and not *)
(* later than main returns. What a message is known by is its body: what   *)
(* is said of the output is about inputs of which no body is handled       *)
(* twice. Of a client that keeps to the protocol, the loop handles what    *)
(* was sent, in its order; and it only takes so many steps. An error that  *)
(* is not UTF-8 ends the process: a client that gives no cause for one is  *)
(* served to the end.                                                      *)
(***************************************************************************)
EXTENDS JsonRpcServer, FiniteSetTheorems, SequenceTheorems, TLAPS

USE DEF loopVars, sendVars

HandlerStates == {"none", "running", "replying", "ended", "failed"}

USE DEF HandlerStates

\* What nothing catches ends the process, and changes nothing else.
LEMMA Thrown ==
  /\ LengthThrows => ProcessEnds /\ reader = "header"
  /\ ComplaintThrows => ProcessEnds /\ reader = "parse"
  /\ FutureThrows => ProcessEnds /\ reader \in {"drain", "wait"}
BY DEF LengthThrows, ComplaintThrows, FutureThrows

LEMMA LoopIsNoBody == Loop \notin Bodies /\ None \notin Senders
BY JsonRpcAssumption DEF Senders

-----------------------------------------------------------------------------
(***************************************************************************)
(* Types.                                                                  *)
(***************************************************************************)
LEMMA InitTypes == Init => TypeOK
BY JsonRpcAssumption DEF Init, TypeOK

\* What reading does to the reader and to the length.
LEMMA HeaderRead ==
  ASSUME TypeOK, ReadHeader
  PROVE  /\ reader' \in {"header", "body"}
         /\ state' \in {"INITIAL", "FIRST_R", "FIRST_N", "SECOND_R", "READING"}
         /\ contentLength' \in Nat
<1> DEFINE chr == Head(input)
<1>1. CASE chr = CR
  BY <1>1, JsonRpcAssumption DEF ReadHeader, TypeOK
<1>2. CASE chr # CR /\ chr = LF /\ state = "SECOND_R"
  BY <1>2 DEF ReadHeader, TypeOK
<1>3. CASE chr # CR /\ chr = LF /\ state # "SECOND_R"
  BY <1>3, JsonRpcAssumption DEF ReadHeader, TypeOK
<1>4. CASE chr # CR /\ chr # LF
  BY <1>4 DEF ReadHeader, TypeOK
<1> QED BY <1>1, <1>2, <1>3, <1>4

\* Whoever is writing has something to write; only the loop counts.
Busy ==
  /\ owner # None => outbox[owner] # None
  /\ numMessages = Drain => reader = "drain"

LEMMA NoFrame == None \notin Frames
BY JsonRpcAssumption DEF Frames, Senders

LEMMA ComplainTypes ==
  ASSUME TypeOK, Complain
  PROVE  /\ outbox' \in [Senders -> Frames \cup {None}]
         /\ \A t \in Senders : outbox[t] # None => outbox'[t] # None
BY NoFrame DEF Complain, TypeOK, Frames, Senders

LEMMA LoopTypes ==
  ASSUME TypeOK, Busy, LoopStep PROVE TypeOK' /\ Busy'
<1> USE JsonRpcAssumption, LoopIsNoBody DEF Busy
<1>1. CASE ReadHeader
  BY <1>1, HeaderRead DEF ReadHeader, TypeOK
<1>2. CASE EndOfInput \/ ReadBody \/ Wait
  BY <1>2 DEF EndOfInput, ReadBody, Wait, TypeOK
<1>3. CASE NotJson
  BY <1>3, ComplainTypes DEF NotJson, Complain, TypeOK
<1>4. CASE Json
  BY <1>4 DEF Json, TypeOK
<1>5. CASE DrainFutures
  BY <1>5 DEF DrainFutures, TypeOK
<1>6. CASE EvaluateData
  <2>1. PICK m \in Bodies :
          /\ reader = "evaluate"
          /\ handled' = Append(handled, m)
          /\ \/ /\ Complain
                /\ UNCHANGED <<futures, handler>>
             \/ /\ handler' = [handler EXCEPT ![m] = "running"]
                /\ futures' = futures \cup {m}
                /\ NextHeader
                /\ UNCHANGED outbox
          /\ UNCHANGED <<sent, input, numMessages, owner, output, alive>>
    BY <1>6 DEF EvaluateData
  <2>2. CASE Complain /\ UNCHANGED <<futures, handler>>
    BY <2>1, <2>2, ComplainTypes DEF Complain, TypeOK
  <2>3. CASE /\ handler' = [handler EXCEPT ![m] = "running"]
             /\ futures' = futures \cup {m} /\ NextHeader /\ UNCHANGED outbox
    BY <2>1, <2>3 DEF NextHeader, TypeOK
  <2> QED BY <2>1, <2>2, <2>3
<1>7. CASE Complained
  BY <1>7 DEF Complained, NextHeader, TypeOK
<1>8. CASE ProcessEnds
  BY <1>8 DEF ProcessEnds, TypeOK
<1> QED BY <1>1, <1>2, <1>3, <1>4, <1>5, <1>6, <1>7, <1>8, Thrown DEF LoopStep

LEMMA HandlerTypes ==
  ASSUME TypeOK, Busy, NEW m \in Bodies, HandlerStep(m) PROVE TypeOK' /\ Busy'
<1> USE LoopIsNoBody, NoFrame DEF Busy
<1>1. CASE HandleRequest(m)
  BY <1>1 DEF HandleRequest, TypeOK, Frames, Senders
<1>2. CASE DumpThrows(m)
  BY <1>2 DEF DumpThrows, TypeOK, Frames, Senders
<1>3. CASE HandleNotification(m)
  BY <1>3 DEF HandleNotification, TypeOK, Frames, Senders
<1>4. CASE Exit(m) \/ HandlerEnds(m)
  BY <1>4 DEF Exit, ProcessEnds, HandlerEnds, TypeOK
<1>5. CASE ErrorTextThrows(m)
  BY <1>5 DEF ErrorTextThrows, TypeOK
<1> QED BY <1>1, <1>2, <1>3, <1>4, <1>5 DEF HandlerStep

LEMMA SendTypes ==
  ASSUME TypeOK, Busy, NEW t \in Senders, Send(t) PROVE TypeOK' /\ Busy'
<1> USE LoopIsNoBody DEF Busy
<1>1. CASE WriteHeader(t)
  BY <1>1 DEF WriteHeader, TypeOK
<1>2. CASE WritePayload(t)
  BY <1>2 DEF WritePayload, TypeOK
<1> QED BY <1>1, <1>2 DEF Send

Typed == TypeOK /\ Busy

LEMMA TypedInvariant == Spec => []Typed
<1>1. Init => Typed
  BY InitTypes, JsonRpcAssumption DEF Init, Busy, Typed
<1>2. Typed /\ [Next]_vars => Typed'
  <2> SUFFICES ASSUME TypeOK, Busy, [Next]_vars PROVE TypeOK' /\ Busy'
    BY DEF Typed
  <2>1. CASE UNCHANGED vars
    BY <2>1 DEF vars, TypeOK, Busy
  <2> QED BY <2>1, LoopTypes, HandlerTypes, SendTypes DEF Next
<1> QED BY <1>1, <1>2, PTL DEF Spec

(***************************************************************************)
(* Every variable has its type, for any input.                             *)
(***************************************************************************)
THEOREM TypeCorrect == Spec => []TypeOK
<1>1. Typed => TypeOK
  BY DEF Typed
<1> QED BY <1>1, TypedInvariant, PTL

-----------------------------------------------------------------------------
(***************************************************************************)
(* The number of threads: each message counted has at most one future, and *)
(* the one being evaluated is counted before it gets its own.              *)
(***************************************************************************)
Counted ==
  /\ IsFiniteSet(futures)
  /\ Cardinality(futures) <=
       IF reader \in {"evaluate", "drain"} THEN numMessages ELSE numMessages + 1

LEMMA NextCounted == Typed /\ Counted /\ [Next]_vars => Counted'
<1> SUFFICES ASSUME Typed, Counted, [Next]_vars PROVE Counted'
  OBVIOUS
<1>0. numMessages \in Nat /\ Cardinality(futures) \in Nat
  BY FS_CardinalityType, JsonRpcAssumption DEF Typed, TypeOK, Counted
<1>1. CASE UNCHANGED <<futures, numMessages>> /\ reader' \notin {"evaluate", "drain"}
  BY <1>0, <1>1 DEF Counted
<1>2. CASE UNCHANGED <<futures, numMessages, reader>>
  BY <1>2 DEF Counted
<1>3. CASE Json
  BY <1>0, <1>3 DEF Json, Counted
<1>4. CASE DrainFutures
  BY <1>4, FS_EmptySet DEF DrainFutures, Counted
<1>5. CASE EvaluateData
  <2>1. PICK m \in Bodies : \/ Complain /\ UNCHANGED futures
                            \/ NextHeader /\ futures' = futures \cup {m}
    BY <1>5 DEF EvaluateData
  <2>2. /\ numMessages' = numMessages /\ reader = "evaluate"
        /\ reader' \notin {"evaluate", "drain"}
    BY <1>5 DEF EvaluateData, Complain, NextHeader
  <2>3. /\ IsFiniteSet(futures \cup {m})
        /\ Cardinality(futures \cup {m}) <= Cardinality(futures) + 1
    BY <1>0, FS_AddElement DEF Counted
  <2>4. CASE futures' = futures
    BY <1>0, <2>2, <2>4 DEF Counted
  <2>5. CASE futures' = futures \cup {m}
    <3>1. Cardinality(futures') \in Nat
      BY <2>3, <2>5, FS_CardinalityType
    <3> QED BY <1>0, <2>2, <2>3, <2>5, <3>1 DEF Counted
  <2> QED BY <2>1, <2>4, <2>5
<1>6. CASE LoopStep
  <2>1. ReadHeader => reader' \notin {"evaluate", "drain"}
    BY HeaderRead DEF Typed
  <2> QED
    BY <1>1, <1>2, <1>3, <1>4, <1>5, <1>6, <2>1, Thrown
    DEF LoopStep, ProcessEnds, ReadHeader, EndOfInput, ReadBody, NotJson, Complain, Complained,
        NextHeader, Wait
<1>7. ASSUME NEW m \in Bodies, HandlerStep(m) PROVE Counted'
  BY <1>2, <1>7
  DEF HandlerStep, HandleRequest, ErrorTextThrows, DumpThrows,
      HandleNotification, Exit, ProcessEnds, HandlerEnds
<1>8. ASSUME NEW t \in Senders, Send(t) PROVE Counted'
  BY <1>2, <1>8 DEF Send, WriteHeader, WritePayload
<1> QED BY <1>2, <1>6, <1>7, <1>8 DEF Next, vars

(***************************************************************************)
(* There are never more than Drain threads that were not waited for.       *)
(***************************************************************************)
THEOREM ThreadsBounded == Spec => []FuturesBounded
<1>1. Init => Counted
  BY FS_EmptySet DEF Init, Counted
<1>2. Typed /\ Counted => FuturesBounded
  <2> SUFFICES ASSUME Typed, Counted PROVE FuturesBounded
    OBVIOUS
  <2>1. numMessages \in 0 .. Drain /\ Cardinality(futures) \in Nat
    BY FS_CardinalityType DEF Typed, TypeOK, Counted
  <2> QED
    BY <2>1, JsonRpcAssumption DEF Typed, Busy, Counted, FuturesBounded
<1> QED BY <1>1, <1>2, NextCounted, TypedInvariant, PTL DEF Spec

-----------------------------------------------------------------------------
(***************************************************************************)
(* Who sends what, and who is still to be waited for.                      *)
(***************************************************************************)
WasHandled(m) == \E i \in DOMAIN handled : handled[i] = m

LoopSends == outbox[Loop] # None => outbox[Loop].to = Loop /\ reader = "complain"

HandlersSend ==
  \A m \in Bodies :
    outbox[m] # None => outbox[m].to = IF Kind[m] = "request" THEN m ELSE Loop

ThreadsStarted ==
  \A m \in Bodies :
    /\ handler[m] # "none" => WasHandled(m)
    /\ handler[m] \in {"running", "replying", "failed"} => m \in futures
    /\ WasHandled(m) /\ Kind[m] = "request" => handler[m] # "none"

\* Nothing is left when the loop has waited for all threads.
AllEnded == reader = "done" => \A m \in Bodies : handler[m] \in {"none", "ended"}

Outgoing == LoopSends /\ HandlersSend /\ ThreadsStarted /\ AllEnded

LEMMA HandledGrows ==
  ASSUME TypeOK, NEW m \in Bodies, handled' = Append(handled, m)
  PROVE  \A n \in Bodies : WasHandled(n)' <=> WasHandled(n) \/ n = m
<1>1. handled \in Seq(Bodies)
  BY DEF TypeOK
<1>2. ASSUME NEW n \in Bodies, WasHandled(n) PROVE WasHandled(n)'
  <2>1. PICK i \in DOMAIN handled : handled[i] = n
    BY <1>2 DEF WasHandled
  <2>2. i \in DOMAIN handled' /\ handled'[i] = n
    BY <1>1, <2>1
  <2> QED BY <2>2 DEF WasHandled
<1>3. WasHandled(m)'
  <2>1. Len(handled) + 1 \in DOMAIN handled' /\ handled'[Len(handled) + 1] = m
    BY <1>1
  <2> QED BY <2>1 DEF WasHandled
<1>4. ASSUME NEW n \in Bodies, WasHandled(n)', n # m PROVE WasHandled(n)
  <2>1. PICK i \in DOMAIN handled' : handled'[i] = n
    BY <1>4 DEF WasHandled
  <2>2. i \in DOMAIN handled /\ handled[i] = n
    BY <1>1, <1>4, <2>1
  <2> QED BY <2>2 DEF WasHandled
<1> QED BY <1>2, <1>3, <1>4

LEMMA EvaluateKeepsOutgoing ==
  ASSUME Typed, Outgoing, EvaluateData PROVE Outgoing'
<1> USE LoopIsNoBody DEF Outgoing
<1>1. PICK m \in Bodies :
        /\ handled' = Append(handled, m)
        /\ IF Kind[m] = "invalid"
           THEN Complain /\ UNCHANGED <<futures, handler>>
           ELSE /\ handler' = [handler EXCEPT ![m] = "running"]
                /\ futures' = futures \cup {m}
                /\ NextHeader
                /\ UNCHANGED outbox
  BY DEF EvaluateData
<1>2. \A n \in Bodies : WasHandled(n)' <=> WasHandled(n) \/ n = m
  BY <1>1, HandledGrows DEF Typed
<1>3. CASE Kind[m] = "invalid"
  <2>1. LoopSends' /\ AllEnded'
    BY <1>1, <1>3 DEF Complain, LoopSends, AllEnded, Typed, TypeOK, Senders
  <2>2. HandlersSend'
    BY <1>1, <1>3 DEF Complain, HandlersSend, Typed, TypeOK, Senders
  <2>3. ThreadsStarted'
    BY <1>1, <1>2, <1>3 DEF ThreadsStarted
  <2> QED BY <2>1, <2>2, <2>3
<1>4. CASE Kind[m] # "invalid"
  <2>1. LoopSends' /\ AllEnded'
    BY <1>1, <1>4 DEF NextHeader, LoopSends, AllEnded, EvaluateData
  <2>2. HandlersSend'
    BY <1>1, <1>4 DEF HandlersSend
  <2>3. ThreadsStarted'
    BY <1>1, <1>2, <1>4 DEF ThreadsStarted, Typed, TypeOK
  <2> QED BY <2>1, <2>2, <2>3
<1> QED BY <1>3, <1>4

LEMMA LoopKeepsOutgoing ==
  ASSUME Typed, Outgoing, LoopStep PROVE Outgoing'
<1> USE LoopIsNoBody DEF Outgoing
<1>1. CASE EvaluateData
  BY <1>1, EvaluateKeepsOutgoing
<1>2. CASE NotJson
  <2>1. LoopSends' /\ AllEnded'
    BY <1>2 DEF NotJson, Complain, LoopSends, AllEnded, Typed, TypeOK, Senders
  <2>2. HandlersSend'
    BY <1>2 DEF NotJson, Complain, HandlersSend, Typed, TypeOK, Senders
  <2>3. ThreadsStarted'
    BY <1>2 DEF NotJson, ThreadsStarted, WasHandled
  <2> QED BY <2>1, <2>2, <2>3
<1>3. CASE DrainFutures
  <2>1. ThreadsStarted'
    BY <1>3 DEF DrainFutures, ThreadsStarted, WasHandled, Ended
  <2> QED BY <1>3, <2>1 DEF DrainFutures, LoopSends, HandlersSend, AllEnded
<1>4. CASE Wait
  <2>1. AllEnded'
    BY <1>4 DEF Wait, ThreadsStarted, AllEnded, Ended, Typed, TypeOK
  <2> QED
    BY <1>4, <2>1 DEF Wait, LoopSends, HandlersSend, ThreadsStarted, WasHandled
<1>5. CASE ReadHeader
  <2>1. reader = "header" /\ reader' \in {"header", "body"}
    BY <1>5, HeaderRead DEF ReadHeader, Typed
  <2> QED
    BY <1>5, <2>1
    DEF ReadHeader, LoopSends, HandlersSend, ThreadsStarted, WasHandled, AllEnded
<1>6. CASE EndOfInput \/ ReadBody \/ Json \/ Complained \/ ProcessEnds
  BY <1>6
  DEF EndOfInput, ReadBody, Json, Complained, ProcessEnds, NextHeader, LoopSends,
      HandlersSend, ThreadsStarted, WasHandled, AllEnded
<1> QED BY <1>1, <1>2, <1>3, <1>4, <1>5, <1>6, Thrown DEF LoopStep

\* A handler sends a response or, if it serves a notification, to nobody.
LEMMA HandlerSends ==
  ASSUME Typed, HandlersSend, NEW m \in Bodies, HandlerStep(m)
  PROVE  \/ outbox' = outbox
         \/ /\ handler[m] = "running" \/ (outbox[m] # None /\ owner = None)
            /\ handler'[m] = "replying"
            /\ \E e \in Frames :
                 /\ outbox' = [outbox EXCEPT ![m] = e]
                 /\ e.to = IF Kind[m] = "request" THEN m ELSE Loop
<1> USE LoopIsNoBody DEF Frames, Senders
<1>1. /\ outbox \in [Senders -> Frames \cup {None}]
      /\ handler \in [Bodies -> HandlerStates]
  BY DEF Typed, TypeOK
<1>2. CASE HandleRequest(m)
  <2>1. PICK what \in {"result", "error"} :
          outbox' = [outbox EXCEPT ![m] = [to |-> m, what |-> what]]
    BY <1>2 DEF HandleRequest
  <2>2. [to |-> m, what |-> what] \in Frames
    OBVIOUS
  <2> QED BY <1>1, <1>2, <2>1, <2>2 DEF HandleRequest
<1>3. CASE DumpThrows(m)
  <2> DEFINE e == [to |-> m, what |-> "error"]
  <2>1. outbox[m] = [to |-> m, what |-> "result"] /\ outbox[m] # None
    BY <1>3, JsonRpcAssumption DEF DumpThrows
  <2>2. outbox' = [outbox EXCEPT ![m] = [outbox[m] EXCEPT !.what = "error"]]
    BY <1>3 DEF DumpThrows
  <2>3. [outbox[m] EXCEPT !.what = "error"] = e
    BY <2>1
  <2>4. Kind[m] = "request"
    BY <2>1 DEF HandlersSend
  <2>5. e \in Frames
    OBVIOUS
  <2> QED BY <1>1, <1>3, <2>1, <2>2, <2>3, <2>4, <2>5 DEF DumpThrows
<1>4. CASE HandleNotification(m)
  <2>1. [to |-> Loop, what |-> "notification"] \in Frames
    OBVIOUS
  <2> QED BY <1>1, <1>4, <2>1 DEF HandleNotification
<1>5. CASE Exit(m) \/ ErrorTextThrows(m) \/ HandlerEnds(m)
  BY <1>5 DEF Exit, ProcessEnds, ErrorTextThrows, HandlerEnds
<1> QED BY <1>2, <1>3, <1>4, <1>5 DEF HandlerStep

LEMMA HandlerKeepsOutgoing ==
  ASSUME Typed, Outgoing, reader # "done", NEW m \in Bodies, HandlerStep(m)
  PROVE  Outgoing'
<1> USE LoopIsNoBody DEF Outgoing
<1>1. outbox \in [Senders -> Frames \cup {None}] /\ m \in Senders /\ Loop \in Senders
  BY DEF Typed, TypeOK, Senders
<1>2. LoopSends' /\ AllEnded'
  BY <1>1
  DEF HandlerStep, HandleRequest, ErrorTextThrows, DumpThrows,
      HandleNotification, Exit, ProcessEnds, HandlerEnds, LoopSends, AllEnded
<1>3. ThreadsStarted'
  BY DEF HandlerStep, HandleRequest, ErrorTextThrows, DumpThrows,
      HandleNotification, Exit, ProcessEnds, HandlerEnds, ThreadsStarted, WasHandled, Typed, TypeOK
<1>4. HandlersSend'
  <2>1. CASE outbox' = outbox
    BY <2>1 DEF HandlersSend
  <2>2. ASSUME NEW e \in Frames, outbox' = [outbox EXCEPT ![m] = e],
               e.to = IF Kind[m] = "request" THEN m ELSE Loop
        PROVE  HandlersSend'
    BY <1>1, <2>2 DEF HandlersSend
  <2> QED BY <2>1, <2>2, HandlerSends
<1> QED BY <1>2, <1>3, <1>4

LEMMA NextOutgoing == Typed /\ Outgoing /\ [Next]_vars => Outgoing'
<1> SUFFICES ASSUME Typed, Outgoing, [Next]_vars PROVE Outgoing'
  OBVIOUS
<1>1. CASE UNCHANGED vars
  BY <1>1 DEF vars, Outgoing, LoopSends, HandlersSend, ThreadsStarted, WasHandled, AllEnded
<1>2. ASSUME NEW t \in Senders, Send(t) PROVE Outgoing'
  <2>1. /\ UNCHANGED <<loopVars, handler>>
        /\ \A s \in Senders : outbox'[s] \in {outbox[s], None}
    BY <1>2 DEF Send, WriteHeader, WritePayload, Typed, TypeOK
  <2> QED
    BY <2>1 DEF Outgoing, LoopSends, HandlersSend, ThreadsStarted, WasHandled,
                AllEnded, Senders
<1> QED
  BY <1>1, <1>2, LoopKeepsOutgoing, HandlerKeepsOutgoing DEF Next, Stopped

-----------------------------------------------------------------------------
(***************************************************************************)
(* Every request is answered before its thread ends.                       *)
(***************************************************************************)
LEMMA ResponsesAfter ==
  ASSUME TypeOK, NEW p, output' = Append(output, p), NEW m \in Bodies
  PROVE  Responses(m)' = IF p.part = "payload" /\ p.of.to = m
                         THEN Responses(m) \cup {Len(output) + 1}
                         ELSE Responses(m)
<1>1. /\ Len(output) \in Nat /\ Len(output') = Len(output) + 1
      /\ output'[Len(output) + 1] = p
      /\ \A i \in 1 .. Len(output) : output'[i] = output[i]
  BY DEF TypeOK
<1> QED BY <1>1 DEF Responses

Served ==
  \A m \in Bodies : Kind[m] = "request" =>
    /\ handler[m] = "ended" => Responses(m) # {}
    /\ handler[m] = "replying" => Responses(m) # {} \/ outbox[m] # None

LEMMA LoopSendsOnly ==
  ASSUME Typed, LoopStep
  PROVE  /\ output' = output /\ owner' = owner
         /\ \A m \in Bodies : outbox'[m] = outbox[m]
         /\ outbox' # outbox => reader \in {"parse", "evaluate"}
         /\ \/ handler' = handler
            \/ \E m \in Bodies : /\ handler' = [handler EXCEPT ![m] = "running"]
                                /\ handled' = Append(handled, m)
BY LoopIsNoBody, Thrown
DEF Typed, TypeOK, Senders, LoopStep, ProcessEnds, ReadHeader, EndOfInput, ReadBody, NotJson,
    Json, DrainFutures, EvaluateData, Complain, Complained, NextHeader, Wait

LEMMA SendOne ==
  ASSUME Typed, NEW t \in Senders, Send(t)
  PROVE  /\ UNCHANGED <<loopVars, handler>> /\ outbox[t] # None
         /\ \/ /\ owner = None /\ owner' = t /\ outbox' = outbox
               /\ output' = Append(output, [part |-> "header", of |-> outbox[t]])
            \/ /\ owner = t /\ owner' = None /\ outbox' = [outbox EXCEPT ![t] = None]
               /\ output' = Append(output, [part |-> "payload", of |-> outbox[t]])
BY LoopIsNoBody DEF Typed, Busy, Send, WriteHeader, WritePayload

LEMMA SendServes ==
  ASSUME Typed, Outgoing, Served, NEW t \in Senders, Send(t) PROVE Served'
<1> SUFFICES ASSUME NEW m \in Bodies, Kind[m] = "request"
             PROVE  /\ handler'[m] = "ended" => Responses(m)' # {}
                    /\ handler'[m] = "replying" => Responses(m)' # {} \/ outbox'[m] # None
  BY DEF Served
<1>1. handler' = handler
  BY SendOne
<1>2. PICK p : output' = Append(output, p)
  BY SendOne
<1>3. Responses(m) # {} => Responses(m)' # {}
  BY <1>2, ResponsesAfter DEF Typed
<1>4. CASE outbox'[m] = outbox[m]
  BY <1>1, <1>3, <1>4 DEF Served
<1>5. CASE outbox'[m] # outbox[m]
  <2>1. t = m /\ output' = Append(output, [part |-> "payload", of |-> outbox[m]])
    BY <1>5, SendOne DEF Typed, TypeOK, Senders
  <2>2. outbox[m].to = m
    BY <2>1, SendOne DEF Outgoing, HandlersSend
  <2>3. Responses(m)' # {}
    <3>1. PICK q : q = [part |-> "payload", of |-> outbox[m]]
      OBVIOUS
    <3>2. Responses(m)' = Responses(m) \cup {Len(output) + 1}
      BY <2>1, <2>2, <3>1, ResponsesAfter DEF Typed
    <3> QED BY <3>2
  <2> QED BY <2>3
<1> QED BY <1>4, <1>5

LEMMA NextServed == Typed /\ Outgoing /\ Served /\ [Next]_vars => Served'
<1> SUFFICES ASSUME Typed, Outgoing, Served, [Next]_vars PROVE Served'
  OBVIOUS
<1>0. handler \in [Bodies -> HandlerStates]
  BY DEF Typed, TypeOK
<1>1. CASE UNCHANGED vars
  BY <1>1 DEF vars, Served, Responses
<1>2. CASE LoopStep
  BY <1>0, <1>2, LoopSendsOnly DEF Served, Responses
<1>3. ASSUME NEW m \in Bodies, HandlerStep(m) PROVE Served'
  <2>1. /\ output' = output
        /\ \A n \in Bodies \ {m} : handler'[n] = handler[n]
    BY <1>0, <1>3
    DEF HandlerStep, HandleRequest, ErrorTextThrows, DumpThrows,
      HandleNotification, Exit, ProcessEnds, HandlerEnds
  <2>2. \A n \in Bodies \ {m} : outbox'[n] = outbox[n]
    BY <1>3, HandlerSends DEF Outgoing, Typed, TypeOK, Senders
  <2>3. ASSUME Kind[m] = "request", handler'[m] \in {"replying", "ended"}
        PROVE  \/ Responses(m) # {}
               \/ handler'[m] = "replying" /\ outbox'[m] # None
    <3>1. CASE outbox' = outbox
      <4>1. HandleRequest(m) => outbox'[m] # None
        BY NoFrame, <1>3, HandlerTypes DEF HandleRequest, Typed, TypeOK, Frames, Senders
      <4> QED
        BY <1>0, <1>3, <2>3, <3>1, <4>1
        DEF HandlerStep, HandleRequest, ErrorTextThrows, DumpThrows,
      HandleNotification, Exit, ProcessEnds, HandlerEnds, Served
    <3>2. CASE outbox' # outbox
      <4>1. handler'[m] = "replying" /\ outbox'[m] \in Frames
        BY <1>3, <3>2, HandlerSends DEF Outgoing, Typed, TypeOK, Senders
      <4> QED BY <4>1, NoFrame
    <3> QED BY <3>1, <3>2
  <2> QED BY <2>1, <2>2, <2>3 DEF Served, Responses
<1>4. ASSUME NEW t \in Senders, Send(t) PROVE Served'
  BY <1>4, SendServes
<1> QED BY <1>1, <1>2, <1>3, <1>4 DEF Next

LEMMA ServedInvariant == Spec => [](Typed /\ Outgoing /\ Served)
<1>1. Init => Outgoing /\ Served
  <2> SUFFICES ASSUME Init PROVE Outgoing /\ Served
    OBVIOUS
  <2>1. /\ \A m \in Bodies : ~WasHandled(m) /\ handler[m] = "none" /\ outbox[m] = None
        /\ outbox[Loop] = None /\ reader = "header"
    BY DEF Init, WasHandled, Senders
  <2> QED BY <2>1 DEF Outgoing, LoopSends, HandlersSend, ThreadsStarted, AllEnded, Served
<1> QED BY <1>1, NextOutgoing, NextServed, TypedInvariant, PTL DEF Spec

(***************************************************************************)
(* When main returns, no thread is left, although futures are forgotten at *)
(* every Drain-th message, and every request has been answered: the one    *)
(* whose error could not be sent is still among the futures then, and its  *)
(* exception ends the process instead.                                     *)
(***************************************************************************)
THEOREM AllAnswered == Spec => []AnsweredWhenDone
<1>1. Typed /\ Outgoing /\ Served => AnsweredWhenDone
  <2> SUFFICES ASSUME Typed, Outgoing, Served, reader = "done", NEW i \in DOMAIN handled
               PROVE  /\ handler[handled[i]] \in {"none", "ended"}
                      /\ Kind[handled[i]] = "request" => Responses(handled[i]) # {}
    BY DEF AnsweredWhenDone
  <2>1. handled[i] \in Bodies /\ WasHandled(handled[i])
    BY DEF Typed, TypeOK, WasHandled
  <2> QED BY <2>1 DEF Outgoing, AllEnded, ThreadsStarted, Served
<1> QED BY <1>1, ServedInvariant, PTL

-----------------------------------------------------------------------------
(***************************************************************************)
(* The output.  The specification identifies a message with its body, so   *)
(* what follows is about inputs in which no body comes twice.              *)
(***************************************************************************)
Distinct == \A i, j \in DOMAIN handled : handled[i] = handled[j] => i = j

OneSender == \A m \in Bodies : outbox[m] # None => handler[m] = "replying"

\* Who has the mutex has written a header, and its payload comes next.
LastPiece ==
  IF owner = None
  THEN output # <<>> => output[Len(output)].part = "payload"
  ELSE /\ output # <<>>
       /\ output[Len(output)] = [part |-> "header", of |-> outbox[owner]]

AnsweredOnce ==
  \A m \in Bodies :
    /\ handler[m] \in {"none", "running"} \/ outbox[m] # None => Responses(m) = {}
    /\ \A i, j \in Responses(m) : i = j
    /\ Responses(m) # {} => Kind[m] = "request"

Orderly == OneSender /\ LastPiece /\ OutputWellFormed /\ AnsweredOnce

\* A body that is handled again is not distinct.
LEMMA DistinctStep ==
  ASSUME Typed, LoopStep, Distinct'
  PROVE  /\ Distinct
         /\ \A m \in Bodies : handled' = Append(handled, m) => ~WasHandled(m)
<1>1. handled \in Seq(Bodies)
  BY DEF Typed, TypeOK
<1>2. CASE handled' = handled
  BY <1>1, <1>2 DEF Distinct
<1>3. ASSUME NEW m \in Bodies, handled' = Append(handled, m)
      PROVE  Distinct /\ ~WasHandled(m)
  BY <1>1, <1>3 DEF Distinct, WasHandled
<1>4. handled' = handled \/ \E m \in Bodies : handled' = Append(handled, m)
  BY Thrown
  DEF LoopStep, ProcessEnds, ReadHeader, EndOfInput, ReadBody, NotJson, Json,
      DrainFutures, EvaluateData, Complained, Wait
<1>5. \A m \in Bodies : handled' = Append(handled, m) => handled' # handled
  BY <1>1
<1> QED BY <1>2, <1>3, <1>4, <1>5

LEMMA LoopOrderly ==
  ASSUME Typed, Outgoing, Orderly, LoopStep, Distinct' PROVE Orderly'
<1>0. handler \in [Bodies -> HandlerStates]
  BY DEF Typed, TypeOK
<1>1. \A m \in Bodies : handler'[m] # handler[m] =>
        handler[m] = "none" /\ handler'[m] = "running"
  <2> SUFFICES ASSUME NEW m \in Bodies, handler'[m] # handler[m]
               PROVE  handler[m] = "none" /\ handler'[m] = "running"
    OBVIOUS
  <2>1. handler' = [handler EXCEPT ![m] = "running"] /\ handled' = Append(handled, m)
    BY <1>0, LoopSendsOnly
  <2>2. ~WasHandled(m)
    BY <2>1, DistinctStep
  <2> QED BY <1>0, <2>1, <2>2 DEF Outgoing, ThreadsStarted
<1>2. owner # None => outbox'[owner] = outbox[owner]
  <2>1. CASE outbox' = outbox
    BY <2>1
  <2>2. CASE outbox' # outbox
    <3>1. outbox[Loop] = None
      BY <2>2, LoopSendsOnly DEF Outgoing, LoopSends
    <3>2. owner # Loop /\ (owner # None => owner \in Bodies)
      BY <3>1, LoopIsNoBody DEF Typed, Busy, TypeOK, Senders
    <3> QED BY <3>2, LoopSendsOnly
  <2> QED BY <2>1, <2>2
<1>3. OneSender'
  BY <1>1, LoopSendsOnly DEF Orderly, OneSender
<1>4. LastPiece' /\ OutputWellFormed'
  BY <1>2, LoopSendsOnly DEF Orderly, LastPiece, OutputWellFormed
<1>5. AnsweredOnce'
  BY <1>0, <1>1, LoopSendsOnly DEF Orderly, AnsweredOnce, Responses
<1> QED BY <1>3, <1>4, <1>5 DEF Orderly

LEMMA HandlerOrderly ==
  ASSUME Typed, Outgoing, Orderly, NEW m \in Bodies, HandlerStep(m) PROVE Orderly'
<1>0. /\ handler \in [Bodies -> HandlerStates]
      /\ outbox \in [Senders -> Frames \cup {None}] /\ m \in Senders
  BY DEF Typed, TypeOK, Senders
<1>1. /\ output' = output /\ owner' = owner
      /\ \A n \in Bodies \ {m} : handler'[n] = handler[n]
      /\ handler'[m] # handler[m] =>
           \/ handler[m] = "running" /\ handler'[m] = "replying"
           \/ handler[m] = "running" /\ handler'[m] = "failed" /\ outbox' = outbox
           \/ handler'[m] = "ended" /\ outbox'[m] = None
  BY <1>0
  DEF HandlerStep, HandleRequest, ErrorTextThrows, DumpThrows,
      HandleNotification, Exit, ProcessEnds, HandlerEnds
<1>2. \A t \in Senders \ {m} : outbox'[t] = outbox[t]
  BY <1>0, HandlerSends DEF Outgoing
<1>3. outbox' # outbox => handler'[m] = "replying" /\ owner # m /\ Responses(m) = {}
  <2> SUFFICES ASSUME outbox' # outbox
               PROVE  handler'[m] = "replying" /\ owner # m /\ Responses(m) = {}
    OBVIOUS
  <2>1. /\ handler'[m] = "replying"
        /\ handler[m] = "running" \/ (outbox[m] # None /\ owner = None)
    BY HandlerSends DEF Outgoing
  <2>2. CASE handler[m] = "running"
    <3>1. outbox[m] = None
      BY <2>2 DEF Orderly, OneSender
    <3>2. owner # m
      BY <3>1, LoopIsNoBody DEF Typed, Busy, Senders
    <3> QED BY <2>1, <2>2, <3>2 DEF Orderly, AnsweredOnce
  <2>3. CASE outbox[m] # None /\ owner = None
    BY <2>1, <2>3, LoopIsNoBody DEF Orderly, AnsweredOnce, Senders
  <2> QED BY <2>1, <2>2, <2>3
<1>4. OneSender'
  BY <1>0, <1>1, <1>2, <1>3 DEF Orderly, OneSender, Senders
<1>5. LastPiece' /\ OutputWellFormed'
  BY <1>1, <1>2, <1>3 DEF Orderly, LastPiece, OutputWellFormed, Typed, TypeOK
<1>6. AnsweredOnce'
  <2>1. \A n \in Bodies : Responses(n)' = Responses(n)
    BY <1>1 DEF Responses
  <2>2. \A n \in Bodies \ {m} : outbox'[n] = outbox[n]
    BY <1>2 DEF Senders
  <2>3. handler'[m] \in {"none", "running"} \/ outbox'[m] # None => Responses(m) = {}
    BY <1>1, <1>3 DEF Orderly, AnsweredOnce
  <2> QED BY <1>1, <2>1, <2>2, <2>3 DEF Orderly, AnsweredOnce
<1> QED BY <1>4, <1>5, <1>6 DEF Orderly

LEMMA SendOrderly ==
  ASSUME Typed, Outgoing, Orderly, NEW t \in Senders, Send(t) PROVE Orderly'
<1>0. /\ outbox \in [Senders -> Frames \cup {None}] /\ outbox[t] \in Frames
      /\ output \in Seq([part : {"header", "payload"}, of : Frames])
      /\ handler' = handler
  BY SendOne DEF Typed, TypeOK
<1>1. OneSender'
  BY <1>0, SendOne, LoopIsNoBody DEF Orderly, OneSender, Senders
<1>2. CASE /\ owner = None /\ owner' = t /\ outbox' = outbox
           /\ output' = Append(output, [part |-> "header", of |-> outbox[t]])
  <2>1. LastPiece'
    BY <1>0, <1>2, LoopIsNoBody DEF LastPiece
  <2>2. OutputWellFormed'
    BY <1>0, <1>2 DEF Orderly, LastPiece, OutputWellFormed
  <2>3. AnsweredOnce'
    <3>1. PICK q : q = [part |-> "header", of |-> outbox[t]]
      OBVIOUS
    <3>2. \A m \in Bodies : Responses(m)' = Responses(m)
      BY <1>2, <3>1, ResponsesAfter DEF Typed
    <3> QED BY <1>0, <1>2, <3>2 DEF Orderly, AnsweredOnce
  <2> QED BY <1>1, <2>1, <2>2, <2>3 DEF Orderly
<1>3. CASE /\ owner = t /\ owner' = None /\ outbox' = [outbox EXCEPT ![t] = None]
           /\ output' = Append(output, [part |-> "payload", of |-> outbox[t]])
  <2>1. LastPiece'
    BY <1>0, <1>3 DEF LastPiece
  <2>2. OutputWellFormed'
    <3>1. output # <<>> /\ output[Len(output)] = [part |-> "header", of |-> outbox[t]]
      BY <1>3, LoopIsNoBody DEF Orderly, LastPiece
    <3> QED BY <1>0, <1>3, <3>1 DEF Orderly, OutputWellFormed
  <2>3. AnsweredOnce'
    <3> SUFFICES ASSUME NEW m \in Bodies
                 PROVE  /\ handler[m] \in {"none", "running"} \/ outbox'[m] # None
                              => Responses(m)' = {}
                        /\ \A i, j \in Responses(m)' : i = j
                        /\ Responses(m)' # {} => Kind[m] = "request"
      BY <1>0 DEF AnsweredOnce
    <3>1. PICK q : q = [part |-> "payload", of |-> outbox[t]]
      OBVIOUS
    <3>2. CASE outbox[t].to # m
      <4>1. Responses(m)' = Responses(m)
        BY <1>3, <3>1, <3>2, ResponsesAfter DEF Typed
      <4>2. outbox'[m] # None => outbox[m] # None
        BY <1>0, <1>3 DEF Senders
      <4> QED BY <4>1, <4>2 DEF Orderly, AnsweredOnce
    <3>3. CASE outbox[t].to = m
      <4>1. t = m /\ Kind[m] = "request" /\ outbox[m] # None
        BY <3>3, SendOne, LoopIsNoBody DEF Outgoing, HandlersSend, LoopSends, Senders
      <4>2. Responses(m) = {} /\ handler[m] = "replying"
        BY <4>1 DEF Orderly, AnsweredOnce, OneSender
      <4>3. Responses(m)' = {Len(output) + 1}
        BY <1>3, <3>1, <3>3, <4>2, ResponsesAfter DEF Typed
      <4>4. outbox'[m] = None
        BY <1>0, <1>3, <4>1
      <4> QED BY <4>1, <4>2, <4>3, <4>4
    <3> QED BY <3>2, <3>3
  <2> QED BY <1>1, <2>1, <2>2, <2>3 DEF Orderly
<1> QED BY <1>2, <1>3, SendOne

LEMMA OrderlyInvariant == Spec => [](Typed /\ Outgoing /\ (Distinct => Orderly))
<1>1. Init => Orderly
  <2> SUFFICES ASSUME Init PROVE Orderly
    OBVIOUS
  <2>1. /\ output = <<>> /\ owner = None
        /\ \A m \in Bodies : outbox[m] = None /\ Responses(m) = {}
    BY DEF Init, Senders, Responses
  <2> QED BY <2>1 DEF Orderly, OneSender, LastPiece, OutputWellFormed, AnsweredOnce
<1>2. Typed /\ Outgoing /\ (Distinct => Orderly) /\ [Next]_vars
        => (Distinct => Orderly)'
  <2> SUFFICES ASSUME Typed, Outgoing, Distinct => Orderly, [Next]_vars, Distinct'
               PROVE  Orderly'
    OBVIOUS
  <2>1. CASE UNCHANGED vars
    BY <2>1 DEF vars, Distinct, Orderly, OneSender, LastPiece, OutputWellFormed,
                AnsweredOnce, Responses
  <2>2. CASE LoopStep
    BY <2>2, DistinctStep, LoopOrderly
  <2>3. ASSUME NEW m \in Bodies, HandlerStep(m) PROVE Orderly'
    <3>1. handled' = handled
      BY <2>3
      DEF HandlerStep, HandleRequest, ErrorTextThrows, DumpThrows,
      HandleNotification, Exit, ProcessEnds, HandlerEnds
    <3> QED BY <2>3, <3>1, HandlerOrderly DEF Distinct
  <2>4. ASSUME NEW t \in Senders, Send(t) PROVE Orderly'
    BY <2>4, SendOne, SendOrderly DEF Distinct
  <2> QED BY <2>1, <2>2, <2>3, <2>4 DEF Next
<1> QED BY <1>1, <1>2, ServedInvariant, PTL DEF Spec

(***************************************************************************)
(* Whatever the threads send at once, each header is followed by its own   *)
(* payload, as long as no body was handled twice.                          *)
(***************************************************************************)
THEOREM OutputWhole == Spec => [](Distinct => OutputWellFormed)
<1>1. (Distinct => Orderly) => (Distinct => OutputWellFormed)
  BY DEF Orderly
<1> QED BY <1>1, OrderlyInvariant, PTL

(***************************************************************************)
(* Nothing but a request that was handled is answered, and that once, also *)
(* when its result cannot be dumped: as long as no body was handled twice. *)
(***************************************************************************)
THEOREM AnsweredAtMostOnce == Spec => [](Distinct => AtMostOneResponse)
<1>1. Typed /\ Outgoing /\ Orderly => AtMostOneResponse
  <2> SUFFICES ASSUME Typed, Outgoing, Orderly, NEW m \in Bodies, Responses(m) # {}
               PROVE  /\ Kind[m] = "request" /\ WasHandled(m)
                      /\ Cardinality(Responses(m)) = 1
    BY DEF AtMostOneResponse, WasHandled
  <2>1. Kind[m] = "request" /\ handler[m] # "none"
    BY DEF Orderly, AnsweredOnce
  <2>2. PICK i : Responses(m) = {i}
    <3>1. PICK i \in Responses(m) : TRUE
      OBVIOUS
    <3>2. Responses(m) = {i}
      BY <3>1 DEF Orderly, AnsweredOnce
    <3> QED BY <3>2
  <2>3. Cardinality(Responses(m)) = 1
    BY <2>2, FS_Singleton
  <2> QED BY <2>1, <2>3 DEF Outgoing, ThreadsStarted
<1> QED BY <1>1, OrderlyInvariant, PTL

-----------------------------------------------------------------------------
(***************************************************************************)
(* The input.  F is what may be left of a session of a client that keeps   *)
(* to the protocol: at a frame's end, what is left is again in F, and that *)
(* is all the loop has to know of how many frames there are.               *)
(***************************************************************************)
Client(F, T) == Framed(F) /\ F \subseteq [sent : Seq(Bodies), input : Seq(T)]

\* What is left of t when i tokens have been read.
Left(t, i) == SubSeq(t, i + 1, Len(t))

LEMMA LeftOf ==
  ASSUME NEW T, NEW t \in Seq(T), NEW i \in Nat, i <= Len(t)
  PROVE  /\ Left(t, i) \in Seq(T)
         /\ Len(Left(t, i)) = Len(t) - i
         /\ i < Len(t) => /\ Left(t, i) # <<>>
                          /\ Head(Left(t, i)) = t[i + 1]
                          /\ Tail(Left(t, i)) = Left(t, i + 1)
         /\ i = Len(t) => Left(t, i) = <<>>
<1>1. Len(t) \in Nat /\ \A j \in 1 .. Len(t) : t[j] \in T
  BY LenProperties, ElementOfSeq
<1>2. /\ Left(t, i) \in Seq(T)
      /\ Len(Left(t, i)) = IF i + 1 <= Len(t) THEN Len(t) - (i + 1) + 1 ELSE 0
  BY <1>1, SubSeqProperties DEF Left
<1>3. CASE i < Len(t)
  <2>1. i + 1 \in 1 .. Len(t) /\ Len(t) \in i + 1 .. Len(t)
    BY <1>1, <1>3
  <2>2. Head(Left(t, i)) = t[i + 1] /\ Tail(Left(t, i)) = Left(t, i + 1)
    BY <2>1, HeadTailOfSubSeq DEF Left
  <2>3. Len(Left(t, i)) # 0
    BY <1>1, <1>2, <1>3
  <2> QED BY <1>1, <1>2, <1>3, <2>2, <2>3, EmptySeq
<1>4. CASE i = Len(t)
  BY <1>1, <1>2, <1>4, SubSeqEmpty DEF Left
<1> QED BY <1>1, <1>3, <1>4

\* The state of the automaton when i of the k tokens of a header are read.
StateAfter(t, k, i) ==
  IF i = 0 THEN "INITIAL"
  ELSE IF t[i] = LF THEN "FIRST_N"
  ELSE IF t[i] # CR THEN "READING"
  ELSE IF i = k - 1 THEN "SECOND_R" ELSE "FIRST_R"

\* What s holds is still to be handled.
Ahead(F, s) == s \in F /\ handled \o s.sent = sent

InHeader(F, s, k, i) ==
  /\ Ahead(F, s)
  /\ k \in Nat /\ i \in 0 .. k - 1 /\ i <= Len(s.input)
  /\ s.input = <<>> \/ BeginsFrame(F, s, k)
  /\ input = Left(s.input, i)
  /\ state = StateAfter(s.input, k, i)
  /\ IF i = 0 THEN header = <<>> ELSE header # <<>> /\ Head(header) = s.input[1]
  /\ i >= 3 => contentLength = LengthOf[s.input[1]]

InBody(F, s, k) ==
  /\ Ahead(F, s)
  /\ k \in Nat /\ k <= Len(s.input)
  /\ BeginsFrame(F, s, k)
  /\ input = Left(s.input, k)
  /\ contentLength = LengthOf[s.input[1]]

\* A frame was read; s is what comes after it.
AfterFrame(F, s) == Ahead(F, s) /\ input = s.input

AfterMessage(F, s, m) ==
  /\ s \in F /\ m \in Bodies
  /\ messageData = Chars[m]
  /\ input = s.input
  /\ Append(handled, m) \o s.sent = sent

Place(F, T) ==
  /\ header \in Seq(T)
  /\ reader = "header" => \E s, k, i : InHeader(F, s, k, i)
  /\ reader = "body" => \E s, k : InBody(F, s, k)
  /\ reader = "parse" => \E s : \/ AfterFrame(F, s) /\ ~IsJson(messageData)
                               \/ \E m : AfterMessage(F, s, m)
  /\ reader \in {"drain", "evaluate"} => \E s, m : AfterMessage(F, s, m)
  /\ reader = "complain" => \E s : AfterFrame(F, s)
  /\ reader \in {"wait", "done"} => handled = sent

LEMMA HeaderKeepsPlace ==
  ASSUME NEW F, NEW T, Client(F, T), Typed, Place(F, T), ReadHeader
  PROVE  Place(F, T)'
<1>1. PICK s, k, i : InHeader(F, s, k, i)
  BY DEF ReadHeader, Place
<1> DEFINE t == s.input
           chr == t[i + 1]
<1>2. /\ t \in Seq(T) /\ Len(t) \in Nat /\ k \in Nat /\ i \in Nat
      /\ i <= k - 1 /\ i <= Len(t) /\ header \in Seq(T)
  BY <1>1, LenProperties DEF InHeader, Ahead, Client, Place
<1>3. i < Len(t) /\ chr \in T
  <2>1. i = Len(t) => Left(t, i) = <<>>
    BY <1>2, LeftOf
  <2>2. i < Len(t)
    BY <1>1, <1>2, <2>1 DEF InHeader, ReadHeader
  <2> QED BY <1>2, <2>2, ElementOfSeq
<1>4. chr = Head(input) /\ input' = Left(t, i + 1)
  <2>1. Head(Left(t, i)) = chr /\ Tail(Left(t, i)) = Left(t, i + 1)
    BY <1>2, <1>3, LeftOf
  <2> QED BY <1>1, <2>1 DEF InHeader, ReadHeader
<1>5. BeginsFrame(F, s, k) /\ BeginsHeader(t, k)
  BY <1>1, <1>2, <1>3, EmptySeq DEF InHeader, BeginsFrame
<1>6. /\ k >= 5 /\ t[1] # CR /\ t[1] # LF /\ t[1] \in DOMAIN LengthOf
      /\ Len(t) >= 2 => t[2] = CR
  BY <1>5 DEF BeginsHeader
<1>7. i >= 1 => /\ chr = LF <=> t[i] = CR
                /\ (chr = CR /\ t[i] = LF) <=> (i + 1 = k - 1)
  <2> SUFFICES ASSUME i >= 1
               PROVE  /\ chr = LF <=> t[i] = CR
                      /\ (chr = CR /\ t[i] = LF) <=> (i + 1 = k - 1)
    OBVIOUS
  <2>1. i + 1 \in 2 .. k /\ i + 1 <= Len(t) /\ (i + 1) - 1 = i
    BY <1>2, <1>3
  <2> QED BY <1>5, <2>1 DEF BeginsHeader
<1>8. Ahead(F, s)' /\ sent' = sent /\ handled' = handled
  BY <1>1 DEF InHeader, Ahead, ReadHeader
<1>9. CASE chr = CR
  <2>1. /\ reader' = "header" /\ header' = header /\ contentLength' = contentLength
        /\ state' = IF state = "FIRST_N" THEN "SECOND_R" ELSE "FIRST_R"
    BY <1>4, <1>9, JsonRpcAssumption DEF ReadHeader
  <2>2. i >= 1 /\ i + 1 # k /\ i + 1 # 3
    BY <1>2, <1>3, <1>5, <1>6, <1>7, <1>9, JsonRpcAssumption DEF BeginsHeader
  <2>3. state' = StateAfter(t, k, i + 1)
    BY <1>1, <1>2, <1>7, <1>9, <2>1, <2>2, JsonRpcAssumption DEF InHeader, StateAfter
  <2>4. InHeader(F, s, k, i + 1)'
    BY <1>1, <1>2, <1>3, <1>4, <1>8, <2>1, <2>2, <2>3 DEF InHeader
  <2> QED BY <1>2, <2>1, <2>4 DEF Place
<1>10. CASE chr = LF /\ state = "SECOND_R"
  <2>1. /\ reader' = "body" /\ header' = header /\ contentLength' = contentLength
    BY <1>4, <1>10, JsonRpcAssumption DEF ReadHeader
  <2>2. i + 1 = k
    BY <1>1, <1>2, <1>10 DEF InHeader, StateAfter
  <2>3. InBody(F, s, k)'
    BY <1>1, <1>2, <1>3, <1>4, <1>5, <1>6, <1>8, <2>1, <2>2 DEF InHeader, InBody
  <2> QED BY <1>2, <2>1, <2>3 DEF Place
<1>11. CASE chr = LF /\ state # "SECOND_R"
  <2>1. /\ reader' = "header" /\ header' = header /\ state' = "FIRST_N"
        /\ header # <<>> /\ Head(header) \in DOMAIN LengthOf =>
             contentLength' = LengthOf[Head(header)]
    BY <1>4, <1>11, JsonRpcAssumption DEF ReadHeader
  <2>2. i >= 1 /\ t[i] = CR /\ i + 1 # k
    BY <1>1, <1>2, <1>5, <1>6, <1>7, <1>11, JsonRpcAssumption
    DEF InHeader, StateAfter, BeginsHeader
  <2>3. contentLength' = LengthOf[t[1]]
    BY <1>1, <1>6, <2>1, <2>2 DEF InHeader
  <2>4. state' = StateAfter(t, k, i + 1)
    BY <1>2, <1>11, <2>1 DEF StateAfter
  <2>5. InHeader(F, s, k, i + 1)'
    BY <1>1, <1>2, <1>3, <1>4, <1>8, <2>1, <2>2, <2>3, <2>4 DEF InHeader
  <2> QED BY <1>2, <2>1, <2>5 DEF Place
<1>12. CASE chr # CR /\ chr # LF
  <2>1. /\ reader' = "header" /\ header' = Append(header, chr) /\ state' = "READING"
        /\ contentLength' = contentLength
    BY <1>4, <1>12 DEF ReadHeader
  <2>2. i + 1 # k /\ i + 1 # 3
    BY <1>2, <1>3, <1>5, <1>6, <1>7, <1>12, JsonRpcAssumption DEF BeginsHeader
  <2>3. /\ header' # <<>> /\ header' \in Seq(T)
        /\ Head(header') = IF header = <<>> THEN chr ELSE Head(header)
    BY <1>2, <1>3, <2>1, AppendProperties, HeadTailAppend
  <2>4. state' = StateAfter(t, k, i + 1)
    BY <1>2, <1>12, <2>1 DEF StateAfter
  <2>5. InHeader(F, s, k, i + 1)'
    BY <1>1, <1>2, <1>3, <1>4, <1>8, <2>1, <2>2, <2>3, <2>4 DEF InHeader
  <2> QED BY <2>1, <2>3, <2>5 DEF Place
<1> QED BY <1>9, <1>10, <1>11, <1>12

LEMMA EndKeepsPlace ==
  ASSUME NEW F, NEW T, Client(F, T), Typed, Place(F, T), EndOfInput
  PROVE  Place(F, T)'
<1>1. PICK s, k, i : InHeader(F, s, k, i)
  BY DEF EndOfInput, Place
<1>2. /\ s.input \in Seq(T) /\ Len(s.input) \in Nat /\ k \in Nat /\ i \in Nat
      /\ i <= k - 1 /\ i <= Len(s.input) /\ s \in F /\ handled \in Seq(Bodies)
  BY <1>1, LenProperties DEF InHeader, Ahead, Client, Typed, TypeOK
<1>3. i < Len(s.input) => Left(s.input, i) # <<>>
  BY <1>2, LeftOf
<1>4. i = Len(s.input)
  BY <1>1, <1>2, <1>3 DEF InHeader, EndOfInput
<1>5. s.sent = <<>>
  <2>1. CASE s.input = <<>>
    BY <1>2, <2>1 DEF Client, Framed
  <2>2. CASE s.input # <<>>
    <3>1. BeginsFrame(F, s, k) /\ BeginsHeader(s.input, k)
      BY <1>1, <2>2 DEF InHeader, BeginsFrame
    <3>2. LengthOf[s.input[1]] \in Nat
      BY <3>1, JsonRpcAssumption DEF BeginsHeader
    <3> QED BY <1>2, <1>4, <3>1, <3>2 DEF BeginsFrame
  <2> QED BY <2>1, <2>2
<1>6. handled = sent
  BY <1>1, <1>2, <1>5, ConcatEmptySeq DEF InHeader, Ahead
<1> QED BY <1>6 DEF EndOfInput, Place

\* The n tokens of a body, and what comes after it.
LEMMA BodyOf ==
  ASSUME NEW T, NEW t \in Seq(T), NEW k \in Nat, NEW n \in Nat, k + n <= Len(t)
  PROVE  /\ SubSeq(Left(t, k), 1, n) = SubSeq(t, k + 1, k + n)
         /\ Len(SubSeq(Left(t, k), 1, n)) = n
         /\ SubSeq(Left(t, k), 1, n) \in Seq(T)
         /\ SubSeq(Left(t, k), n + 1, Len(Left(t, k))) = SubSeq(t, k + n + 1, Len(t))
<1>1. Len(t) \in Nat /\ \A j \in 1 .. Len(t) : t[j] \in T
  BY LenProperties, ElementOfSeq
<1>2. Left(t, k) \in Seq(T) /\ Len(Left(t, k)) = Len(t) - k
  <2>1. k <= Len(t)
    BY <1>1
  <2> QED BY <2>1, LeftOf
<1>3. /\ SubSeq(t, k + 1, k + n) \in Seq(T)
      /\ Len(SubSeq(t, k + 1, k + n)) = n
  <2>1. \A j \in k + 1 .. k + n : t[j] \in T
    BY <1>1
  <2>2. /\ SubSeq(t, k + 1, k + n) \in Seq(T)
        /\ Len(SubSeq(t, k + 1, k + n)) =
             IF k + 1 <= k + n THEN k + n - (k + 1) + 1 ELSE 0
    BY <2>1, SubSeqProperties
  <2> QED BY <2>2
<1>4. SubSeq(Left(t, k), 1, n) = SubSeq(t, k + 1, k + n)
  <2>1. CASE n = 0
    BY <1>1, <2>1, SubSeqEmpty
  <2>2. CASE n # 0
    <3>1. /\ k + 1 \in 1 .. Len(t) /\ Len(t) \in 1 .. Len(t)
          /\ 1 \in 1 .. Len(t) - (k + 1) + 1 /\ n \in 1 .. Len(t) - (k + 1) + 1
      BY <1>1, <2>2
    <3>2. SubSeq(SubSeq(t, k + 1, Len(t)), 1, n) =
            SubSeq(t, (k + 1) + 1 - 1, (k + 1) + n - 1)
      BY <3>1, SubSeqOfSubSeq
    <3> QED BY <3>2 DEF Left
  <2> QED BY <2>1, <2>2
<1>5. SubSeq(Left(t, k), n + 1, Len(Left(t, k))) = SubSeq(t, k + n + 1, Len(t))
  <2>1. CASE k + n = Len(t)
    BY <1>1, <1>2, <2>1, SubSeqEmpty
  <2>2. CASE k + n < Len(t)
    <3>1. /\ k + 1 \in 1 .. Len(t) /\ Len(t) \in 1 .. Len(t)
          /\ n + 1 \in 1 .. Len(t) - (k + 1) + 1
          /\ Len(t) - k \in 1 .. Len(t) - (k + 1) + 1
      BY <1>1, <2>2
    <3>2. SubSeq(SubSeq(t, k + 1, Len(t)), n + 1, Len(t) - k) =
            SubSeq(t, (k + 1) + (n + 1) - 1, (k + 1) + (Len(t) - k) - 1)
      BY <3>1, SubSeqOfSubSeq
    <3> QED BY <1>1, <1>2, <3>2 DEF Left
  <2> QED BY <1>1, <2>1, <2>2
<1> QED BY <1>3, <1>4, <1>5

LEMMA AppendOne ==
  ASSUME NEW T, NEW u \in Seq(T), NEW e \in T, NEW v \in Seq(T)
  PROVE  Append(u, e) \o v = u \o (<<e>> \o v)
<1>1. <<e>> \in Seq(T)
  OBVIOUS
<1>2. Append(u, e) = u \o <<e>>
  BY AppendIsConcat
<1> QED BY <1>1, <1>2, ConcatAssociative

\* Taking the first of one sequence to the end of another.
LEMMA AppendHead ==
  ASSUME NEW T, NEW u \in Seq(T), NEW v \in Seq(T), v # <<>>
  PROVE  Append(u, Head(v)) \o Tail(v) = u \o v
<1>1. Head(v) \in T /\ Tail(v) \in Seq(T) /\ <<Head(v)>> \in Seq(T)
  BY HeadTailProperties
<1>2. Append(u, Head(v)) \o Tail(v) = u \o (<<Head(v)>> \o Tail(v))
  BY <1>1, AppendOne
<1>3. <<Head(v)>> \o Tail(v) = v
  <2>1. Len(v) \in Nat \ {0}
    BY EmptySeq
  <2>2. 1 \in 1 .. Len(v) /\ Len(v) \in 1 .. Len(v) /\ Head(v) = v[1]
    BY <2>1
  <2>3. SubSeq(v, 1, Len(v)) = <<v[1]>> \o SubSeq(v, 1 + 1, Len(v))
    BY <2>2, SubSeqRecursiveFirst
  <2> QED BY <2>2, <2>3, SubSeqFull, TailIsSubSeq
<1> QED BY <1>2, <1>3

\* A body that is not cut is read as it is.
LEMMA BodyRead ==
  ASSUME NEW F, NEW T, Client(F, T), Typed, ReadBody, NEW s, NEW k, InBody(F, s, k),
         Len(s.input) >= k + LengthOf[s.input[1]]
  PROVE  /\ messageData' = SubSeq(s.input, k + 1, k + LengthOf[s.input[1]])
         /\ messageData' \in Seq(T)
         /\ input' = SubSeq(s.input, k + LengthOf[s.input[1]] + 1, Len(s.input))
<1> DEFINE t == s.input
           n == LengthOf[t[1]]
           given == SubSeq(input, 1, IF n < Len(input) THEN n ELSE Len(input))
<1>1. /\ t \in Seq(T) /\ Len(t) \in Nat /\ k \in Nat /\ k <= Len(t)
      /\ n \in Nat /\ n = contentLength /\ input = Left(t, k)
  BY LenProperties DEF InBody, Ahead, Client, Typed, TypeOK
<1>2. Len(input) \in Nat /\ n <= Len(input) /\ k + n <= Len(t)
  <2>1. Len(input) = Len(t) - k
    BY <1>1, LeftOf
  <2> QED BY <1>1, <2>1
<1>3. /\ messageData' = given \o [i \in 1 .. n - Len(given) |-> Junk]
      /\ input' = SubSeq(input, Len(given) + 1, Len(input))
  BY <1>1 DEF ReadBody
<1>4. given = SubSeq(input, 1, n)
  <2> HIDE DEF n
  <2>1. (IF n < Len(input) THEN n ELSE Len(input)) = n
    BY <1>1, <1>2
  <2> QED BY <2>1
<1>5. /\ SubSeq(input, 1, n) = SubSeq(t, k + 1, k + n) /\ Len(SubSeq(input, 1, n)) = n
      /\ SubSeq(input, 1, n) \in Seq(T)
      /\ SubSeq(input, n + 1, Len(input)) = SubSeq(t, k + n + 1, Len(t))
  <2> HIDE DEF n, t
  <2> QED BY <1>1, <1>2, BodyOf
<1>6. [i \in 1 .. n - Len(given) |-> Junk] = <<>>
  <2>1. n - Len(given) = 0
    BY <1>1, <1>4, <1>5
  <2>2. [i \in 1 .. 0 |-> Junk] = <<>>
    BY SeqEqual
  <2> QED BY <2>1, <2>2
<1> QED BY <1>3, <1>4, <1>5, <1>6, ConcatEmptySeq

LEMMA BodyKeepsPlace ==
  ASSUME NEW F, NEW T, Client(F, T), Typed, Place(F, T), ReadBody
  PROVE  Place(F, T)'
<1>1. PICK s, k : InBody(F, s, k)
  BY DEF ReadBody, Place
<1> DEFINE t == s.input
           n == LengthOf[t[1]]
           given == SubSeq(input, 1, IF n < Len(input) THEN n ELSE Len(input))
           body == SubSeq(t, k + 1, k + n)
           rest == SubSeq(t, k + n + 1, Len(t))
<1>2. /\ t \in Seq(T) /\ Len(t) \in Nat /\ k \in Nat /\ k <= Len(t)
      /\ n \in Nat /\ n = contentLength /\ handled \in Seq(Bodies)
      /\ input = Left(t, k) /\ s \in F /\ s \in [sent : Seq(Bodies), input : Seq(T)]
  BY <1>1, LenProperties DEF InBody, Ahead, Client, Typed, TypeOK
<1>3. /\ input \in Seq(T) /\ Len(input) = Len(t) - k
  BY <1>2, LeftOf
<1>4. /\ reader' = "parse" /\ header' = header /\ handled' = handled /\ sent' = sent
      /\ messageData' = given \o [i \in 1 .. n - Len(given) |-> Junk]
      /\ input' = SubSeq(input, Len(given) + 1, Len(input))
  BY <1>2 DEF ReadBody
<1>5. CASE Len(t) >= k + n
  <2>2. input' = rest /\ messageData' = body
    BY <1>1, <1>5, BodyRead
  <2>4. CASE /\ s.sent # <<>> /\ body = Chars[Head(s.sent)]
             /\ [sent |-> Tail(s.sent), input |-> rest] \in F
    <3>1. Head(s.sent) \in Bodies /\ Tail(s.sent) \in Seq(Bodies)
      BY <1>2, <2>4, HeadTailProperties
    <3>2. Append(handled, Head(s.sent)) \o Tail(s.sent) = handled \o s.sent
      BY <1>2, <2>4, AppendHead
    <3>3. AfterMessage(F, [sent |-> Tail(s.sent), input |-> rest], Head(s.sent))'
      BY <1>1, <1>4, <2>2, <2>4, <3>1, <3>2 DEF AfterMessage, InBody, Ahead
    <3> QED BY <1>4, <3>3 DEF Place
  <2>5. CASE /\ \A m \in Bodies : body # Chars[m]
             /\ [sent |-> s.sent, input |-> rest] \in F
    <3>1. AfterFrame(F, [sent |-> s.sent, input |-> rest])' /\ ~IsJson(messageData')
      BY <1>1, <1>4, <2>2, <2>5 DEF AfterFrame, IsJson, InBody, Ahead
    <3> QED BY <1>4, <3>1 DEF Place
  <2> QED BY <1>1, <1>2, <1>5, <2>4, <2>5 DEF InBody, BeginsFrame
<1>6. CASE Len(t) < k + n
  <2>1. s.sent = <<>>
    BY <1>1, <1>2, <1>6 DEF InBody, BeginsFrame
  <2>2. given = input
    <3>1. given = SubSeq(input, 1, Len(input))
      BY <1>2, <1>3, <1>6
    <3> QED BY <1>3, <3>1, SubSeqFull
  <2>3. input' = <<>>
    <3>1. Len(input) \in Int /\ Len(input) + 1 \in Int /\ Len(input) < Len(input) + 1
      BY <1>2, <1>3
    <3> QED BY <1>4, <2>2, <3>1, SubSeqEmpty
  <2>4. ~IsJson(messageData')
    <3>1. n - Len(input) \in Nat \ {0}
      BY <1>2, <1>3, <1>6
    <3>2. messageData'[Len(input) + 1] = Junk /\ Len(input) + 1 \in DOMAIN messageData'
      <4> DEFINE pad == [i \in 1 .. n - Len(input) |-> Junk]
      <4>1. pad \in Seq({Junk}) /\ Len(pad) = n - Len(input) /\ pad[1] = Junk
        BY <3>1
      <4>2. pad \in Seq(T \cup {Junk}) /\ input \in Seq(T \cup {Junk})
        BY <1>3, <4>1, SeqMonotonic
      <4>3. messageData' = input \o pad
        BY <1>4, <2>2
      <4> HIDE DEF pad
      <4> QED BY <1>2, <1>3, <3>1, <4>1, <4>2, <4>3, ConcatProperties, LenProperties
    <3> QED BY <3>2, JsonRpcAssumption DEF IsJson
  <2>5. AfterFrame(F, [sent |-> <<>>, input |-> <<>>])'
    BY <1>1, <1>4, <2>1, <2>3 DEF AfterFrame, InBody, Ahead, Client, Framed
  <2> QED BY <1>4, <2>4, <2>5 DEF Place
<1> QED BY <1>2, <1>5, <1>6

\* Where a frame ends, a header begins.
LEMMA FrameBegins ==
  ASSUME NEW F, NEW T, Client(F, T), NEW s \in F
  PROVE  /\ Len(s.input) \in Nat /\ Left(s.input, 0) = s.input
         /\ \E k \in Nat : k > 0 /\ (s.input = <<>> \/ BeginsFrame(F, s, k))
<1>1. s.input \in Seq(T) /\ Len(s.input) \in Nat
  BY LenProperties DEF Client
<1>2. CASE s.input = <<>>
  <2>1. 1 \in Nat /\ 1 > 0
    OBVIOUS
  <2> QED BY <1>1, <1>2, <2>1, SubSeqFull DEF Left
<1>3. CASE s.input # <<>>
  <2>1. PICK k \in 5 .. Len(s.input) + 4 : BeginsFrame(F, s, k)
    BY <1>3 DEF Client, Framed
  <2>2. k \in Nat /\ k > 0
    BY <1>1
  <2> QED BY <1>1, <2>1, <2>2, SubSeqFull DEF Left
<1> QED BY <1>2, <1>3

LEMMA NextFrame ==
  ASSUME NEW F, NEW T, Client(F, T), NEW s, AfterFrame(F, s)', NextHeader
  PROVE  Place(F, T)'
<1>1. s \in F /\ input' = s.input
  BY DEF AfterFrame, Ahead
<1>2. PICK k \in Nat : k > 0 /\ (s.input = <<>> \/ BeginsFrame(F, s, k))
  BY <1>1, FrameBegins
<1>3. Len(s.input) \in Nat /\ Left(s.input, 0) = s.input
  BY <1>1, FrameBegins
<1>4. InHeader(F, s, k, 0)'
  BY <1>1, <1>2, <1>3 DEF InHeader, AfterFrame, StateAfter, NextHeader
<1> QED BY <1>4 DEF Place, NextHeader

\* What does not concern the loop.
LEMMA ElsewhereKeepsPlace ==
  ASSUME NEW F, NEW T, Place(F, T), UNCHANGED <<sent, loopVars>>
  PROVE  Place(F, T)'
<1>1. /\ \A s, k, i : InHeader(F, s, k, i) => InHeader(F, s, k, i)'
      /\ \A s, k : InBody(F, s, k) => InBody(F, s, k)'
  BY DEF InHeader, InBody, Ahead
<1>2. /\ \A s : AfterFrame(F, s) => AfterFrame(F, s)'
      /\ \A s, m : AfterMessage(F, s, m) => AfterMessage(F, s, m)'
      /\ IsJson(messageData)' = IsJson(messageData)
  BY DEF AfterFrame, AfterMessage, Ahead, IsJson
<1> QED BY <1>1, <1>2 DEF Place

LEMMA LoopKeepsPlace ==
  ASSUME NEW F, NEW T, Client(F, T), Typed, Place(F, T), LoopStep
  PROVE  Place(F, T)'
<1>1. CASE ReadHeader
  BY <1>1, HeaderKeepsPlace
<1>2. CASE EndOfInput
  BY <1>2, EndKeepsPlace
<1>3. CASE ReadBody
  BY <1>3, BodyKeepsPlace
<1>4. CASE NotJson
  <2>1. PICK s : AfterFrame(F, s)
    BY <1>4 DEF NotJson, Place, AfterMessage, IsJson
  <2>2. AfterFrame(F, s)'
    BY <1>4, <2>1 DEF NotJson, AfterFrame, Ahead
  <2> QED BY <1>4, <2>2 DEF NotJson, Complain, Place
<1>5. CASE Json
  <2>1. PICK s, m : AfterMessage(F, s, m)
    BY <1>5 DEF Json, Place, IsJson
  <2>2. AfterMessage(F, s, m)'
    BY <1>5, <2>1 DEF Json, AfterMessage
  <2> QED BY <1>5, <2>2 DEF Json, Place
<1>6. CASE DrainFutures
  <2>1. PICK s, m : AfterMessage(F, s, m)
    BY <1>6 DEF DrainFutures, Place
  <2>2. AfterMessage(F, s, m)'
    BY <1>6, <2>1 DEF DrainFutures, AfterMessage
  <2> QED BY <1>6, <2>2 DEF DrainFutures, Place
<1>7. CASE EvaluateData
  <2>1. PICK s, m : AfterMessage(F, s, m)
    BY <1>7 DEF EvaluateData, Place
  <2>2. PICK n \in Bodies :
          /\ Chars[n] = messageData /\ handled' = Append(handled, n)
          /\ sent' = sent /\ input' = input
          /\ \/ reader' = "complain" /\ header' = header
             \/ NextHeader
    BY <1>7 DEF EvaluateData, Complain
  <2>3. n = m
    BY <2>1, <2>2, JsonRpcAssumption DEF AfterMessage
  <2>4. AfterFrame(F, s)'
    BY <2>1, <2>2, <2>3 DEF AfterMessage, AfterFrame, Ahead
  <2> QED BY <2>2, <2>4, NextFrame DEF Place
<1>8. CASE Complained
  <2>1. PICK s : AfterFrame(F, s)
    BY <1>8 DEF Complained, Place
  <2>2. AfterFrame(F, s)' /\ NextHeader
    BY <1>8, <2>1 DEF Complained, AfterFrame, Ahead
  <2> QED BY <2>2, NextFrame
<1>9. CASE Wait
  BY <1>9 DEF Wait, Place
<1>10. CASE ProcessEnds
  BY <1>10, ElsewhereKeepsPlace DEF ProcessEnds
<1> QED
  BY <1>1, <1>2, <1>3, <1>4, <1>5, <1>6, <1>7, <1>8, <1>9, <1>10, Thrown DEF LoopStep

LEMMA PlaceInvariant ==
  ASSUME NEW F, NEW T, Client(F, T), Sessions \subseteq F
  PROVE  Spec => [](Typed /\ Place(F, T))
<1>1. Init => Place(F, T)
  <2> SUFFICES ASSUME Init PROVE Place(F, T)
    OBVIOUS
  <2>1. PICK s \in Sessions : sent = s.sent /\ input = s.input
    BY DEF Init
  <2>2. s \in F /\ s.sent \in Seq(Bodies)
    BY <2>1 DEF Client
  <2>3. AfterFrame(F, s)
    BY <2>1, <2>2, ConcatEmptySeq DEF Init, AfterFrame, Ahead
  <2>4. PICK k \in Nat : k > 0 /\ (s.input = <<>> \/ BeginsFrame(F, s, k))
    BY <2>2, FrameBegins
  <2>5. Len(s.input) \in Nat /\ Left(s.input, 0) = s.input
    BY <2>2, FrameBegins
  <2>6. InHeader(F, s, k, 0)
    BY <2>3, <2>4, <2>5 DEF Init, InHeader, AfterFrame, StateAfter
  <2> QED BY <2>6 DEF Init, Place
<1>2. Typed /\ Place(F, T) /\ [Next]_vars => Place(F, T)'
  <2> SUFFICES ASSUME Typed, Place(F, T), [Next]_vars PROVE Place(F, T)'
    OBVIOUS
  <2>1. CASE UNCHANGED <<sent, loopVars>>
    BY <2>1, ElsewhereKeepsPlace
  <2>2. CASE LoopStep
    BY <2>2, LoopKeepsPlace
  <2>3. ASSUME NEW m \in Bodies, HandlerStep(m) PROVE UNCHANGED <<sent, loopVars>>
    BY <2>3
    DEF HandlerStep, HandleRequest, ErrorTextThrows, DumpThrows,
      HandleNotification, Exit, ProcessEnds, HandlerEnds
  <2>4. ASSUME NEW t \in Senders, Send(t) PROVE UNCHANGED <<sent, loopVars>>
    BY <2>4 DEF Send, WriteHeader, WritePayload
  <2> QED BY <2>1, <2>2, <2>3, <2>4 DEF Next, vars
<1> QED BY <1>1, <1>2, TypedInvariant, PTL DEF Spec

LEMMA PrefixOf ==
  ASSUME NEW T, NEW u \in Seq(T), NEW v \in Seq(T)
  PROVE  SubSeq(u \o v, 1, Len(u)) = u
<1>1. CASE u = <<>>
  BY <1>1, SubSeqEmpty
<1>2. CASE u # <<>>
  <2>1. Len(u) \in Nat \ {0}
    BY <1>2, EmptySeq
  <2>2. 1 \in 1 .. Len(u) /\ Len(u) \in 1 .. Len(u)
    BY <2>1
  <2> QED BY <2>2, SubSeqOfConcat1, SubSeqFull
<1> QED BY <1>1, <1>2

LEMMA SentIsAhead ==
  ASSUME NEW F, NEW T, Client(F, T), Typed, Place(F, T)
  PROVE  \E v \in Seq(Bodies) : handled \o v = sent
<1>1. handled \in Seq(Bodies)
  BY DEF Typed, TypeOK
<1>2. CASE handled = sent
  BY <1>1, <1>2, EmptySeq, ConcatEmptySeq
<1>3. ASSUME NEW s, Ahead(F, s)
      PROVE  s.sent \in Seq(Bodies) /\ handled \o s.sent = sent
  BY <1>3 DEF Ahead, Client
<1>4. ASSUME NEW s, NEW m, AfterMessage(F, s, m)
      PROVE  \E v \in Seq(Bodies) : handled \o v = sent
  <2>1. s.sent \in Seq(Bodies) /\ m \in Bodies
    BY <1>4 DEF AfterMessage, Client
  <2>2. PICK u \in Seq(Bodies), v \in Seq(Bodies), e \in Bodies :
          u = handled /\ v = s.sent /\ e = m
    BY <1>1, <2>1
  <2>3. Append(u, e) \o v = u \o (<<e>> \o v) /\ <<e>> \o v \in Seq(Bodies)
    BY AppendOne
  <2> QED BY <1>4, <2>2, <2>3 DEF AfterMessage
<1>5. \/ handled = sent
      \/ \E s : Ahead(F, s)
      \/ \E s, m : AfterMessage(F, s, m)
  BY DEF Typed, TypeOK, Place, InHeader, InBody, AfterFrame
<1> QED BY <1>2, <1>3, <1>4, <1>5

(***************************************************************************)
(* For every client that keeps to the protocol: the loop handles the       *)
(* bodies that were sent, in their order, also after a body that is not    *)
(* JSON, and if it comes to the end of the input it has handled them all,  *)
(* also when that ends within a frame. It does not come to the end when an *)
(* error about a body cannot be sent, which ends the process.              *)
(***************************************************************************)
THEOREM FramingKept ==
  ASSUME NEW F, NEW T, Framed(F), F \subseteq [sent : Seq(Bodies), input : Seq(T)],
         Sessions \subseteq F
  PROVE  Spec => []HandledAsSent
<1>1. Typed /\ Place(F, T) => HandledAsSent
  <2> SUFFICES ASSUME Typed, Place(F, T) PROVE HandledAsSent
    OBVIOUS
  <2>1. handled \in Seq(Bodies) /\ (reader \in {"wait", "done"} => handled = sent)
    BY DEF Typed, TypeOK, Place
  <2>2. handled = SubSeq(sent, 1, Len(handled))
    BY <2>1, SentIsAhead, PrefixOf DEF Client
  <2> QED BY <2>1, <2>2 DEF HandledAsSent
<1> QED BY <1>1, PlaceInvariant, PTL DEF Client

LEMMA HandledOnce ==
  ASSUME NEW F, NEW T, Client(F, T), Sessions \subseteq F,
         \A s \in Sessions : Once(s.sent)
  PROVE  Spec => []Distinct
<1>1. Init => Once(sent)
  BY DEF Init
<1>2. Typed /\ Once(sent) /\ [Next]_vars => Once(sent)'
  <2>1. Next => UNCHANGED sent
    BY Thrown
    DEF Next, vars, LoopStep, ProcessEnds, HandlerStep, Send, ReadHeader, EndOfInput, ReadBody,
           NotJson, Json, DrainFutures, EvaluateData, Complained, Wait, HandleRequest, ErrorTextThrows, DumpThrows,
      HandleNotification, Exit, ProcessEnds, HandlerEnds, WriteHeader, WritePayload
  <2> QED BY <2>1 DEF vars, Once
<1>3. ASSUME Typed, Place(F, T), Once(sent) PROVE Distinct
  <2>1. PICK u \in Seq(Bodies), v \in Seq(Bodies) : u = handled /\ u \o v = sent
    BY <1>3, SentIsAhead DEF Typed, TypeOK
  <2>2. SUFFICES ASSUME NEW i \in 1 .. Len(u), NEW j \in 1 .. Len(u), u[i] = u[j]
                 PROVE  i = j
    BY <2>1, LenProperties DEF Distinct
  <2>3. /\ i \in 1 .. Len(u) + Len(v) /\ j \in 1 .. Len(u) + Len(v)
        /\ DOMAIN (u \o v) = 1 .. Len(u) + Len(v)
        /\ (u \o v)[i] = u[i] /\ (u \o v)[j] = u[j]
    BY ConcatProperties, LenProperties
  <2>4. Once(u \o v)
    BY <1>3, <2>1
  <2> QED BY <2>2, <2>3, <2>4 DEF Once
<1>4. Typed /\ Place(F, T) /\ Once(sent) => Distinct
  BY <1>3
<1> QED BY <1>1, <1>2, <1>4, PlaceInvariant, PTL DEF Spec

(***************************************************************************)
(* For every client that keeps to the protocol and sends no body twice:    *)
(* its output is not mixed, and whatever is answered is a request, and     *)
(* answered once.                                                          *)
(***************************************************************************)
THEOREM SessionAnsweredOnce ==
  ASSUME NEW F, NEW T, Framed(F), F \subseteq [sent : Seq(Bodies), input : Seq(T)],
         Sessions \subseteq F, \A s \in Sessions : Once(s.sent)
  PROVE  Spec => [](OutputWellFormed /\ AtMostOneResponse)
<1>1. Spec => []Distinct
  BY HandledOnce DEF Client
<1> QED BY <1>1, OutputWhole, AnsweredAtMostOnce, PTL

-----------------------------------------------------------------------------
(***************************************************************************)
(* What ends the process early, and whose input does not.                  *)
(***************************************************************************)
Harmless == {m \in Bodies : Kind[m] # "exit" /\ m \notin MayQuote}

\* All is UTF-8, no body is cut by the end of the input, and nobody asks to
\* exit, nor for what fails with an error that cannot be sent.
WellBehaved(F, T) ==
  /\ T \cap IllFormed = {}
  /\ \A s \in F : s.sent \in Seq(Harmless)
  /\ \A s \in F : \A k \in Nat :
       BeginsFrame(F, s, k) =>
         Len(s.input) < k \/ Len(s.input) >= k + LengthOf[s.input[1]]

Unharmed(T) ==
  /\ alive
  /\ sent \in Seq(Harmless)
  /\ \A m \in Bodies : handler[m] # "failed"
  /\ reader = "parse" => messageData \in Seq(T)

LEMMA HandledIsHarmless ==
  ASSUME NEW F, NEW T, Client(F, T), Typed, Place(F, T), sent \in Seq(Harmless),
         NEW m \in Bodies, WasHandled(m)
  PROVE  m \in Harmless
<1>1. PICK u \in Seq(Bodies), v \in Seq(Bodies) : u = handled /\ u \o v = sent
  BY SentIsAhead DEF Typed, TypeOK
<1>2. PICK i \in 1 .. Len(u) : u[i] = m
  BY <1>1, LenProperties DEF WasHandled
<1>3. (u \o v)[i] = u[i] /\ i \in 1 .. Len(u \o v)
  BY <1>2, ConcatProperties, LenProperties
<1>4. (u \o v)[i] \in Harmless
  BY <1>1, <1>3, ElementOfSeq
<1> QED BY <1>2, <1>3, <1>4

LEMMA LoopUnharmed ==
  ASSUME NEW F, NEW T, Client(F, T), WellBehaved(F, T), Typed, Place(F, T),
         Unharmed(T), LoopStep
  PROVE  Unharmed(T)'
<1>1. ~LengthThrows
  <2> SUFFICES ASSUME LengthThrows PROVE FALSE
    OBVIOUS
  <2>1. PICK s, k, i : InHeader(F, s, k, i)
    BY DEF LengthThrows, Place
  <2>2. header # <<>> /\ Head(header) \in BadLengths
    BY DEF LengthThrows, BadLength
  <2>3. i # 0 /\ Head(header) = s.input[1] /\ i \in Nat /\ i <= Len(s.input)
    BY <2>1, <2>2 DEF InHeader
  <2>4. s.input # <<>>
    BY <2>3
  <2>5. s.input[1] \in DOMAIN LengthOf
    BY <2>1, <2>4 DEF InHeader, BeginsFrame, BeginsHeader
  <2> QED BY <2>2, <2>3, <2>5, JsonRpcAssumption
<1>2. ~ComplaintThrows
  BY ElementOfSeq DEF ComplaintThrows, ErrorThrows, Unharmed, WellBehaved
<1>3. ~FutureThrows
  BY DEF FutureThrows, Unharmed, Typed, TypeOK
<1>4. ASSUME ReadBody PROVE messageData' \in Seq(T)
  <2>1. PICK s, k : InBody(F, s, k)
    BY <1>4 DEF ReadBody, Place
  <2>2. /\ s \in F /\ k \in Nat /\ k <= Len(s.input) /\ BeginsFrame(F, s, k)
        /\ Len(s.input) \in Nat
    BY <2>1, LenProperties DEF InBody, Ahead, Client
  <2>3. Len(s.input) >= k + LengthOf[s.input[1]]
    BY <2>2 DEF WellBehaved
  <2> QED BY <1>4, <2>1, <2>3, BodyRead
<1>5. reader' = "parse" => ReadBody
  <2>1. ReadHeader => reader' \in {"header", "body"}
    BY HeaderRead DEF Typed
  <2> QED
    BY <1>1, <1>2, <1>3, <2>1
    DEF LoopStep, EndOfInput, ReadBody, NotJson, Json, DrainFutures, EvaluateData,
        Complain, Complained, NextHeader, Wait
<1>6. sent' = sent /\ alive' = alive
  BY <1>1, <1>2, <1>3
  DEF LoopStep, ReadHeader, EndOfInput, ReadBody, NotJson, Json, DrainFutures,
      EvaluateData, Complained, Wait
<1>7. \A m \in Bodies : handler'[m] # "failed"
  BY LoopSendsOnly DEF Unharmed, Typed, TypeOK
<1> QED BY <1>4, <1>5, <1>6, <1>7 DEF Unharmed

LEMMA HandlerUnharmed ==
  ASSUME NEW F, NEW T, Client(F, T), Typed, Outgoing, Place(F, T), Unharmed(T),
         NEW m \in Bodies, HandlerStep(m)
  PROVE  Unharmed(T)'
<1>1. handler[m] # "none" => m \in Harmless
  BY HandledIsHarmless DEF Outgoing, ThreadsStarted, Unharmed
<1>2. ~Exit(m) /\ ~ErrorTextThrows(m)
  BY <1>1 DEF Exit, ErrorTextThrows, Harmless
<1> QED
  BY <1>2
  DEF HandlerStep, HandleRequest, DumpThrows, HandleNotification, HandlerEnds,
      Unharmed, Typed, TypeOK

(***************************************************************************)
(* A client that keeps to the protocol, does not ask to exit, sends UTF-8, *)
(* does not end its input within a body, and asks for nothing that fails   *)
(* with an error that cannot be sent: the process lives until main         *)
(* returns, and then every request the client sent has been answered. None *)
(* is lost in the input, and none in the threads.                          *)
(***************************************************************************)
THEOREM SessionAnswered ==
  ASSUME NEW F, NEW T, Framed(F), F \subseteq [sent : Seq(Bodies), input : Seq(T)],
         Sessions \subseteq F, WellBehaved(F, T)
  PROVE  Spec => [](/\ alive
                    /\ reader = "done" =>
                         \A i \in DOMAIN sent :
                           Kind[sent[i]] = "request" => Responses(sent[i]) # {})
<1>1. Init => Unharmed(T)
  BY DEF Init, Unharmed, WellBehaved
<1>2. Typed /\ Outgoing /\ Place(F, T) /\ Unharmed(T) /\ [Next]_vars => Unharmed(T)'
  <2> SUFFICES ASSUME Typed, Outgoing, Place(F, T), Unharmed(T), [Next]_vars
               PROVE  Unharmed(T)'
    OBVIOUS
  <2>1. CASE UNCHANGED vars
    BY <2>1 DEF vars, Unharmed
  <2>2. CASE LoopStep
    BY <2>2, LoopUnharmed DEF Client
  <2>3. ASSUME NEW m \in Bodies, HandlerStep(m) PROVE Unharmed(T)'
    BY <2>3, HandlerUnharmed DEF Client
  <2>4. ASSUME NEW t \in Senders, Send(t) PROVE Unharmed(T)'
    BY <2>4 DEF Send, WriteHeader, WritePayload, Unharmed
  <2> QED BY <2>1, <2>2, <2>3, <2>4 DEF Next
<1>3. Unharmed(T) /\ HandledAsSent /\ AnsweredWhenDone =>
        /\ alive
        /\ reader = "done" =>
             \A i \in DOMAIN sent : Kind[sent[i]] = "request" => Responses(sent[i]) # {}
  BY DEF HandledAsSent, AnsweredWhenDone, Unharmed
<1>4. Spec => []HandledAsSent
  BY FramingKept
<1>5. Spec => [](Typed /\ Place(F, T))
  BY PlaceInvariant DEF Client
<1> QED BY <1>1, <1>2, <1>3, <1>4, <1>5, ServedInvariant, AllAnswered, PTL DEF Spec

-----------------------------------------------------------------------------
(***************************************************************************)
(* No step can be taken for ever.  What the loop has left to do gets less  *)
(* with each of its steps, and what a thread has left to do with each step *)
(* of the thread, which does not touch what the others have left.          *)
(***************************************************************************)
LoopWork ==
  10 * Len(input) +
    CASE reader = "body" -> 8
      [] reader = "parse" -> 7
      [] reader = "drain" -> 6
      [] reader = "evaluate" -> 5
      [] reader = "complain" -> 4
      [] reader = "header" -> 3
      [] reader = "wait" -> 2
      [] reader = "done" -> 1

HandlerWork(t) ==
  IF t \notin Bodies THEN 0
  ELSE CASE handler[t] = "running" -> 8
         [] handler[t] = "replying" -> 1
         [] handler[t] \in {"none", "ended", "failed"} -> 0

\* A result may still become an error, and a message is sent in two pieces.
SendWork(t) ==
  IF outbox[t] = None THEN 0
  ELSE (IF outbox[t].what = "result" THEN 3 ELSE 2) + (IF owner = t THEN 0 ELSE 1)

ThreadWork(t) == HandlerWork(t) + SendWork(t)

\* The steps that do not end the process.
ReaderStep == LoopStep /\ alive'

ThreadStep(t) == ((t \in Bodies /\ HandlerStep(t)) \/ Send(t)) /\ alive'

CountsDown ==
  /\ ReaderStep => LoopWork \in Nat /\ LoopWork' \in Nat /\ LoopWork' < LoopWork
  /\ \A t \in Senders :
       ThreadStep(t) =>
         /\ LoopWork' = LoopWork
         /\ ThreadWork(t) \in Nat /\ ThreadWork(t)' \in Nat
         /\ ThreadWork(t)' < ThreadWork(t)
         /\ \A u \in Senders \ {t} : ThreadWork(u)' = ThreadWork(u)

LEMMA ReadKeepsType ==
  ASSUME NEW T, TypeOK, input \in Seq(T), LoopStep
  PROVE  /\ input' \in Seq(T)
         /\ ReadHeader => Len(input) # 0 /\ Len(input') = Len(input) - 1
         /\ Len(input') <= Len(input)
<1>0. Len(input) \in Nat
  BY LenProperties
<1>1. CASE ReadHeader
  <2>1. input # <<>> /\ input' = Tail(input)
    BY <1>1 DEF ReadHeader
  <2>2. Tail(input) \in Seq(T) /\ Len(Tail(input)) = Len(input) - 1 /\ Len(input) # 0
    BY <1>0, <2>1, HeadTailProperties, EmptySeq
  <2> QED BY <1>1, <2>1, <2>2
<1>2. CASE ReadBody
  <2>1. reader = "body" /\ contentLength \in Nat
    BY <1>2 DEF ReadBody, TypeOK
  <2> DEFINE j == IF contentLength < Len(input) THEN contentLength ELSE Len(input)
             given == SubSeq(input, 1, j)
  <2>2. input' = SubSeq(input, Len(given) + 1, Len(input))
    BY <1>2 DEF ReadBody
  <2>3. j \in Nat /\ j <= Len(input) /\ \A i \in 1 .. Len(input) : input[i] \in T
    BY <1>0, <2>1, ElementOfSeq
  <2>4. Len(given) \in Nat
    BY <2>3, SubSeqProperties
  <2>5. /\ input' \in Seq(T)
        /\ Len(input') = IF Len(given) + 1 <= Len(input)
                         THEN Len(input) - (Len(given) + 1) + 1 ELSE 0
    BY <1>0, <2>2, <2>3, <2>4, SubSeqProperties
  <2>6. ~ReadHeader
    BY <2>1 DEF ReadHeader
  <2>7. Len(input') <= Len(input)
    <3> HIDE DEF given
    <3> QED BY <1>0, <2>4, <2>5
  <2> QED BY <2>5, <2>6, <2>7
<1>3. CASE ~ReadHeader /\ ~ReadBody
  <2>1. input' = input
    BY <1>3, Thrown
    DEF LoopStep, ProcessEnds, EndOfInput, NotJson, Json, DrainFutures, EvaluateData, Complained, Wait
  <2> QED BY <1>0, <1>3, <2>1
<1> QED BY <1>1, <1>2, <1>3

LEMMA LoopCountsDown ==
  ASSUME NEW T, TypeOK, input \in Seq(T), ReaderStep
  PROVE  LoopWork \in Nat /\ LoopWork' \in Nat /\ LoopWork' < LoopWork
<1>0. input' \in Seq(T) /\ Len(input) \in Nat /\ Len(input') \in Nat
  BY ReadKeepsType, LenProperties DEF ReaderStep
<1>1. CASE ReadHeader
  <2>1. Len(input') = Len(input) - 1
    BY <1>1, ReadKeepsType DEF ReaderStep
  <2>2. reader = "header" /\ reader' \in {"header", "body"}
    BY <1>1, HeaderRead DEF ReadHeader
  <2> QED BY <1>0, <2>1, <2>2 DEF LoopWork
<1>2. CASE ~ReadHeader
  <2>1. Len(input') <= Len(input)
    BY <1>2, ReadKeepsType DEF ReaderStep
  <2>2. \/ reader = "header" /\ reader' = "wait"
        \/ reader = "body" /\ reader' = "parse"
        \/ reader = "parse" /\ reader' \in {"complain", "drain", "evaluate"}
        \/ reader = "drain" /\ reader' = "evaluate"
        \/ reader = "evaluate" /\ reader' \in {"complain", "header"}
        \/ reader = "complain" /\ reader' = "header"
        \/ reader = "wait" /\ reader' = "done"
    BY <1>2, Thrown
    DEF ReaderStep, LoopStep, ProcessEnds, EndOfInput, ReadBody, NotJson, Json, DrainFutures,
        EvaluateData, Complained, Wait, Complain, NextHeader
  <2> QED BY <1>0, <2>1, <2>2 DEF LoopWork
<1> QED BY <1>1, <1>2

LEMMA ThreadCountsDown ==
  ASSUME Typed, NEW t \in Senders, ThreadStep(t)
  PROVE  /\ LoopWork' = LoopWork
         /\ ThreadWork(t) \in Nat /\ ThreadWork(t)' \in Nat
         /\ ThreadWork(t)' < ThreadWork(t)
         /\ \A u \in Senders \ {t} : ThreadWork(u)' = ThreadWork(u)
<1>0. /\ outbox \in [Senders -> Frames \cup {None}]
      /\ handler \in [Bodies -> HandlerStates]
      /\ t # None
  BY LoopIsNoBody DEF Typed, TypeOK
<1>1. CASE Send(t)
  <2>1. input' = input /\ reader' = reader /\ handler' = handler
    BY <1>1 DEF Send, WriteHeader, WritePayload
  <2>2. HandlerWork(t) \in 0 .. 8 /\ \A u \in Senders : HandlerWork(u)' = HandlerWork(u)
    BY <1>0, <2>1 DEF HandlerWork
  <2>3. /\ SendWork(t) \in Nat /\ SendWork(t)' \in Nat /\ SendWork(t)' < SendWork(t)
        /\ \A u \in Senders \ {t} : SendWork(u)' = SendWork(u)
    BY <1>0, <1>1, LoopIsNoBody DEF Send, WriteHeader, WritePayload, SendWork, Typed, Busy
  <2> QED BY <2>1, <2>2, <2>3 DEF ThreadWork, LoopWork
<1>2. CASE t \in Bodies /\ HandlerStep(t) /\ alive'
  <2>1. input' = input /\ reader' = reader /\ owner' = owner
    BY <1>2 DEF HandlerStep, HandleRequest, ErrorTextThrows, DumpThrows,
      HandleNotification, Exit, ProcessEnds, HandlerEnds
  <2>2. /\ \A u \in Senders \ {t} : outbox'[u] = outbox[u]
        /\ \A u \in Bodies \ {t} : handler'[u] = handler[u]
        /\ \/ /\ handler[t] = "running" /\ handler'[t] = "replying"
              /\ SendWork(t) \in 0 .. 4 /\ SendWork(t)' \in 0 .. 4
           \/ /\ handler'[t] = handler[t]
              /\ SendWork(t) \in 0 .. 4 /\ SendWork(t)' \in 0 .. 4
              /\ SendWork(t)' < SendWork(t)
           \/ /\ handler[t] = "replying" /\ handler'[t] = "ended"
              /\ SendWork(t) = 0 /\ SendWork(t)' = 0
           \/ /\ handler[t] = "running" /\ handler'[t] = "failed"
              /\ SendWork(t) \in 0 .. 4 /\ SendWork(t)' \in 0 .. 4
    <3>1. CASE HandleRequest(t)
      BY <1>0, <1>2, <2>1, <3>1, NoFrame, LoopIsNoBody
      DEF HandleRequest, SendWork, Senders, Frames
    <3>2. CASE HandleNotification(t)
      BY <1>0, <1>2, <2>1, <3>2, NoFrame, LoopIsNoBody
      DEF HandleNotification, SendWork, Senders, Frames
    <3>3. CASE DumpThrows(t)
      BY <1>0, <1>2, <2>1, <3>3, NoFrame, LoopIsNoBody
      DEF DumpThrows, SendWork, Senders, Frames
    <3>4. CASE HandlerEnds(t)
      BY <1>0, <1>2, <2>1, <3>4, NoFrame, LoopIsNoBody
      DEF HandlerEnds, SendWork, Senders, Frames
    <3>5. CASE ErrorTextThrows(t)
      BY <1>0, <1>2, <2>1, <3>5, NoFrame, LoopIsNoBody
      DEF ErrorTextThrows, SendWork, Senders, Frames
    <3>6. ~Exit(t)
      BY <1>2 DEF Exit, ProcessEnds
    <3> QED BY <1>2, <3>1, <3>2, <3>3, <3>4, <3>5, <3>6 DEF HandlerStep
  <2> QED BY <1>0, <1>2, <2>1, <2>2 DEF ThreadWork, HandlerWork, SendWork, LoopWork
<1> QED BY <1>1, <1>2 DEF ThreadStep

(***************************************************************************)
(* For any input the server can only take so many steps: each message that *)
(* was read starts one thread, each thread has a bounded number of steps   *)
(* left, and a step that ends the process is the last.  With fairness,     *)
(* which keeps it going, that is Terminates.                               *)
(***************************************************************************)
THEOREM StepsCountDown ==
  ASSUME NEW T, \A s \in Sessions : s.input \in Seq(T)
  PROVE  Spec => [][CountsDown]_vars
<1>1. Init => input \in Seq(T)
  BY DEF Init
<1>2. Typed /\ input \in Seq(T) /\ [Next]_vars => (input \in Seq(T))'
  <2> SUFFICES ASSUME Typed, input \in Seq(T), [Next]_vars PROVE input' \in Seq(T)
    OBVIOUS
  <2>1. CASE LoopStep
    BY <2>1, ReadKeepsType DEF Typed
  <2>2. CASE input' = input
    BY <2>2
  <2> QED
    BY <2>1, <2>2
    DEF Next, vars, HandlerStep, HandleRequest, ErrorTextThrows, DumpThrows,
      HandleNotification, Exit, ProcessEnds, HandlerEnds, Send, WriteHeader, WritePayload
<1>3. Typed /\ input \in Seq(T) => CountsDown
  BY LoopCountsDown, ThreadCountsDown DEF Typed, CountsDown
<1>4. Typed /\ input \in Seq(T) /\ [Next]_vars => [CountsDown]_vars
  BY <1>3
<1> QED BY <1>1, <1>2, <1>4, TypedInvariant, PTL DEF Spec
================================================================================
