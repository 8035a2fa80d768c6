----------------------------- MODULE JsonRpcServer -----------------------------
(***************************************************************************)
(* The JSON-RPC server (libjsonrpc/jsonrpc.cpp) and the dispatch of a      *)
(* message to its handler (libls/ls.cpp).  One thread reads the input and  *)
(* starts a thread for every message; all of them write to the output.     *)
(*                                                                         *)
(* The input is a sequence of tokens: CR, LF, header lines and the parts   *)
(* of message bodies.  A token stands for a run of characters, lengths     *)
(* count tokens.                                                           *)
(*                                                                         *)
(* nlohmann's dump throws for a text that is not UTF-8.  Nothing catches   *)
(* that when the text is the one of an error: the process is terminated,   *)
(* at once by the loop's own error, and by the error of a request when     *)
(* somebody gets its future.                                               *)
(***************************************************************************)
EXTENDS Naturals, Sequences, FiniteSets

CONSTANTS
  Bodies,      \* the message bodies that are valid JSON
  Chars,       \* Chars[m] is the body m as a sequence of tokens
  Kind,        \* what a body is: "request", "notification", "exit", "invalid"
  Sessions,    \* the inputs, each with the bodies the client meant to send
  Loop,        \* the thread that reads the input
  Drain,       \* 100: how many messages before all futures are waited for
  IllFormed,   \* the tokens that are not UTF-8
  Junk,        \* what reading beyond the end of the input yields, 0xFF
  CR, LF,
  LengthOf,    \* the n of each header line "Content-Length: n"
  BadLengths,  \* the lines "Content-Length: x" of which stoi makes nothing
  MayQuote,    \* the requests whose errors may quote what is not UTF-8
  None

ASSUME JsonRpcAssumption ==
  /\ \A m, n \in Bodies : Chars[m] = Chars[n] => m = n
  /\ \A m \in Bodies : Kind[m] \in {"request", "notification", "exit", "invalid"}
  /\ Loop \notin Bodies /\ None \notin Bodies /\ None # Loop
  /\ Drain \in Nat \ {0}
  /\ CR # LF
  /\ None \notin [to : Bodies \cup {Loop}, what : {"result", "error", "notification"}]
  /\ Junk \in IllFormed
  /\ \A m \in Bodies : \A i \in DOMAIN Chars[m] : Chars[m][i] \notin IllFormed
  /\ \A l \in DOMAIN LengthOf : LengthOf[l] \in Nat
  /\ BadLengths \cap DOMAIN LengthOf = {}
  /\ MayQuote \subseteq {m \in Bodies : Kind[m] = "request"}

VARIABLES
  sent,           \* the bodies of the session, a sequence without repetition
  input,          \* what is left to read
  reader,         \* what the loop is doing
  state,          \* its state within a header
  header,         \* the characters of the header so far
  contentLength,
  messageData,    \* the body just read
  numMessages,
  futures,        \* the messages whose threads were not waited for
  handled,        \* the bodies that were parsed, in order
  handler,        \* the state of the thread of each message
  outbox,         \* what a thread is about to send
  owner,          \* who has locked output_mutex
  output,         \* what was written, in pieces
  alive           \* has the process neither exited nor been terminated?

loopVars == <<input, reader, state, header, contentLength, messageData,
              numMessages, futures, handled>>
sendVars == <<outbox, owner, output>>
vars == <<sent, loopVars, handler, sendVars, alive>>

Senders == Bodies \cup {Loop}

Init ==
  /\ \E s \in Sessions : sent = s.sent /\ input = s.input
  /\ reader = "header"
  /\ state = "INITIAL"
  /\ header = <<>>
  /\ contentLength = 0
  /\ messageData = <<>>
  /\ numMessages = 0
  /\ futures = {}
  /\ handled = <<>>
  /\ handler = [m \in Bodies |-> "none"]
  /\ outbox = [t \in Senders |-> None]
  /\ owner = None
  /\ output = <<>>
  /\ alive = TRUE

-----------------------------------------------------------------------------
(***************************************************************************)
(* sendToClient, for any thread: one message at a time, in two pieces.     *)
(***************************************************************************)
\* Seeded fault: no lock.
LockNothing(t) ==
  /\ outbox[t] # None
  /\ owner # t
  /\ owner' = t
  /\ output' = Append(output, [part |-> "header", of |-> outbox[t]])
  /\ UNCHANGED <<sent, loopVars, handler, outbox, alive>>

WriteHeader(t) ==
  /\ outbox[t] # None
  /\ owner = None
  /\ owner' = t
  /\ output' = Append(output, [part |-> "header", of |-> outbox[t]])
  /\ UNCHANGED <<sent, loopVars, handler, outbox, alive>>

\* Seeded fault: the lock is not released.
KeepLock(t) ==
  /\ owner = t
  /\ outbox[t] # None
  /\ output' = Append(output, [part |-> "payload", of |-> outbox[t]])
  /\ outbox' = [outbox EXCEPT ![t] = None]
  /\ UNCHANGED <<sent, loopVars, handler, owner, alive>>

WritePayload(t) ==
  /\ owner = t
  /\ owner' = None
  /\ output' = Append(output, [part |-> "payload", of |-> outbox[t]])
  /\ outbox' = [outbox EXCEPT ![t] = None]
  /\ UNCHANGED <<sent, loopVars, handler, alive>>

-----------------------------------------------------------------------------
(***************************************************************************)
(* The loop reads a header character by character, which ends with an      *)
(* empty line, and then a body.  What it read of the header is never       *)
(* cleared before the end, so only its first line can give the length.     *)
(***************************************************************************)
\* Nothing catches what stoi throws.
BadLength ==
  /\ Head(input) = LF /\ state # "SECOND_R"
  /\ header # <<>> /\ Head(header) \in BadLengths

\* Seeded fault: any LF after a CR ends the header.
ReadHeaderLine ==
  LET chr == Head(input) IN
  /\ reader = "header"
  /\ input # <<>>
  /\ ~BadLength
  /\ input' = Tail(input)
  /\ CASE chr = CR -> state' = "SECOND_R" /\ UNCHANGED <<reader, header>>
       [] chr = LF -> reader' = "body" /\ UNCHANGED <<state, header>>
       [] OTHER -> header' = Append(header, chr) /\ UNCHANGED <<reader, state>>
  /\ contentLength' = IF header # <<>> /\ Head(header) \in DOMAIN LengthOf
                      THEN LengthOf[Head(header)] ELSE contentLength
  /\ UNCHANGED <<sent, messageData, numMessages, futures, handled, handler,
                 sendVars, alive>>

ReadHeader ==
  LET chr == Head(input) IN
  /\ reader = "header"
  /\ input # <<>>
  /\ ~BadLength
  /\ input' = Tail(input)
  /\ CASE chr = CR ->
            /\ state' = IF state = "FIRST_N" THEN "SECOND_R" ELSE "FIRST_R"
            /\ UNCHANGED <<reader, header, contentLength>>
       [] chr = LF /\ state = "SECOND_R" ->
            /\ reader' = "body"
            /\ UNCHANGED <<state, header, contentLength>>
       [] chr = LF /\ state # "SECOND_R" ->
            /\ state' = "FIRST_N"
            /\ contentLength' =
                 IF header # <<>> /\ Head(header) \in DOMAIN LengthOf
                 THEN LengthOf[Head(header)] ELSE contentLength
            /\ UNCHANGED <<reader, header>>
       [] OTHER ->
            /\ header' = Append(header, chr)
            /\ state' = "READING"
            /\ UNCHANGED <<reader, contentLength>>
  /\ UNCHANGED <<sent, messageData, numMessages, futures, handled, handler,
                 sendVars, alive>>

\* The process ends where it is, with all its threads.
ProcessEnds ==
  /\ alive' = FALSE
  /\ UNCHANGED <<sent, loopVars, handler, sendVars>>

LengthThrows ==
  /\ reader = "header"
  /\ input # <<>>
  /\ BadLength
  /\ ProcessEnds

EndOfInput ==
  /\ reader = "header"
  /\ input = <<>>
  /\ reader' = "wait"
  /\ UNCHANGED <<sent, input, state, header, contentLength, messageData,
                 numMessages, futures, handled, handler, sendVars, alive>>

\* The body, whatever its characters; past the end of the input get is EOF.
ReadBody ==
  LET n == contentLength
      given == SubSeq(input, 1, IF n < Len(input) THEN n ELSE Len(input))
  IN /\ reader = "body"
     /\ messageData' = given \o [i \in 1 .. n - Len(given) |-> Junk]
     /\ input' = SubSeq(input, Len(given) + 1, Len(input))
     /\ reader' = "parse"
     /\ UNCHANGED <<sent, state, header, contentLength, numMessages, futures,
                    handled, handler, sendVars, alive>>

-----------------------------------------------------------------------------
(***************************************************************************)
(* The loop handles a body.                                                *)
(***************************************************************************)
Ended(m) == handler[m] = "ended"

NextHeader ==
  /\ reader' = "header"
  /\ state' = "INITIAL"
  /\ header' = <<>>
  /\ contentLength' = 0
  /\ messageData' = <<>>

\* An error goes to the client with a null id, before anything else is read.
Complain ==
  /\ outbox' = [outbox EXCEPT ![Loop] = [to |-> Loop, what |-> "error"]]
  /\ reader' = "complain"
  /\ UNCHANGED <<state, header, contentLength, messageData>>

Complained ==
  /\ reader = "complain"
  /\ outbox[Loop] = None
  /\ NextHeader
  /\ UNCHANGED <<sent, input, numMessages, futures, handled, handler, sendVars,
                 alive>>

IsJson(data) == \E m \in Bodies : Chars[m] = data

\* The parser gets as far as the beginning of some JSON, and its error quotes
\* the piece it stopped at: it throws, if that is not UTF-8.
ErrorThrows(data) ==
  \E i \in DOMAIN data :
    /\ data[i] \in IllFormed
    /\ \E m \in Bodies :
         /\ i - 1 <= Len(Chars[m])
         /\ SubSeq(data, 1, i - 1) = SubSeq(Chars[m], 1, i - 1)

NotJson ==
  /\ reader = "parse"
  /\ ~IsJson(messageData)
  /\ ~ErrorThrows(messageData)
  /\ Complain
  /\ UNCHANGED <<sent, input, numMessages, futures, handled, handler, owner,
                 output, alive>>

\* returnError throws, within the catch of parse_error and out of loop.
ComplaintThrows ==
  /\ reader = "parse"
  /\ ~IsJson(messageData)
  /\ ErrorThrows(messageData)
  /\ owner = None
  /\ ProcessEnds

\* Every Drain-th message waits for all the threads started before it.
Json ==
  /\ reader = "parse"
  /\ IsJson(messageData)
  /\ numMessages' = numMessages + 1
  /\ reader' = IF numMessages' = Drain THEN "drain" ELSE "evaluate"
  /\ UNCHANGED <<sent, input, state, header, contentLength, messageData,
                 futures, handled, handler, sendVars, alive>>

\* Seeded faults: the count starts anew only at the end; the futures are not
\* forgotten; nobody waits for them.
DrainKeepsCount ==
  /\ reader = "drain"
  /\ \A m \in futures : Ended(m)
  /\ futures' = {}
  /\ reader' = "evaluate"
  /\ UNCHANGED <<sent, input, state, header, contentLength, messageData,
                 numMessages, handled, handler, sendVars, alive>>

DrainKeepsFutures ==
  /\ reader = "drain"
  /\ \A m \in futures : Ended(m)
  /\ numMessages' = 0
  /\ reader' = "evaluate"
  /\ UNCHANGED <<sent, input, state, header, contentLength, messageData,
                 futures, handled, handler, sendVars, alive>>

DrainWithoutWaiting ==
  /\ reader = "drain"
  /\ futures' = {}
  /\ numMessages' = 0
  /\ reader' = "evaluate"
  /\ UNCHANGED <<sent, input, state, header, contentLength, messageData,
                 handled, handler, sendVars, alive>>

DrainFutures ==
  /\ reader = "drain"
  /\ \A m \in futures : Ended(m)
  /\ futures' = {}
  /\ numMessages' = 0
  /\ reader' = "evaluate"
  /\ UNCHANGED <<sent, input, state, header, contentLength, messageData,
                 handled, handler, sendVars, alive>>

\* The futures are waited for in the order of their messages; get throws the
\* exception the thread has ended with, out of loop or wait and out of main.
FutureThrows ==
  /\ reader \in {"drain", "wait"}
  /\ \E i \in DOMAIN handled :
       /\ handled[i] \in futures /\ handler[handled[i]] = "failed"
       /\ \A j \in 1 .. i - 1 : handled[j] \in futures => Ended(handled[j])
  /\ ProcessEnds

EvaluateData ==
  \E m \in Bodies :
    /\ reader = "evaluate"
    /\ Chars[m] = messageData
    /\ handled' = Append(handled, m)
    /\ IF Kind[m] = "invalid"
       THEN Complain /\ UNCHANGED <<futures, handler>>
       ELSE /\ handler' = [handler EXCEPT ![m] = "running"]
            /\ futures' = futures \cup {m}
            /\ NextHeader
            /\ UNCHANGED outbox
    /\ UNCHANGED <<sent, input, numMessages, owner, output, alive>>

\* wait, after the end of the input; then main returns.
Wait ==
  /\ reader = "wait"
  /\ \A m \in futures : Ended(m)
  /\ reader' = "done"
  /\ UNCHANGED <<sent, input, state, header, contentLength, messageData,
                 numMessages, futures, handled, handler, sendVars, alive>>

LoopStep ==
  \/ ReadHeader \/ LengthThrows \/ EndOfInput \/ ReadBody
  \/ NotJson \/ ComplaintThrows \/ Complained
  \/ Json \/ DrainFutures \/ FutureThrows \/ EvaluateData \/ Wait

-----------------------------------------------------------------------------
(***************************************************************************)
(* The thread of a message.  Its future keeps what it throws.              *)
(***************************************************************************)
\* Seeded fault: the reply to a request is sent, and then an error.
ReplyTwice(m) ==
  /\ handler[m] = "replying"
  /\ outbox[m] = None
  /\ Kind[m] = "request"
  /\ outbox' = [outbox EXCEPT ![m] = [to |-> m, what |-> "error"]]
  /\ UNCHANGED <<sent, loopVars, handler, owner, output, alive>>

\* handleRequest: the result, or an error if the method throws or is unknown.
HandleRequest(m) ==
  /\ handler[m] = "running"
  /\ Kind[m] = "request"
  /\ handler' = [handler EXCEPT ![m] = "replying"]
  /\ \E what \in {"result", "error"} :
       outbox' = [outbox EXCEPT ![m] = [to |-> m, what |-> what]]
  /\ UNCHANGED <<sent, loopVars, owner, output, alive>>

\* The error that handleRequest sends for an exception quotes what is not
\* UTF-8, a path for instance: returnError throws, and nothing is sent.
ErrorTextThrows(m) ==
  /\ handler[m] = "running"
  /\ m \in MayQuote
  /\ owner = None
  /\ handler' = [handler EXCEPT ![m] = "failed"]
  /\ UNCHANGED <<sent, loopVars, sendVars, alive>>

\* The result cannot be dumped, because it quotes text that is not UTF-8:
\* reply throws before it writes anything, and the handler sends an error,
\* which names the place of the byte and does not quote it.
DumpThrows(m) ==
  /\ handler[m] = "replying"
  /\ owner = None
  /\ outbox[m] = [to |-> m, what |-> "result"]
  /\ outbox' = [outbox EXCEPT ![m].what = "error"]
  /\ UNCHANGED <<sent, loopVars, handler, owner, output, alive>>

\* handleNotification swallows all exceptions; some send notifications.
HandleNotification(m) ==
  /\ handler[m] = "running"
  /\ Kind[m] = "notification"
  /\ handler' = [handler EXCEPT ![m] = "replying"]
  /\ \/ outbox' = [outbox EXCEPT ![m] = [to |-> Loop, what |-> "notification"]]
     \/ UNCHANGED outbox
  /\ UNCHANGED <<sent, loopVars, owner, output, alive>>

\* onExit calls _exit.
Exit(m) ==
  /\ handler[m] = "running"
  /\ Kind[m] = "exit"
  /\ ProcessEnds

HandlerEnds(m) ==
  /\ handler[m] = "replying"
  /\ outbox[m] = None
  /\ handler' = [handler EXCEPT ![m] = "ended"]
  /\ UNCHANGED <<sent, loopVars, sendVars, alive>>

HandlerStep(m) ==
  \/ HandleRequest(m) \/ ErrorTextThrows(m) \/ DumpThrows(m)
  \/ HandleNotification(m)
  \/ Exit(m) \/ HandlerEnds(m)

Send(t) == WriteHeader(t) \/ WritePayload(t)

Stopped == reader = "done" \/ ~alive

Next ==
  \/ /\ ~Stopped
     /\ \/ LoopStep
        \/ \E m \in Bodies : HandlerStep(m)
        \/ \E t \in Senders : Send(t)
  \/ Stopped /\ UNCHANGED vars

Spec == Init /\ [][Next]_vars

\* Every thread runs.  The messages are finite in number, so that whoever
\* waits for output_mutex gets it in the end without strong fairness.
Fairness ==
  /\ WF_vars(~Stopped /\ LoopStep)
  /\ \A m \in Bodies : WF_vars(~Stopped /\ HandlerStep(m))
  /\ \A t \in Senders : WF_vars(~Stopped /\ Send(t))

FairSpec == Spec /\ Fairness

-----------------------------------------------------------------------------
Frames == [to : Senders, what : {"result", "error", "notification"}]

\* The type of every variable.
TypeOK ==
  /\ reader \in {"header", "body", "parse", "drain", "evaluate", "complain",
                 "wait", "done"}
  /\ state \in {"INITIAL", "FIRST_R", "FIRST_N", "SECOND_R", "READING"}
  /\ contentLength \in Nat
  /\ numMessages \in 0 .. Drain
  /\ futures \subseteq Bodies
  /\ handled \in Seq(Bodies)
  /\ handler \in [Bodies -> {"none", "running", "replying", "ended", "failed"}]
  /\ outbox \in [Senders -> Frames \cup {None}]
  /\ owner \in Senders \cup {None}
  /\ output \in Seq([part : {"header", "payload"}, of : Frames])
  /\ alive \in BOOLEAN

(***************************************************************************)
(* The messages of all threads reach the client whole and not interleaved: *)
(* a header is followed by its payload, unless the process has exited.     *)
(***************************************************************************)
OutputWellFormed ==
  \A i \in 1 .. Len(output) :
    IF output[i].part = "payload"
    THEN i > 1 /\ output[i - 1] = [output[i] EXCEPT !.part = "header"]
    ELSE i < Len(output) => output[i + 1] = [output[i] EXCEPT !.part = "payload"]

Responses(m) ==
  {i \in 1 .. Len(output) : output[i].part = "payload" /\ output[i].of.to = m}

\* A request that reached the server is answered at most once, also when its
\* handler throws or its result cannot be dumped; nothing else is answered.
AtMostOneResponse ==
  \A m \in Bodies :
    Responses(m) # {} =>
      /\ Kind[m] = "request"
      /\ \E i \in DOMAIN handled : handled[i] = m
      /\ Cardinality(Responses(m)) = 1

\* At most Drain threads were started and not waited for.
FuturesBounded == Cardinality(futures) <= Drain

(***************************************************************************)
(* When main returns, every thread has ended, those of the futures that    *)
(* were forgotten included, and every request that was read has its        *)
(* response.  If the error of one could not be sent, main does not return: *)
(* no future is forgotten before its exception ended the process.          *)
(***************************************************************************)
AnsweredWhenDone ==
  reader = "done" =>
    \A i \in DOMAIN handled :
      /\ handler[handled[i]] \in {"none", "ended"}
      /\ Kind[handled[i]] = "request" => Responses(handled[i]) # {}

(***************************************************************************)
(* A client that keeps to the protocol.  t begins with a header of k       *)
(* tokens, or ends within it: its first line gives the length of the body, *)
(* every CR is followed by LF, and the only empty line is the last one.    *)
(***************************************************************************)
BeginsHeader(t, k) ==
  /\ k >= 5
  /\ t[1] \in DOMAIN LengthOf \ {CR, LF}
  /\ Len(t) >= 2 => t[2] = CR
  /\ \A i \in 2 .. k :
       i <= Len(t) =>
         /\ t[i] = LF <=> t[i - 1] = CR
         /\ t[i] = CR /\ t[i - 1] = LF <=> i = k - 1

\* s begins with a frame whose header has k tokens.  It holds the next body
\* that was sent, or no body, or the input ends in it; what comes after it
\* is in F.
BeginsFrame(F, s, k) ==
  LET t == s.input
      n == LengthOf[t[1]]
      body == SubSeq(t, k + 1, k + n)
      rest == SubSeq(t, k + n + 1, Len(t))
  IN /\ BeginsHeader(t, k)
     /\ \/ Len(t) < k + n /\ s.sent = <<>>
        \/ /\ Len(t) >= k + n
           /\ s.sent # <<>> /\ body = Chars[Head(s.sent)]
           /\ [sent |-> Tail(s.sent), input |-> rest] \in F
        \/ /\ Len(t) >= k + n
           /\ \A m \in Bodies : body # Chars[m]
           /\ [sent |-> s.sent, input |-> rest] \in F

\* The sessions of F consist of frames.  The input may end anywhere.
Framed(F) ==
  /\ [sent |-> <<>>, input |-> <<>>] \in F
  /\ \A s \in F : IF s.input = <<>> THEN s.sent = <<>>
                 ELSE \E k \in 5 .. Len(s.input) + 4 : BeginsFrame(F, s, k)

\* No body comes twice.
Once(q) == \A i, j \in DOMAIN q : q[i] = q[j] => i = j

(***************************************************************************)
(* The loop never loses its place in the input: it handles the bodies that *)
(* were sent, in the order they were sent and whatever they contain.  When *)
(* it comes to the end it has handled them all: an error either does no    *)
(* harm to what follows or ends the process.                               *)
(***************************************************************************)
HandledAsSent ==
  /\ handled = SubSeq(sent, 1, Len(handled))
  /\ reader \in {"wait", "done"} => handled = sent

\* The server gets to the end of its input, or its process ends: nobody waits
\* for ever for the mutex or for a future.
Terminates == <>Stopped
================================================================================
