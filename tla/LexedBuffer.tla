------------------------------ MODULE LexedBuffer ------------------------------
(***************************************************************************)
(* A build file in the editor and what the lexer makes of it.  Every edit  *)
(* inserts a character or removes some; the server then lexes what is in   *)
(* the buffer (the first half of MesonTree::parseFile).                    *)
(***************************************************************************)
EXTENDS Lexer

CONSTANTS
  Characters,   \* what a text is made of
  MaxEdits      \* how many edits

VARIABLES
  buffer,    \* the text
  edits,     \* how often it was edited
  lexed      \* the lexer of the text, and of each of its parts up to a newline

bufferVars == <<buffer, edits, lexed>>

Unlexed == <<>>

BufferInit ==
  /\ buffer \in Seq(Characters)
  /\ edits = 0
  /\ lexed = Unlexed

\* Type the character c before the i-th.
Insert(i, c) ==
  /\ buffer' = SubSeq(buffer, 1, i - 1) \o <<c>> \o SubSeq(buffer, i, Len(buffer))
  /\ edits' = edits + 1
  /\ lexed' = Unlexed

\* Remove the characters from the i-th to the j-th.
Erase(i, j) ==
  /\ buffer' = SubSeq(buffer, 1, i - 1) \o SubSeq(buffer, j + 1, Len(buffer))
  /\ edits' = edits + 1
  /\ lexed' = Unlexed

Edit ==
  /\ lexed # Unlexed /\ edits < MaxEdits
  /\ \/ \E i \in 1 .. Len(buffer) + 1, c \in Characters : Insert(i, c)
     \/ \E i, j \in DOMAIN buffer : i <= j /\ Erase(i, j)

\* The text is lexed; for comparison, so is each of its parts that ends with a
\* newline, as if the file ended there.
LexFile ==
  /\ lexed = Unlexed
  /\ lexed' = [i \in {j \in DOMAIN buffer : buffer[j] = "\n"} \cup {Len(buffer)} |->
                 Lex(SubSeq(buffer, 1, i))]
  /\ UNCHANGED <<buffer, edits>>

BufferNext == LexFile \/ Edit

BufferSpec == BufferInit /\ [][BufferNext]_bufferVars
-----------------------------------------------------------------------------
\* A lexer that reports success ends with TOKEOF: the assertion of
\* Lexer::tokenize (lexer.cpp:652-653).
SuccessEndsInEof ==
  \A i \in DOMAIN lexed :
    LET tokens == lexed[i].tokens
    IN  lexed[i].success => tokens # <<>> /\ tokens[Len(tokens)] = "TOKEOF"

\* What is typed below a line does not change the tokens above it: when the
\* lexer reads the text up to an end of line without a failure, its tokens but
\* for TOKEOF are the first of the whole file's, whatever follows.
EarlierTokensSurvive ==
  \A i \in DOMAIN lexed \ {0} :
    LET tokens == lexed[i].tokens
        above == Len(tokens) - 1
    IN  lexed[i].success /\ buffer[i] = "\n"
          => SubSeq(tokens, 1, above) = SubSeq(lexed[Len(buffer)].tokens, 1, above)
================================================================================
