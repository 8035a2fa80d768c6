-------------------------------- MODULE Lexer --------------------------------
(***************************************************************************)
(* The lexer (libparsing/lexer.cpp), a pure function from the text of a    *)
(* build file to a sequence of token types.  The text is a sequence of     *)
(* characters; a run of characters that nothing tells apart is one of      *)
(* them: "id" is a word that is no keyword, "f" and "b" are the letters    *)
(* that mean something before a quote and after a zero, "$" is a character *)
(* that starts no token, "SP" a space, a tab or a carriage return, "NUL"   *)
(* the zero byte the lexer appends.                                        *)
(*                                                                         *)
(* A token is its type.  The parser treats a string in double quotes like  *)
(* any other but reports it: the type DOUBLE_QUOTED stands for STRING with *)
(* StringData::doubleQuote.  Locations and the values of numbers and       *)
(* strings are left out.                                                   *)
(***************************************************************************)
EXTENDS Naturals, Sequences

TokenTypes ==
  {"IF", "ENDIF", "ELIF", "ELSE", "FOREACH", "ENDFOREACH", "BREAK", "CONTINUE",
   "AND", "OR", "NOT", "IN", "TRUE", "FALSE", "IDENTIFIER", "NUMBER", "STRING",
   "DOUBLE_QUOTED", "DOT", "COMMA", "COLON", "QUESTION_MARK", "MINUS", "STAR",
   "SLASH", "MODULO", "PLUS", "PLUS_ASSIGN", "ASSIGN", "EQ", "NEQ", "GT", "GEQ",
   "LT", "LEQ", "LPAREN", "RPAREN", "LBRACK", "RBRACK", "LCURL", "RCURL", "EOL",
   "TOKEOF", "INVALID"}

Keywords ==
  [if |-> "IF", endif |-> "ENDIF", elif |-> "ELIF", else |-> "ELSE",
   foreach |-> "FOREACH", endforeach |-> "ENDFOREACH",
   break |-> "BREAK", continue |-> "CONTINUE",
   and |-> "AND", or |-> "OR", not |-> "NOT", in |-> "IN",
   true |-> "TRUE", false |-> "FALSE"]

Words == DOMAIN Keywords \cup {"id", "f", "b"}
Digits == {"0", "1"}
Quotes == {"'", "\""}

Punctuation ==
  [chr \in {".", ",", ":", "?", "-", "*", "/", "%"} |->
     CASE chr = "." -> "DOT"   [] chr = "," -> "COMMA"
       [] chr = ":" -> "COLON" [] chr = "?" -> "QUESTION_MARK"
       [] chr = "-" -> "MINUS" [] chr = "*" -> "STAR"
       [] chr = "/" -> "SLASH" [] chr = "%" -> "MODULO"]

\* The tokens that a "=" right after them changes.
BeforeEquals ==
  [chr \in {"+", "=", ">", "<", "!"} |->
     CASE chr = "+" -> <<"PLUS", "PLUS_ASSIGN">> [] chr = "=" -> <<"ASSIGN", "EQ">>
       [] chr = ">" -> <<"GT", "GEQ">>           [] chr = "<" -> <<"LT", "LEQ">>
       [] chr = "!" -> <<"INVALID", "NEQ">>]

Opening ==
  [chr \in {"(", "[", "{"} |->
     CASE chr = "(" -> "LPAREN" [] chr = "[" -> "LBRACK" [] chr = "{" -> "LCURL"]
Closing ==
  [chr \in {")", "]", "}"} |->
     CASE chr = ")" -> "RPAREN" [] chr = "]" -> "RBRACK" [] chr = "}" -> "RCURL"]
Opens ==
  [chr \in {")", "]", "}"} |->
     CASE chr = ")" -> "(" [] chr = "]" -> "[" [] chr = "}" -> "{"]

Char(text, i) == IF i <= Len(text) THEN text[i] ELSE "NUL"

\* The first position from i on whose character is not in S.
SkipOver(text, i, S) ==
  CHOOSE j \in i .. Len(text) : text[j] \notin S /\ \A k \in i .. j - 1 : text[k] \in S

\* The end of a comment: its newline, or a zero byte.
EndOfLine(text, i) ==
  CHOOSE j \in i .. Len(text) :
    text[j] \in {"\n", "NUL"} /\ \A k \in i .. j - 1 : text[k] \notin {"\n", "NUL"}

\* Where the next token begins, after spaces, comments and continued lines.
TokenStart(text, i) ==
  LET start[j \in 1 .. Len(text)] ==
        CASE text[j] = "SP" -> start[j + 1]
          [] text[j] = "#" -> start[EndOfLine(text, j)]
          [] text[j] = "\\" /\ Char(text, j + 1) = "\n" -> start[j + 2]
          [] OTHER -> j
  IN  start[i]

(***************************************************************************)
(* The state of a Lexer: the position of the next character, the tokens,   *)
(* how many errors were reported, how many brackets of each kind are open, *)
(* and what the last call of tokenizeOne returned.                         *)
(***************************************************************************)
Lexers == [at : Nat \ {0}, tokens : Seq(TokenTypes), errors : Nat,
           open : [DOMAIN Opening -> Nat],
           result : {"CONTINUE", "FAIL", "DONE"}, success : BOOLEAN]

NewLexer == [at |-> 1, tokens |-> <<>>, errors |-> 0,
             open |-> [b \in DOMAIN Opening |-> 0],
             result |-> "CONTINUE", success |-> TRUE]

Emit(lex, type, next) ==
  [lex EXCEPT !.tokens = Append(@, type), !.at = next, !.result = "CONTINUE"]

\* An error with the token that stays INVALID; the caller skips a character.
Fail(lex, type, i) ==
  [lex EXCEPT !.tokens = Append(@, type), !.at = i, !.result = "FAIL",
              !.errors = @ + 1]

Tripled(text, i, quote) == \A k \in i .. i + 2 : Char(text, k) = quote

\* From i inside a string: where it ends, and whether it was closed.
StringEnd(text, i, multiline, quote) ==
  LET end[j \in 1 .. Len(text)] ==
        LET chr == text[j]
            after == Char(text, j + 1)
        IN  CASE chr = "NUL" \/ (chr = "\n" /\ ~multiline) -> [at |-> j, closed |-> FALSE]
              [] chr = quote /\ ~multiline -> [at |-> j + 1, closed |-> TRUE]
              [] chr = quote /\ multiline /\ Tripled(text, j, quote) ->
                   [at |-> j + 3, closed |-> TRUE]
              [] chr = "\\" /\ after \in {"\\", quote} -> end[j + 2]
              [] OTHER -> end[j + 1]
  IN  end[i]

\* The scan for a later quote after a failure never moves: a string fails only
\* at a character that ends this scan at once.
LexString(lex, text, i) ==
  LET quote == text[i]
      multiline == i + 3 <= Len(text) /\ Tripled(text, i, quote)
      end == StringEnd(text, IF multiline THEN i + 3 ELSE i + 1, multiline, quote)
      type == IF quote = "'" THEN "STRING" ELSE "DOUBLE_QUOTED"
  IN  IF end.closed THEN Emit(lex, type, end.at) ELSE Fail(lex, type, end.at)

LexIdentifier(lex, text, i) ==
  LET end == SkipOver(text, i, Words \cup Digits)
      type == IF end = i + 1 /\ text[i] \in DOMAIN Keywords
              THEN Keywords[text[i]] ELSE "IDENTIFIER"
  IN  Emit(lex, type, end)

\* "0b" and its digits, a zero, or digits; no digit after "0b" is an error
\* that does not make the lexer fail.
LexNumber(lex, text, i) ==
  CASE text[i] = "0" /\ Char(text, i + 1) = "b" ->
         LET end == SkipOver(text, i + 2, Digits)
         IN  [Emit(lex, "NUMBER", end)
                EXCEPT !.errors = IF end = i + 2 THEN @ + 1 ELSE @]
    [] text[i] = "0" /\ Char(text, i + 1) # "b" -> Emit(lex, "NUMBER", i + 1)
    [] OTHER -> Emit(lex, "NUMBER", SkipOver(text, i, Digits))

LexNewline(lex, i) ==
  IF \E b \in DOMAIN lex.open : lex.open[b] # 0
  THEN [lex EXCEPT !.at = i + 1, !.result = "CONTINUE"]
  ELSE Emit(lex, "EOL", i + 1)

LexClosing(lex, chr, i) ==
  IF lex.open[Opens[chr]] = 0
  THEN Fail(lex, "INVALID", i)
  ELSE Emit([lex EXCEPT !.open[Opens[chr]] = @ - 1], Closing[chr], i + 1)

LexBeforeEquals(lex, text, i) ==
  LET types == BeforeEquals[text[i]]
  IN  CASE Char(text, i + 1) = "=" -> Emit(lex, types[2], i + 2)
        [] types[1] = "INVALID" /\ Char(text, i + 1) # "=" -> Fail(lex, "INVALID", i)
        [] OTHER -> Emit(lex, types[1], i + 1)

TokenizeOne(lex, text) ==
  LET i == TokenStart(text, lex.at)
      chr == Char(text, i)
  IN  CASE chr \in Quotes -> LexString(lex, text, i)
        [] chr = "f" /\ Char(text, i + 1) \in Quotes -> LexString(lex, text, i + 1)
        [] chr \in Words /\ ~(chr = "f" /\ Char(text, i + 1) \in Quotes) ->
             LexIdentifier(lex, text, i)
        [] chr \in Digits -> LexNumber(lex, text, i)
        [] chr = "\n" -> LexNewline(lex, i)
        [] chr \in DOMAIN Opening ->
             Emit([lex EXCEPT !.open[chr] = @ + 1], Opening[chr], i + 1)
        [] chr \in DOMAIN Closing -> LexClosing(lex, chr, i)
        [] chr \in DOMAIN Punctuation -> Emit(lex, Punctuation[chr], i + 1)
        [] chr \in DOMAIN BeforeEquals -> LexBeforeEquals(lex, text, i)
        [] chr = "NUL" /\ i = Len(text) ->
             [Emit(lex, "TOKEOF", i + 1) EXCEPT !.result = "DONE"]
        [] OTHER -> Fail(lex, "INVALID", i)

\* Has the loop of tokenize ended?
Ended(lex, text) == lex.result = "DONE" \/ lex.at > Len(text)

\* Seeded fault: a failure is forgotten.
RoundForgetful(lex, text) ==
  LET r == TokenizeOne(lex, text)
  IN  IF r.result = "FAIL" THEN [r EXCEPT !.at = @ + 1] ELSE r

\* After a failure the character at the position is skipped, whatever it is.
Round(lex, text) ==
  LET r == TokenizeOne(lex, text)
  IN  IF r.result = "FAIL" THEN [r EXCEPT !.at = @ + 1, !.success = FALSE] ELSE r

Tokenize(lex, text) ==
  LET from[l \in Lexers] == IF Ended(l, text) THEN l ELSE from[Round(l, text)]
  IN  from[lex]

Lex(buffer) == Tokenize(NewLexer, Append(buffer, "NUL"))
==============================================================================
