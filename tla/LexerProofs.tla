------------------------------ MODULE LexerProofs ------------------------------
(***************************************************************************)
(* Proofs about the lexer, for texts of any length over any characters:    *)
(* its loop ends, it ends with TOKEOF or has reported an error, and what   *)
(* is typed below a line does not change the tokens above it.              *)
(*                                                                         *)
(* First, induction and recursion: a function that a LET defines by        *)
(* equations is a CHOOSE, and nothing is known of it until some function   *)
(* is shown to solve the equations.  RecursionExists and RecursionUnique   *)
(* do this for the three recursive functions of the lexer, whose           *)
(* arguments come nearer to the end of the text in every step.             *)
(***************************************************************************)
EXTENDS LexedBuffer, SequenceTheorems, WellFoundedInduction, TLAPS

\* A set of numbers has a least one.
LEMMA LeastNat ==
  ASSUME NEW T, T \subseteq Nat, T # {}
  PROVE  \E n \in T : \A k \in T : n <= k
<1> DEFINE R == OpToRel(<, Nat)
<1>1. IsWellFoundedOn(R, Nat)
  BY NatLessThanWellFounded
<1>2. \A k, n \in Nat : k < n => <<k, n>> \in R
  BY DEF OpToRel
<1> HIDE DEF R
<1>3. PICK n \in T : \A k \in T : ~ (<<k, n>> \in R)
  BY <1>1, WFMin
<1>4. n \in Nat /\ \A k \in T : k \in Nat /\ ~ (k < n)
  BY <1>2, <1>3
<1> QED  BY <1>3, <1>4

\* Induction on a measure: what holds of x if it holds of all with a smaller one.
LEMMA MeasureInduction ==
  ASSUME NEW S, NEW G, NEW m \in [S -> Nat],
         \A x \in S : (\A y \in S : m[y] < m[x] => y \in G) => x \in G
  PROVE  S \subseteq G
<1> DEFINE T == {m[x] : x \in S \ G}
<1> SUFFICES ASSUME S \ G # {}  PROVE FALSE
  OBVIOUS
<1>1. T \subseteq Nat /\ T # {}
  OBVIOUS
<1>2. PICK n \in T : \A k \in T : n <= k
  <2> HIDE DEF T
  <2> QED  BY <1>1, LeastNat
<1>3. PICK x \in S \ G : n = m[x]
  BY <1>2
<1>4. \A y \in S : m[y] < m[x] => y \in G
  <2> SUFFICES ASSUME NEW y \in S, m[y] < m[x], y \notin G  PROVE FALSE
    OBVIOUS
  <2>1. m[y] \in T
    OBVIOUS
  <2>2. m[x] <= m[y] /\ m[x] \in Nat /\ m[y] \in Nat
    BY <1>2, <1>3, <2>1
  <2> QED  BY <2>2
<1> QED  BY <1>3, <1>4

\* The equations g[x] = value[x] for the x of stop, g[x] = g[next[x]] for the
\* others of S: what makes them a definition, and what it is to solve them.
Decreasing(S, V, stop, value, next, m) ==
  /\ value \in [S -> V]
  /\ m \in [S -> Nat]
  /\ \A x \in S : x \notin stop => next[x] \in S /\ m[next[x]] < m[x]

Solution(g, S, V, stop, value, next) ==
  /\ g \in [S -> V]
  /\ \A x \in S : g[x] = IF x \in stop THEN value[x] ELSE g[next[x]]

\* Equations whose steps lower a measure have a solution.
LEMMA RecursionExists ==
  ASSUME NEW S, NEW V, NEW stop, NEW value, NEW next, NEW m,
         Decreasing(S, V, stop, value, next, m)
  PROVE  \E g : Solution(g, S, V, stop, value, next)
<1> USE DEF Decreasing
<1> DEFINE Below(n) == {x \in S : m[x] < n}
           Solves(h, n) ==
             /\ h \in [Below(n) -> V]
             /\ \A x \in Below(n) : h[x] = IF x \in stop THEN value[x] ELSE h[next[x]]
<1>1. ASSUME NEW n \in Nat, NEW k \in Nat, NEW h, NEW j, Solves(h, n), Solves(j, k)
      PROVE  \A x \in Below(n) \cap Below(k) : h[x] = j[x]
  <2> DEFINE D == Below(n) \cap Below(k)
             G == {x \in D : h[x] = j[x]}
             mD == [x \in D |-> m[x]]
  <2>1. mD \in [D -> Nat]
    OBVIOUS
  <2>2. ASSUME NEW x \in D, \A y \in D : mD[y] < mD[x] => y \in G
        PROVE  x \in G
    <3>1. CASE x \in stop
      BY <1>1, <3>1
    <3>2. CASE x \notin stop
      <4>1. next[x] \in S /\ m[next[x]] < m[x] /\ m[x] < n /\ m[x] < k
        BY <3>2
      <4>2. m[next[x]] \in Nat /\ m[x] \in Nat
        BY <4>1
      <4>3. next[x] \in D /\ mD[next[x]] < mD[x]
        BY <4>1, <4>2
      <4>4. h[next[x]] = j[next[x]]
        BY <2>2, <4>3
      <4>5. h[x] = h[next[x]] /\ j[x] = j[next[x]]
        BY <1>1, <3>2
      <4> QED  BY <4>4, <4>5
    <3> QED  BY <3>1, <3>2
  <2>3. D \subseteq G
    <3> HIDE DEF D, G, mD
    <3> QED  BY <2>1, <2>2, MeasureInduction
  <2> QED  BY <2>3
<1>2. \A n \in Nat : \E h : Solves(h, n)
  <2> DEFINE T == {n \in Nat : ~ \E h : Solves(h, n)}
  <2> SUFFICES ASSUME T # {}  PROVE FALSE
    OBVIOUS
  <2>1. PICK n \in Nat : /\ ~ \E h : Solves(h, n)
                         /\ \A k \in Nat : k < n => \E h : Solves(h, k)
    <3> HIDE DEF Solves
    <3>1. T \subseteq Nat
      OBVIOUS
    <3>2. PICK n \in T : \A k \in T : n <= k
      <4> HIDE DEF T
      <4> QED  BY <3>1, LeastNat
    <3>3. \A k \in Nat : k < n => k \notin T
      <4> HIDE DEF T
      <4> QED  BY <3>1, <3>2
    <3> QED  BY <3>2, <3>3
  <2>2. n # 0
    <3> DEFINE none == [x \in {} |-> value[x]]
    <3>1. Below(0) = {}
      OBVIOUS
    <3>2. none \in [{} -> V]
      OBVIOUS
    <3>3. Solves(none, 0)
      BY <3>1, <3>2
    <3> HIDE DEF Solves, none
    <3> QED  BY <3>3, <2>1
  <2>3. n - 1 \in Nat /\ n - 1 < n
    BY <2>2
  <2>4. PICK h : Solves(h, n - 1)
    <3> HIDE DEF Solves
    <3> QED  BY <2>1, <2>3
  <2> DEFINE j == [x \in Below(n) |-> IF x \in stop THEN value[x] ELSE h[next[x]]]
  <2>5. ASSUME NEW x \in Below(n), x \notin stop
        PROVE  next[x] \in Below(n - 1) /\ next[x] \in Below(n)
    <3>1. next[x] \in S /\ m[next[x]] < m[x] /\ m[x] < n /\ m[next[x]] \in Nat /\ m[x] \in Nat
      BY <2>5
    <3> QED  BY <3>1
  <2>6. j \in [Below(n) -> V]
    <3>1. ASSUME NEW x \in Below(n)
          PROVE  (IF x \in stop THEN value[x] ELSE h[next[x]]) \in V
      <4>1. CASE x \in stop
        BY <4>1
      <4>2. CASE x \notin stop
        BY <2>4, <2>5, <4>2
      <4> QED  BY <4>1, <4>2
    <3> QED  BY <3>1
  <2>7. ASSUME NEW x \in Below(n), x \notin stop
        PROVE  j[x] = j[next[x]]
    <3>1. j[x] = h[next[x]]
      BY <2>7
    <3>2. h[next[x]] = IF next[x] \in stop THEN value[next[x]] ELSE h[next[next[x]]]
      BY <2>4, <2>5, <2>7
    <3>3. j[next[x]] = IF next[x] \in stop THEN value[next[x]] ELSE h[next[next[x]]]
      BY <2>5, <2>7
    <3> QED  BY <3>1, <3>2, <3>3
  <2>8. Solves(j, n)
    BY <2>6, <2>7
  <2> QED  BY <2>8, <2>1
<1> DEFINE sol(x) == CHOOSE h : Solves(h, m[x] + 1)
           g == [x \in S |-> sol(x)[x]]
<1>3. ASSUME NEW x \in S
      PROVE  Solves(sol(x), m[x] + 1) /\ x \in Below(m[x] + 1)
  <2>1. m[x] \in Nat /\ m[x] + 1 \in Nat
    OBVIOUS
  <2>2. \E h : Solves(h, m[x] + 1)
    BY <1>2, <2>1
  <2> HIDE DEF Solves
  <2> QED  BY <2>1, <2>2
<1>4. g \in [S -> V]
  <2>1. ASSUME NEW x \in S  PROVE sol(x)[x] \in V
    <3> HIDE DEF sol
    <3> QED  BY <1>3
  <2> QED  BY <2>1
<1>5. ASSUME NEW x \in S
      PROVE  g[x] = IF x \in stop THEN value[x] ELSE g[next[x]]
  <2>1. g[x] = sol(x)[x]
    OBVIOUS
  <2>2. sol(x)[x] = IF x \in stop THEN value[x] ELSE sol(x)[next[x]]
    <3> HIDE DEF sol
    <3> QED  BY <1>3
  <2>3. ASSUME x \notin stop
        PROVE  sol(x)[next[x]] = g[next[x]]
    <3>1. next[x] \in S /\ m[next[x]] < m[x] /\ m[x] \in Nat /\ m[next[x]] \in Nat
      BY <2>3
    <3>2. next[x] \in Below(m[x] + 1) /\ next[x] \in Below(m[next[x]] + 1)
      BY <3>1
    <3>3. g[next[x]] = sol(next[x])[next[x]]
      BY <3>1
    <3>4. Solves(sol(x), m[x] + 1) /\ Solves(sol(next[x]), m[next[x]] + 1)
      BY <1>3, <3>1
    <3>5. sol(x)[next[x]] = sol(next[x])[next[x]]
      <4> HIDE DEF sol, Solves, Below
      <4> QED  BY <1>1, <3>1, <3>2, <3>4
    <3> QED  BY <3>3, <3>5
  <2> QED  BY <2>1, <2>2, <2>3
<1> QED  BY <1>4, <1>5 DEF Solution

\* They have no other.
LEMMA RecursionUnique ==
  ASSUME NEW S, NEW V, NEW stop, NEW value, NEW next, NEW m, NEW g, NEW h,
         Decreasing(S, V, stop, value, next, m),
         Solution(g, S, V, stop, value, next),
         \A x \in S : h[x] = IF x \in stop THEN value[x] ELSE h[next[x]]
  PROVE  \A x \in S : h[x] = g[x]
<1> DEFINE G == {x \in S : h[x] = g[x]}
<1>1. m \in [S -> Nat]
  BY DEF Decreasing
<1>2. ASSUME NEW x \in S, \A y \in S : m[y] < m[x] => y \in G
      PROVE  x \in G
  <2>1. CASE x \in stop
    BY <2>1 DEF Solution
  <2>2. CASE x \notin stop
    <3>1. next[x] \in S /\ m[next[x]] < m[x]
      BY <2>2 DEF Decreasing
    <3>2. h[next[x]] = g[next[x]]
      BY <1>2, <3>1
    <3> QED  BY <2>2, <3>2 DEF Solution
  <2> QED  BY <2>1, <2>2
<1>3. S \subseteq G
  <2> HIDE DEF G
  <2> QED  BY <1>1, <1>2, MeasureInduction
<1> QED  BY <1>3

-----------------------------------------------------------------------------
\* The characters of the tables.
LEMMA Alphabet ==
  /\ DOMAIN Keywords = {"if", "endif", "elif", "else", "foreach", "endforeach", "break",
                        "continue", "and", "or", "not", "in", "true", "false"}
  /\ DOMAIN Punctuation = {".", ",", ":", "?", "-", "*", "/", "%"}
  /\ DOMAIN BeforeEquals = {"+", "=", ">", "<", "!"}
  /\ DOMAIN Opening = {"(", "[", "{"}
  /\ DOMAIN Closing = {")", "]", "}"}
BY DEF Keywords, Punctuation, BeforeEquals, Opening, Closing

\* The tables hold types of tokens.
LEMMA TypesOfTokens ==
  /\ \A chr \in DOMAIN Keywords : Keywords[chr] \in TokenTypes
  /\ \A chr \in DOMAIN Punctuation : Punctuation[chr] \in TokenTypes
  /\ \A chr \in DOMAIN BeforeEquals :
        BeforeEquals[chr][1] \in TokenTypes /\ BeforeEquals[chr][2] \in TokenTypes
  /\ \A chr \in DOMAIN Opening : Opening[chr] \in TokenTypes
  /\ \A chr \in DOMAIN Closing : Closing[chr] \in TokenTypes
  /\ \A chr \in DOMAIN Closing : Opens[chr] \in DOMAIN Opening
<1>1. \A chr \in DOMAIN Keywords : Keywords[chr] \in TokenTypes
  BY DEF Keywords, TokenTypes
<1>2. \A chr \in DOMAIN Punctuation : Punctuation[chr] \in TokenTypes
  BY DEF Punctuation, TokenTypes
<1>3. \A chr \in DOMAIN BeforeEquals :
        BeforeEquals[chr][1] \in TokenTypes /\ BeforeEquals[chr][2] \in TokenTypes
  BY DEF BeforeEquals, TokenTypes
<1>4. \A chr \in DOMAIN Opening : Opening[chr] \in TokenTypes
  BY DEF Opening, TokenTypes
<1>5. \A chr \in DOMAIN Closing : Closing[chr] \in TokenTypes
  BY DEF Closing, TokenTypes
<1>6. \A chr \in DOMAIN Closing : Opens[chr] \in DOMAIN Opening
  BY DEF Closing, Opens, Opening
<1> QED  BY <1>1, <1>2, <1>3, <1>4, <1>5, <1>6

\* What the characters that end something are not.
LEMMA Enders ==
  /\ {"NUL", "\n"} \cap (Words \cup Digits \cup Quotes) = {}
  /\ {"NUL", "\n"} \cap DOMAIN Punctuation = {}
  /\ {"NUL", "\n"} \cap DOMAIN BeforeEquals = {}
  /\ {"NUL", "\n"} \cap DOMAIN Opening = {}
  /\ {"NUL", "\n"} \cap DOMAIN Closing = {}
BY Alphabet DEF Words, Digits, Quotes

-----------------------------------------------------------------------------
\* What the constructor of Lexer makes of every buffer.
ZeroEnded(text) ==
  /\ Len(text) \in Nat \ {0}
  /\ text[Len(text)] = "NUL"

\* Of the positions in G from i on there is a first one.
LEMMA FirstPosition ==
  ASSUME NEW n \in Nat, NEW i \in 1 .. n, NEW G, n \in G
  PROVE  \E j \in i .. n : j \in G /\ \A k \in i .. j - 1 : k \notin G
<1> DEFINE T == {j \in i .. n : j \in G}
<1>1. T \subseteq Nat /\ n \in T
  OBVIOUS
<1>2. PICK j \in T : \A k \in T : j <= k
  <2> HIDE DEF T
  <2> QED  BY <1>1, LeastNat
<1>3. j \in i .. n /\ j \in G
  BY <1>2
<1>4. ASSUME NEW k \in i .. j - 1  PROVE k \notin G
  <2>1. k \in i .. n /\ k < j
    BY <1>3
  <2>2. k \notin T
    BY <1>1, <1>2, <2>1
  <2> QED  BY <2>1, <2>2
<1> QED  BY <1>3, <1>4

\* Skipping stops at the zero byte or before it.
LEMMA SkipOverStops ==
  ASSUME NEW text, ZeroEnded(text), NEW i \in 1 .. Len(text), NEW S, "NUL" \notin S
  PROVE  /\ SkipOver(text, i, S) \in i .. Len(text)
         /\ text[SkipOver(text, i, S)] \notin S
         /\ \A k \in i .. SkipOver(text, i, S) - 1 : text[k] \in S
<1> DEFINE G == {k \in 1 .. Len(text) : text[k] \notin S}
<1>1. Len(text) \in G /\ Len(text) \in Nat
  BY DEF ZeroEnded
<1>2. PICK j \in i .. Len(text) : j \in G /\ \A k \in i .. j - 1 : k \notin G
  <2> HIDE DEF G
  <2> QED  BY <1>1, FirstPosition
<1>3. text[j] \notin S /\ \A k \in i .. j - 1 : text[k] \in S
  BY <1>1, <1>2
<1> QED  BY <1>3 DEF SkipOver

\* A comment ends.
LEMMA EndOfLineStops ==
  ASSUME NEW text, ZeroEnded(text), NEW i \in 1 .. Len(text)
  PROVE  /\ EndOfLine(text, i) \in i .. Len(text)
         /\ text[EndOfLine(text, i)] \in {"\n", "NUL"}
         /\ \A k \in i .. EndOfLine(text, i) - 1 : text[k] \notin {"\n", "NUL"}
<1> DEFINE G == {k \in 1 .. Len(text) : text[k] \in {"\n", "NUL"}}
<1>1. Len(text) \in G /\ Len(text) \in Nat
  BY DEF ZeroEnded
<1>2. PICK j \in i .. Len(text) : j \in G /\ \A k \in i .. j - 1 : k \notin G
  <2> HIDE DEF G
  <2> QED  BY <1>1, FirstPosition
<1>3. text[j] \in {"\n", "NUL"} /\ \A k \in i .. j - 1 : text[k] \notin {"\n", "NUL"}
  BY <1>1, <1>2
<1> QED  BY <1>3 DEF EndOfLine

LEMMA EndOfLineMoves ==
  ASSUME NEW text, ZeroEnded(text), NEW i \in 1 .. Len(text), text[i] = "#"
  PROVE  EndOfLine(text, i) \in i + 1 .. Len(text)
<1>1. EndOfLine(text, i) # i
  BY EndOfLineStops
<1> QED  BY <1>1, EndOfLineStops DEF ZeroEnded

\* A lookahead that is not the zero byte is followed by another character.
LEMMA CharBeforeEnd ==
  ASSUME NEW text, ZeroEnded(text), NEW i \in Nat \ {0}, Char(text, i) # "NUL"
  PROVE  i + 1 \in 1 .. Len(text) /\ i \in 1 .. Len(text) /\ Char(text, i) = text[i]
BY DEF ZeroEnded, Char

\* The recursion of TokenStart has a solution.
LEMMA TokenStartStep ==
  ASSUME NEW text, ZeroEnded(text), NEW i \in 1 .. Len(text)
  PROVE  /\ TokenStart(text, i) \in 1 .. Len(text)
         /\ TokenStart(text, i) =
              CASE text[i] = "SP" -> TokenStart(text, i + 1)
                [] text[i] = "#" -> TokenStart(text, EndOfLine(text, i))
                [] text[i] = "\\" /\ Char(text, i + 1) = "\n" -> TokenStart(text, i + 2)
                [] OTHER -> i
<1> DEFINE P == 1 .. Len(text)
           Continued(j) == text[j] = "\\" /\ Char(text, j + 1) = "\n"
           stop == {p \in P : text[p] # "SP" /\ text[p] # "#" /\ ~Continued(p)}
           value == [p \in P |-> p]
           next == [p \in P |-> CASE text[p] = "SP" -> p + 1
                                  [] text[p] = "#" -> EndOfLine(text, p)
                                  [] OTHER -> p + 2]
           m == [p \in P |-> Len(text) - p]
           Start(f) == [j \in P |-> CASE text[j] = "SP" -> f[j + 1]
                                      [] text[j] = "#" -> f[EndOfLine(text, j)]
                                      [] Continued(j) -> f[j + 2]
                                      [] OTHER -> j]
<1>0. Len(text) \in Nat
  BY DEF ZeroEnded
<1>1. value \in [P -> P] /\ m \in [P -> Nat]
  BY <1>0
<1>2. ASSUME NEW j \in P, j \notin stop
      PROVE  next[j] \in P /\ m[next[j]] < m[j]
  <2>0. j \in Nat \ {0} /\ j + 1 \in Nat \ {0} /\ Char(text, j) = text[j]
    BY <1>0 DEF Char
  <2>1. next[j] = IF text[j] = "SP" THEN j + 1
                ELSE IF text[j] = "#" THEN EndOfLine(text, j) ELSE j + 2
    OBVIOUS
  <2>2. text[j] = "SP" \/ text[j] = "#" \/ Continued(j)
    BY <1>2
  <2>3. \A p \in P : m[p] = Len(text) - p
    OBVIOUS
  <2> HIDE DEF next, m
  <2>4. next[j] \in j + 1 .. Len(text)
    <3>1. CASE text[j] = "SP"
      <4>1. j + 1 \in 1 .. Len(text)
        BY <2>0, <3>1, CharBeforeEnd
      <4> QED  BY <1>0, <2>0, <2>1, <3>1, <4>1
    <3>2. CASE text[j] = "#"
      BY <2>1, <3>2, EndOfLineMoves
    <3>3. CASE Continued(j)
      <4>1. j + 1 + 1 \in 1 .. Len(text)
        BY <2>0, <3>3, CharBeforeEnd
      <4> QED  BY <1>0, <2>0, <2>1, <3>3, <4>1
    <3> QED  BY <2>2, <3>1, <3>2, <3>3
  <2> QED  BY <1>0, <2>0, <2>3, <2>4
<1>3. PICK g : Solution(g, P, P, stop, value, next)
  <2> HIDE DEF P, stop, value, next, m
  <2>1. Decreasing(P, P, stop, value, next, m)
    BY <1>1, <1>2 DEF Decreasing
  <2> QED  BY <2>1, RecursionExists
<1>4. g = Start(g)
  <2>1. ASSUME NEW j \in P
        PROVE  g[j] = CASE text[j] = "SP" -> g[j + 1]
                        [] text[j] = "#" -> g[EndOfLine(text, j)]
                        [] Continued(j) -> g[j + 2]
                        [] OTHER -> j
    BY <1>3 DEF Solution
  <2>2. g = [j \in P |-> g[j]]
    BY <1>3 DEF Solution
  <2> QED  BY <2>1, <2>2
<1> DEFINE start == CHOOSE f : f = Start(f)
<1>5. start = Start(start)
  <2> HIDE DEF Start
  <2> QED  BY <1>4
<1>6. \A j \in P : TokenStart(text, j) = start[j]
  BY DEF TokenStart
<1>7. \A j \in P : start[j] = Start(start)[j]
  <2> HIDE DEF start, Start
  <2> QED  BY <1>5
<1> HIDE DEF start
<1>8. \A j \in P : start[j] = IF j \in stop THEN value[j] ELSE start[next[j]]
  BY <1>7
<1>9. \A j \in P : start[j] = g[j]
  <2> HIDE DEF P, stop, value, next, m
  <2>1. Decreasing(P, P, stop, value, next, m)
    BY <1>1, <1>2 DEF Decreasing
  <2> QED  BY <1>3, <1>8, <2>1, RecursionUnique
<1>10. \A j \in P : start[j] \in P
  BY <1>3, <1>9 DEF Solution
<1>11. start[i] = CASE text[i] = "SP" -> start[i + 1]
                    [] text[i] = "#" -> start[EndOfLine(text, i)]
                    [] Continued(i) -> start[i + 2]
                    [] OTHER -> i
  BY <1>7
<1>12. i \notin stop => next[i] \in P
  BY <1>2
<1> QED  BY <1>6, <1>10, <1>11, <1>12

\* What lexStringChar can meet at the position i of a string.
StringFails(text, i, multiline) ==
  text[i] = "NUL" \/ (text[i] = "\n" /\ ~multiline)

StringCloses(text, i, multiline, quote) ==
  text[i] = quote /\ (multiline => Tripled(text, i, quote))

StringEscapes(text, i, quote) ==
  text[i] = "\\" /\ Char(text, i + 1) \in {"\\", quote}

\* A step of lexStringChar ends the string or goes on.
LEMMA StringEndStep ==
  ASSUME NEW text, ZeroEnded(text), NEW multiline \in BOOLEAN, NEW quote \in Quotes,
         NEW i \in 1 .. Len(text)
  PROVE  /\ StringFails(text, i, multiline)
              => StringEnd(text, i, multiline, quote) = [at |-> i, closed |-> FALSE]
         /\ StringCloses(text, i, multiline, quote)
              => StringEnd(text, i, multiline, quote)
                   = [at |-> IF multiline THEN i + 3 ELSE i + 1, closed |-> TRUE]
         /\ StringEscapes(text, i, quote)
              => StringEnd(text, i, multiline, quote)
                   = StringEnd(text, i + 2, multiline, quote)
         /\ ~StringFails(text, i, multiline) /\ ~StringCloses(text, i, multiline, quote)
              /\ ~StringEscapes(text, i, quote)
              => StringEnd(text, i, multiline, quote)
                   = StringEnd(text, i + 1, multiline, quote)
<1> DEFINE P == 1 .. Len(text)
           V == [at : Nat, closed : BOOLEAN]
           Fails(j) == text[j] = "NUL" \/ (text[j] = "\n" /\ ~multiline)
           Closes(j) == text[j] = quote /\ ~multiline
           Closes3(j) == text[j] = quote /\ multiline /\ Tripled(text, j, quote)
           Escapes(j) == text[j] = "\\" /\ Char(text, j + 1) \in {"\\", quote}
           stop == {p \in P : Fails(p) \/ Closes(p) \/ Closes3(p)}
           value == [p \in P |-> IF Fails(p) THEN [at |-> p, closed |-> FALSE]
                                 ELSE IF Closes(p) THEN [at |-> p + 1, closed |-> TRUE]
                                 ELSE [at |-> p + 3, closed |-> TRUE]]
           next == [p \in P |-> IF Escapes(p) THEN p + 2 ELSE p + 1]
           m == [p \in P |-> Len(text) - p]
           End(f) == [j \in P |-> CASE Fails(j) -> [at |-> j, closed |-> FALSE]
                                    [] Closes(j) -> [at |-> j + 1, closed |-> TRUE]
                                    [] Closes3(j) -> [at |-> j + 3, closed |-> TRUE]
                                    [] Escapes(j) -> f[j + 2]
                                    [] OTHER -> f[j + 1]]
<1>0. Len(text) \in Nat
  BY DEF ZeroEnded
<1>1. value \in [P -> V] /\ m \in [P -> Nat]
  BY <1>0
<1>2. ASSUME NEW j \in P, j \notin stop
      PROVE  next[j] \in P /\ m[next[j]] < m[j]
  <2>0. j \in Nat \ {0} /\ j + 1 \in Nat \ {0} /\ Char(text, j) = text[j]
    BY <1>0 DEF Char
  <2>1. next[j] = IF Escapes(j) THEN j + 2 ELSE j + 1
    OBVIOUS
  <2>2. text[j] # "NUL"
    BY <1>2
  <2>3. \A p \in P : m[p] = Len(text) - p
    OBVIOUS
  <2>4. Escapes(j) => Char(text, j + 1) # "NUL"
    BY DEF Quotes
  <2> HIDE DEF next, m, Escapes
  <2>5. next[j] \in j + 1 .. Len(text)
    <3>1. j + 1 \in 1 .. Len(text)
      BY <2>0, <2>2, CharBeforeEnd
    <3>2. Escapes(j) => j + 1 + 1 \in 1 .. Len(text)
      BY <2>0, <2>4, CharBeforeEnd
    <3> QED  BY <1>0, <2>0, <2>1, <3>1, <3>2
  <2> QED  BY <1>0, <2>0, <2>3, <2>5
<1>3. PICK g : Solution(g, P, V, stop, value, next)
  <2> HIDE DEF P, V, stop, value, next, m
  <2>1. Decreasing(P, V, stop, value, next, m)
    BY <1>1, <1>2 DEF Decreasing
  <2> QED  BY <2>1, RecursionExists
<1>0a. \A j \in P :
          /\ Fails(j) => ~Closes(j) /\ ~Closes3(j) /\ ~Escapes(j)
          /\ Closes(j) => ~Closes3(j) /\ ~Escapes(j)
          /\ Closes3(j) => ~Escapes(j)
  BY DEF Quotes
<1> HIDE DEF Fails, Closes, Closes3, Escapes
<1>4. g = End(g)
  <2>1. ASSUME NEW j \in P  PROVE g[j] = End(g)[j]
    <3>1. g[j] = IF j \in stop THEN value[j] ELSE g[next[j]]
      BY <1>3 DEF Solution
    <3>2. CASE Fails(j)
      BY <1>0a, <3>1, <3>2
    <3>3. CASE Closes(j)
      BY <1>0a, <3>1, <3>3
    <3>4. CASE Closes3(j)
      BY <1>0a, <3>1, <3>4
    <3>5. CASE j \notin stop /\ Escapes(j)
      BY <3>1, <3>5
    <3>6. CASE j \notin stop /\ ~Escapes(j)
      BY <3>1, <3>6
    <3> QED  BY <3>2, <3>3, <3>4, <3>5, <3>6
  <2>2. g = [j \in P |-> g[j]]
    BY <1>3 DEF Solution
  <2> QED  BY <2>1, <2>2
<1> DEFINE end == CHOOSE f : f = End(f)
<1>5. end = End(end)
  <2> HIDE DEF End
  <2> QED  BY <1>4
<1>6. \A j \in P : StringEnd(text, j, multiline, quote) = end[j]
  BY DEF StringEnd, Fails, Closes, Closes3, Escapes
<1>7. \A j \in P : end[j] = End(end)[j]
  <2> HIDE DEF end, End
  <2> QED  BY <1>5
<1> HIDE DEF end
<1>8. i \notin stop => next[i] \in P
  BY <1>2
<1> QED
  <2> DEFINE S(k) == StringEnd(text, k, multiline, quote)
  <2>0. end[i] = End(end)[i]
    BY <1>7
  <2>1. Fails(i) => S(i) = [at |-> i, closed |-> FALSE]
    BY <1>0a, <1>6, <2>0
  <2>2. Closes(i) => S(i) = [at |-> i + 1, closed |-> TRUE]
    BY <1>0a, <1>6, <2>0
  <2>3. Closes3(i) => S(i) = [at |-> i + 3, closed |-> TRUE]
    BY <1>0a, <1>6, <2>0
  <2>4. i \notin stop /\ Escapes(i) => S(i) = S(i + 2)
    BY <1>6, <1>8, <2>0
  <2>5. i \notin stop /\ ~Escapes(i) => S(i) = S(i + 1)
    BY <1>6, <1>8, <2>0
  <2>6. i \in stop <=> Fails(i) \/ Closes(i) \/ Closes3(i)
    OBVIOUS
  <2> HIDE DEF stop, S
  <2>7. /\ StringFails(text, i, multiline) <=> Fails(i)
        /\ StringCloses(text, i, multiline, quote) <=> Closes(i) \/ Closes3(i)
        /\ StringEscapes(text, i, quote) <=> Escapes(i)
        /\ Closes(i) => ~multiline
        /\ Closes3(i) => multiline
    BY DEF Fails, Closes, Closes3, Escapes, StringFails, StringCloses, StringEscapes
  <2>8. /\ StringFails(text, i, multiline) => S(i) = [at |-> i, closed |-> FALSE]
        /\ StringCloses(text, i, multiline, quote)
              => S(i) = [at |-> IF multiline THEN i + 3 ELSE i + 1, closed |-> TRUE]
        /\ StringEscapes(text, i, quote) => S(i) = S(i + 2)
        /\ ~StringFails(text, i, multiline) /\ ~StringCloses(text, i, multiline, quote)
              /\ ~StringEscapes(text, i, quote) => S(i) = S(i + 1)
    BY <1>0a, <2>1, <2>2, <2>3, <2>4, <2>5, <2>6, <2>7
  <2> QED  BY <2>8 DEF S

\* The search for the next token goes forward and stays in the text.
LEMMA TokenStartStops ==
  ASSUME NEW text, ZeroEnded(text), NEW i \in 1 .. Len(text)
  PROVE  TokenStart(text, i) \in i .. Len(text)
<1> DEFINE P == 1 .. Len(text)
           G == {p \in P : TokenStart(text, p) \in p .. Len(text)}
           m == [p \in P |-> Len(text) - p]
<1>0. Len(text) \in Nat
  BY DEF ZeroEnded
<1>1. m \in [P -> Nat]
  BY <1>0
<1>2. ASSUME NEW j \in P, \A k \in P : m[k] < m[j] => k \in G
      PROVE  j \in G
  <2>0. j \in Nat \ {0} /\ j + 1 \in Nat \ {0} /\ Char(text, j) = text[j]
    BY <1>0 DEF Char
  <2>1. \A k \in P : k > j => TokenStart(text, k) \in k .. Len(text)
    BY <1>0, <1>2
  <2>2. CASE text[j] = "SP"
    <3>1. j + 1 \in 1 .. Len(text)
      BY <2>0, <2>2, CharBeforeEnd
    <3>2. TokenStart(text, j) = TokenStart(text, j + 1)
      BY <2>2, TokenStartStep
    <3> QED  BY <1>0, <2>0, <2>1, <3>1, <3>2
  <2>3. CASE text[j] = "#"
    <3>1. EndOfLine(text, j) \in j + 1 .. Len(text)
      BY <2>3, EndOfLineMoves
    <3>2. TokenStart(text, j) = TokenStart(text, EndOfLine(text, j))
      BY <2>3, TokenStartStep
    <3> QED  BY <1>0, <2>0, <2>1, <3>1, <3>2
  <2>4. CASE text[j] = "\\" /\ Char(text, j + 1) = "\n"
    <3>1. j + 1 + 1 \in 1 .. Len(text)
      BY <2>0, <2>4, CharBeforeEnd
    <3>2. TokenStart(text, j) = TokenStart(text, j + 2)
      BY <2>4, TokenStartStep
    <3> QED  BY <1>0, <2>0, <2>1, <3>1, <3>2
  <2>5. CASE text[j] \notin {"SP", "#"} /\ ~(text[j] = "\\" /\ Char(text, j + 1) = "\n")
    <3>1. TokenStart(text, j) = j
      BY <2>5, TokenStartStep
    <3> QED  BY <1>0, <2>0, <3>1
  <2> QED  BY <2>2, <2>3, <2>4, <2>5
<1>3. P \subseteq G
  <2> HIDE DEF P, G, m
  <2> QED  BY <1>1, <1>2, MeasureInduction
<1> QED  BY <1>3

\* A string ends in the text, closed or not.
LEMMA StringEndStops ==
  ASSUME NEW text, ZeroEnded(text), NEW multiline \in BOOLEAN, NEW quote \in Quotes,
         NEW i \in 1 .. Len(text)
  PROVE  LET end == StringEnd(text, i, multiline, quote)
         IN  \/ end.closed = TRUE /\ end.at \in i + 1 .. Len(text)
             \/ end.closed = FALSE /\ end.at \in i .. Len(text)
<1> DEFINE P == 1 .. Len(text)
           S(p) == StringEnd(text, p, multiline, quote)
           Stops(p) == \/ S(p).closed = TRUE /\ S(p).at \in p + 1 .. Len(text)
                       \/ S(p).closed = FALSE /\ S(p).at \in p .. Len(text)
           G == {p \in P : Stops(p)}
           m == [p \in P |-> Len(text) - p]
<1>0. Len(text) \in Nat
  BY DEF ZeroEnded
<1>1. m \in [P -> Nat]
  BY <1>0
<1>2. ASSUME NEW j \in P, \A k \in P : m[k] < m[j] => k \in G
      PROVE  j \in G
  <2>0. j \in Nat \ {0} /\ j + 1 \in Nat \ {0} /\ j + 2 \in Nat \ {0}
          /\ Char(text, j) = text[j]
    BY <1>0 DEF Char
  <2>1. \A k \in P : k > j => Stops(k)
    BY <1>0, <1>2
  <2>2. Stops(j)
    <3>1. CASE StringFails(text, j, multiline)
      <4>1. S(j) = [at |-> j, closed |-> FALSE]
        BY <3>1, StringEndStep
      <4> HIDE DEF S
      <4> QED  BY <1>0, <4>1
    <3>2. CASE StringCloses(text, j, multiline, quote)
      <4>1. S(j) = [at |-> IF multiline THEN j + 3 ELSE j + 1, closed |-> TRUE]
        BY <3>2, StringEndStep
      <4>2. j + 1 \in 1 .. Len(text)
        BY <2>0, <3>2, CharBeforeEnd DEF Quotes, StringCloses
      <4>3. multiline => j + 2 + 1 \in 1 .. Len(text)
        <5>1. multiline => Char(text, j + 2) = quote
          BY <2>0, <3>2 DEF Tripled, StringCloses
        <5> QED  BY <2>0, <5>1, CharBeforeEnd DEF Quotes
      <4> HIDE DEF S
      <4> QED  BY <1>0, <2>0, <4>1, <4>2, <4>3
    <3>3. CASE StringEscapes(text, j, quote)
      <4>1. S(j) = S(j + 2)
        BY <3>3, StringEndStep
      <4>2. j + 1 + 1 \in 1 .. Len(text)
        BY <2>0, <3>3, CharBeforeEnd DEF Quotes, StringEscapes
      <4> HIDE DEF S
      <4>3. Stops(j + 2)
        BY <1>0, <2>0, <2>1, <4>2
      <4> QED  BY <1>0, <2>0, <4>1, <4>2, <4>3
    <3>4. CASE ~StringFails(text, j, multiline) /\ ~StringCloses(text, j, multiline, quote)
                 /\ ~StringEscapes(text, j, quote)
      <4>1. S(j) = S(j + 1)
        BY <3>4, StringEndStep
      <4>2. j + 1 \in 1 .. Len(text)
        BY <2>0, <3>4, CharBeforeEnd DEF StringFails
      <4> HIDE DEF S
      <4>3. Stops(j + 1)
        BY <1>0, <2>0, <2>1, <4>2
      <4> QED  BY <1>0, <2>0, <4>1, <4>2, <4>3
    <3> QED  BY <3>1, <3>2, <3>3, <3>4
  <2> QED  BY <2>2
<1>3. P \subseteq G
  <2> HIDE DEF P, G, m
  <2> QED  BY <1>1, <1>2, MeasureInduction
<1> QED  BY <1>3
-----------------------------------------------------------------------------
\* What a call of tokenizeOne may make of a lexer: it goes forward in the text
\* or fails, and appends at most one token.
Reads(lex, r, text) ==
  /\ r \in Lexers
  /\ r.success = lex.success
  /\ \/ r.result = "CONTINUE" /\ r.at \in lex.at + 1 .. Len(text) /\ r.errors >= lex.errors
     \/ r.result = "FAIL" /\ r.at \in lex.at .. Len(text) /\ r.errors = lex.errors + 1
     \/ /\ r.result = "DONE" /\ r.at = Len(text) + 1 /\ r.errors = lex.errors
        /\ r.tokens = Append(lex.tokens, "TOKEOF")
  /\ r.tokens = lex.tokens \/ \E type \in TokenTypes : r.tokens = Append(lex.tokens, type)

\* Each of the functions that tokenizeOne calls reads (from here to BeforeEqualsReads).
LEMMA EmitReads ==
  ASSUME NEW text, ZeroEnded(text), NEW lex \in Lexers, NEW type \in TokenTypes,
         NEW next \in lex.at + 1 .. Len(text)
  PROVE  Reads(lex, Emit(lex, type, next), text)
<1>1. lex.at \in Nat \ {0} /\ Len(text) \in Nat /\ next \in Nat \ {0}
  BY DEF Lexers, ZeroEnded
<1>2. Append(lex.tokens, type) \in Seq(TokenTypes)
  BY DEF Lexers
<1>3. Emit(lex, type, next) \in Lexers
  BY <1>1, <1>2 DEF Emit, Lexers
<1> QED  BY <1>1, <1>3 DEF Emit, Reads, Lexers

LEMMA FailReads ==
  ASSUME NEW text, ZeroEnded(text), NEW lex \in Lexers, NEW type \in TokenTypes,
         NEW i \in lex.at .. Len(text)
  PROVE  Reads(lex, Fail(lex, type, i), text)
<1>1. lex.at \in Nat \ {0} /\ Len(text) \in Nat /\ i \in Nat \ {0}
        /\ lex.errors \in Nat /\ lex.errors + 1 \in Nat
  BY DEF Lexers, ZeroEnded
<1>2. Append(lex.tokens, type) \in Seq(TokenTypes)
  BY DEF Lexers
<1>3. Fail(lex, type, i) \in Lexers
  BY <1>1, <1>2 DEF Fail, Lexers
<1> QED  BY <1>1, <1>3 DEF Fail, Reads, Lexers

LEMMA StringReads ==
  ASSUME NEW text, ZeroEnded(text), NEW lex \in Lexers,
         NEW i \in lex.at .. Len(text), text[i] \in Quotes
  PROVE  Reads(lex, LexString(lex, text, i), text)
<1> DEFINE quote == text[i]
           multiline == i + 3 <= Len(text) /\ Tripled(text, i, quote)
           from == IF multiline THEN i + 3 ELSE i + 1
           end == StringEnd(text, from, multiline, quote)
           type == IF quote = "'" THEN "STRING" ELSE "DOUBLE_QUOTED"
<1>1. lex.at \in Nat \ {0} /\ Len(text) \in Nat /\ i \in Nat \ {0} /\ Char(text, i) = text[i]
  BY DEF Lexers, ZeroEnded, Char
<1>2. i + 1 \in 1 .. Len(text)
  BY <1>1, CharBeforeEnd DEF Quotes
<1>3. from \in i + 1 .. Len(text) /\ multiline \in BOOLEAN
  BY <1>1, <1>2
<1>4. type \in TokenTypes
  BY DEF TokenTypes
<1>5. LexString(lex, text, i) = IF end.closed THEN Emit(lex, type, end.at)
                                ELSE Fail(lex, type, end.at)
  BY DEF LexString
<1> HIDE DEF multiline, from, type
<1>6. \/ end.closed = TRUE /\ end.at \in from + 1 .. Len(text)
      \/ end.closed = FALSE /\ end.at \in from .. Len(text)
  <2>1. from \in 1 .. Len(text) /\ quote \in Quotes
    BY <1>1, <1>3
  <2>2. multiline = TRUE \/ multiline = FALSE
    BY <1>3
  <2> HIDE DEF quote
  <2>3. CASE multiline = TRUE
    BY <2>1, <2>3, StringEndStops
  <2>4. CASE multiline = FALSE
    BY <2>1, <2>4, StringEndStops
  <2> QED  BY <2>2, <2>3, <2>4
<1> HIDE DEF end
<1>7. end.at \in lex.at + 1 .. Len(text)
  BY <1>1, <1>3, <1>6
<1>8. end.at \in lex.at .. Len(text)
  BY <1>1, <1>7
<1> QED  BY <1>4, <1>5, <1>6, <1>7, <1>8, EmitReads, FailReads

LEMMA IdentifierReads ==
  ASSUME NEW text, ZeroEnded(text), NEW lex \in Lexers,
         NEW i \in lex.at .. Len(text), text[i] \in Words
  PROVE  Reads(lex, LexIdentifier(lex, text, i), text)
<1> DEFINE end == SkipOver(text, i, Words \cup Digits)
           type == IF end = i + 1 /\ text[i] \in DOMAIN Keywords
                   THEN Keywords[text[i]] ELSE "IDENTIFIER"
<1>1. lex.at \in Nat \ {0} /\ Len(text) \in Nat /\ i \in Nat \ {0}
  BY DEF Lexers, ZeroEnded
<1>2. end \in i .. Len(text) /\ text[end] \notin Words \cup Digits
  <2>1. "NUL" \notin Words \cup Digits
    BY Enders
  <2> QED  BY <1>1, <2>1, SkipOverStops
<1>3. end \in lex.at + 1 .. Len(text)
  <2>1. end # i
    BY <1>2
  <2> HIDE DEF end
  <2> QED  BY <1>1, <1>2, <2>1
<1>4. type \in TokenTypes
  <2>1. "IDENTIFIER" \in TokenTypes
    BY DEF TokenTypes
  <2> QED  BY <2>1, TypesOfTokens
<1>5. LexIdentifier(lex, text, i) = Emit(lex, type, end)
  BY DEF LexIdentifier
<1> HIDE DEF type, end
<1> QED  BY <1>3, <1>4, <1>5, EmitReads

LEMMA NumberReads ==
  ASSUME NEW text, ZeroEnded(text), NEW lex \in Lexers,
         NEW i \in lex.at .. Len(text), text[i] \in Digits
  PROVE  Reads(lex, LexNumber(lex, text, i), text)
<1>1. lex.at \in Nat \ {0} /\ Len(text) \in Nat /\ i \in Nat \ {0} /\ i + 1 \in Nat \ {0}
        /\ Char(text, i) = text[i] /\ "NUMBER" \in TokenTypes /\ "NUL" \notin Digits
  BY DEF Lexers, ZeroEnded, Char, TokenTypes, Digits
<1>2. i + 1 \in 1 .. Len(text)
  BY <1>1, CharBeforeEnd
<1>3. CASE text[i] = "0" /\ Char(text, i + 1) = "b"
  <2> DEFINE end == SkipOver(text, i + 2, Digits)
             r == Emit(lex, "NUMBER", end)
             errors == IF end = i + 2 THEN r.errors + 1 ELSE r.errors
  <2>1. i + 1 + 1 \in 1 .. Len(text)
    BY <1>1, <1>3, CharBeforeEnd
  <2>2. end \in i + 2 .. Len(text)
    BY <1>1, <2>1, SkipOverStops
  <2>3. LexNumber(lex, text, i) = [r EXCEPT !.errors = errors]
    BY <1>3 DEF LexNumber
  <2> HIDE DEF end
  <2>4. Reads(lex, r, text)
    BY <1>1, <2>2, EmitReads
  <2>5. r.result = "CONTINUE" /\ r.errors \in Nat /\ lex.errors \in Nat
    BY <2>4 DEF Emit, Reads, Lexers
  <2>6. errors \in Nat /\ errors >= r.errors
    BY <2>5
  <2>7. r \in Lexers /\ r.errors >= lex.errors /\ errors >= lex.errors
    BY <2>4, <2>5, <2>6 DEF Reads
  <2> HIDE DEF r, errors
  <2> DEFINE q == [r EXCEPT !.errors = errors]
  <2>8. /\ q \in Lexers /\ q.errors = errors /\ q.success = r.success
        /\ q.result = r.result /\ q.at = r.at /\ q.tokens = r.tokens
    BY <2>6, <2>7 DEF Lexers
  <2> HIDE DEF q
  <2>9. Reads(lex, q, text)
    BY <2>4, <2>5, <2>7, <2>8 DEF Reads
  <2> QED  BY <2>3, <2>9 DEF q
<1>4. CASE text[i] = "0" /\ Char(text, i + 1) # "b"
  <2>1. LexNumber(lex, text, i) = Emit(lex, "NUMBER", i + 1)
    BY <1>4 DEF LexNumber
  <2>2. i + 1 \in lex.at + 1 .. Len(text)
    BY <1>1, <1>2
  <2> QED  BY <1>1, <2>1, <2>2, EmitReads
<1>5. CASE text[i] # "0"
  <2> DEFINE end == SkipOver(text, i, Digits)
  <2>1. LexNumber(lex, text, i) = Emit(lex, "NUMBER", end)
    BY <1>5 DEF LexNumber
  <2>2. end \in i .. Len(text) /\ text[end] \notin Digits
    BY <1>1, <1>2, SkipOverStops
  <2>3. end # i
    BY <2>2
  <2> HIDE DEF end
  <2>4. end \in lex.at + 1 .. Len(text)
    BY <1>1, <2>2, <2>3
  <2> QED  BY <1>1, <2>1, <2>4, EmitReads
<1> QED  BY <1>3, <1>4, <1>5

LEMMA NewlineReads ==
  ASSUME NEW text, ZeroEnded(text), NEW lex \in Lexers,
         NEW i \in lex.at .. Len(text), text[i] = "\n"
  PROVE  Reads(lex, LexNewline(lex, i), text)
<1>1. lex.at \in Nat \ {0} /\ Len(text) \in Nat /\ i \in Nat \ {0} /\ i + 1 \in Nat \ {0}
        /\ Char(text, i) = text[i] /\ "EOL" \in TokenTypes
  BY DEF Lexers, ZeroEnded, Char, TokenTypes
<1>2. i + 1 \in 1 .. Len(text)
  BY <1>1, CharBeforeEnd
<1>3. i + 1 \in lex.at + 1 .. Len(text)
  BY <1>1, <1>2
<1>4. Reads(lex, Emit(lex, "EOL", i + 1), text)
  BY <1>1, <1>3, EmitReads
<1> DEFINE q == [lex EXCEPT !.at = i + 1, !.result = "CONTINUE"]
<1>5. Reads(lex, q, text)
  <2>1. q \in Lexers
    BY <1>1 DEF Lexers
  <2>2. /\ q.at = i + 1 /\ q.tokens = lex.tokens /\ q.result = "CONTINUE"
        /\ q.errors = lex.errors /\ q.success = lex.success /\ lex.errors \in Nat
    BY DEF Lexers
  <2> HIDE DEF q
  <2> QED  BY <1>3, <2>1, <2>2 DEF Reads
<1> QED  BY <1>4, <1>5 DEF LexNewline

\* What is done to the count of open brackets does not matter to the rest.
LEMMA BracketReads ==
  ASSUME NEW text, ZeroEnded(text), NEW lex \in Lexers, NEW type \in TokenTypes,
         NEW next \in lex.at + 1 .. Len(text), NEW open \in [DOMAIN Opening -> Nat]
  PROVE  Reads(lex, Emit([lex EXCEPT !.open = open], type, next), text)
<1> DEFINE q == [lex EXCEPT !.open = open]
<1>1. /\ q \in Lexers /\ q.at = lex.at /\ q.tokens = lex.tokens
      /\ q.errors = lex.errors /\ q.success = lex.success
  BY DEF Lexers
<1> HIDE DEF q
<1>2. Reads(q, Emit(q, type, next), text)
  BY <1>1, EmitReads
<1>3. Reads(lex, Emit(q, type, next), text)
  BY <1>1, <1>2 DEF Reads
<1> QED  BY <1>3 DEF q

LEMMA OpeningReads ==
  ASSUME NEW text, ZeroEnded(text), NEW lex \in Lexers,
         NEW i \in lex.at .. Len(text), text[i] \in DOMAIN Opening
  PROVE  Reads(lex, Emit([lex EXCEPT !.open[text[i]] = @ + 1], Opening[text[i]], i + 1), text)
<1>1. lex.at \in Nat \ {0} /\ Len(text) \in Nat /\ i \in Nat \ {0} /\ Char(text, i) = text[i]
  BY DEF Lexers, ZeroEnded, Char
<1>2. i + 1 \in 1 .. Len(text)
  BY <1>1, CharBeforeEnd, Enders
<1>3. i + 1 \in lex.at + 1 .. Len(text)
  BY <1>1, <1>2
<1> DEFINE open == [lex.open EXCEPT ![text[i]] = @ + 1]
<1>4. open \in [DOMAIN Opening -> Nat]
  BY DEF Lexers
<1>5. [lex EXCEPT !.open[text[i]] = @ + 1] = [lex EXCEPT !.open = open]
  BY DEF Lexers
<1>6. Opening[text[i]] \in TokenTypes
  BY TypesOfTokens
<1> HIDE DEF open
<1> QED  BY <1>3, <1>4, <1>5, <1>6, BracketReads

LEMMA ClosingReads ==
  ASSUME NEW text, ZeroEnded(text), NEW lex \in Lexers,
         NEW i \in lex.at .. Len(text), text[i] \in DOMAIN Closing
  PROVE  Reads(lex, LexClosing(lex, text[i], i), text)
<1> DEFINE bracket == Opens[text[i]]
           open == [lex.open EXCEPT ![bracket] = @ - 1]
<1>1. lex.at \in Nat \ {0} /\ Len(text) \in Nat /\ i \in Nat \ {0} /\ Char(text, i) = text[i]
        /\ "INVALID" \in TokenTypes
  BY DEF Lexers, ZeroEnded, Char, TokenTypes
<1>2. i + 1 \in 1 .. Len(text)
  BY <1>1, CharBeforeEnd, Enders
<1>3. i + 1 \in lex.at + 1 .. Len(text)
  BY <1>1, <1>2
<1>4. bracket \in DOMAIN Opening /\ Closing[text[i]] \in TokenTypes
  BY TypesOfTokens
<1>5. CASE lex.open[bracket] = 0
  BY <1>1, <1>5, FailReads DEF LexClosing
<1>6. CASE lex.open[bracket] # 0
  <2> HIDE DEF bracket
  <2>1. open \in [DOMAIN Opening -> Nat]
    BY <1>4, <1>6 DEF Lexers
  <2>2. [lex EXCEPT !.open[bracket] = @ - 1] = [lex EXCEPT !.open = open]
    BY <1>4 DEF Lexers
  <2>3. LexClosing(lex, text[i], i)
          = Emit([lex EXCEPT !.open[bracket] = @ - 1], Closing[text[i]], i + 1)
    BY <1>6 DEF LexClosing, bracket
  <2> HIDE DEF open
  <2> QED  BY <1>3, <1>4, <2>1, <2>2, <2>3, BracketReads
<1> QED  BY <1>5, <1>6

LEMMA BeforeEqualsReads ==
  ASSUME NEW text, ZeroEnded(text), NEW lex \in Lexers,
         NEW i \in lex.at .. Len(text), text[i] \in DOMAIN BeforeEquals
  PROVE  Reads(lex, LexBeforeEquals(lex, text, i), text)
<1> DEFINE types == BeforeEquals[text[i]]
<1>1. lex.at \in Nat \ {0} /\ Len(text) \in Nat /\ i \in Nat \ {0} /\ i + 1 \in Nat \ {0}
        /\ Char(text, i) = text[i] /\ "INVALID" \in TokenTypes
  BY DEF Lexers, ZeroEnded, Char, TokenTypes
<1>2. i + 1 \in 1 .. Len(text)
  BY <1>1, CharBeforeEnd, Enders
<1>3. i + 1 \in lex.at + 1 .. Len(text)
  BY <1>1, <1>2
<1>4. types[1] \in TokenTypes /\ types[2] \in TokenTypes
  BY TypesOfTokens
<1>5. CASE Char(text, i + 1) = "="
  <2>1. i + 1 + 1 \in 1 .. Len(text)
    BY <1>1, <1>5, CharBeforeEnd
  <2>2. i + 2 \in lex.at + 1 .. Len(text)
    BY <1>1, <2>1
  <2>3. LexBeforeEquals(lex, text, i) = Emit(lex, types[2], i + 2)
    BY <1>5 DEF LexBeforeEquals
  <2> QED  BY <1>4, <2>2, <2>3, EmitReads
<1>6. CASE types[1] = "INVALID" /\ Char(text, i + 1) # "="
  <2>1. LexBeforeEquals(lex, text, i) = Fail(lex, "INVALID", i)
    BY <1>6 DEF LexBeforeEquals
  <2> QED  BY <1>1, <2>1, FailReads
<1>7. CASE types[1] # "INVALID" /\ Char(text, i + 1) # "="
  <2>1. LexBeforeEquals(lex, text, i) = Emit(lex, types[1], i + 1)
    BY <1>7 DEF LexBeforeEquals
  <2> QED  BY <1>3, <1>4, <2>1, EmitReads
<1> QED  BY <1>5, <1>6, <1>7

StartsFString(text, i) == text[i] = "f" /\ Char(text, i + 1) \in Quotes

\* What tokenizeOne makes of a token at i; one of the branches applies.
Branches(T, lex, text, i) ==
  LET chr == text[i]
  IN  /\ chr \in Quotes => T = LexString(lex, text, i)
      /\ StartsFString(text, i) => T = LexString(lex, text, i + 1)
      /\ chr \in Words /\ ~StartsFString(text, i) => T = LexIdentifier(lex, text, i)
      /\ chr \in Digits => T = LexNumber(lex, text, i)
      /\ chr = "\n" => T = LexNewline(lex, i)
      /\ chr \in DOMAIN Opening =>
           T = Emit([lex EXCEPT !.open[chr] = @ + 1], Opening[chr], i + 1)
      /\ chr \in DOMAIN Closing => T = LexClosing(lex, chr, i)
      /\ chr \in DOMAIN Punctuation => T = Emit(lex, Punctuation[chr], i + 1)
      /\ chr \in DOMAIN BeforeEquals => T = LexBeforeEquals(lex, text, i)
      /\ chr = "NUL" /\ i = Len(text) =>
           T = [Emit(lex, "TOKEOF", i + 1) EXCEPT !.result = "DONE"]
      /\ \/ chr \in Quotes \/ StartsFString(text, i) \/ chr \in Words
         \/ chr \in Digits \/ chr = "\n" \/ chr \in DOMAIN Opening
         \/ chr \in DOMAIN Closing \/ chr \in DOMAIN Punctuation
         \/ chr \in DOMAIN BeforeEquals \/ (chr = "NUL" /\ i = Len(text))
         \/ T = Fail(lex, "INVALID", i)

\* The branches of tokenizeOne exclude each other.
LEMMA TokenizeOneCases ==
  ASSUME NEW text, ZeroEnded(text), NEW lex \in Lexers, lex.at <= Len(text),
         NEW i, i = TokenStart(text, lex.at)
  PROVE  Branches(TokenizeOne(lex, text), lex, text, i)
<1> DEFINE chr == text[i]
           fstring == StartsFString(text, i)
           word == chr \in Words /\ ~fstring
           last == chr = "NUL" /\ i = Len(text)
           T == TokenizeOne(lex, text)
<1>1. lex.at \in 1 .. Len(text) /\ lex.at \in Nat \ {0} /\ Len(text) \in Nat
  BY DEF Lexers, ZeroEnded
<1>2. i \in lex.at .. Len(text)
  BY <1>1, TokenStartStops
<1>3. i \in Nat \ {0} /\ i + 1 \in Nat \ {0} /\ i + 1 >= lex.at /\ Char(text, i) = chr
  BY <1>1, <1>2 DEF Char
<1>4. T = CASE chr \in Quotes -> LexString(lex, text, i)
            [] fstring -> LexString(lex, text, i + 1)
            [] word -> LexIdentifier(lex, text, i)
            [] chr \in Digits -> LexNumber(lex, text, i)
            [] chr = "\n" -> LexNewline(lex, i)
            [] chr \in DOMAIN Opening ->
                 Emit([lex EXCEPT !.open[chr] = @ + 1], Opening[chr], i + 1)
            [] chr \in DOMAIN Closing -> LexClosing(lex, chr, i)
            [] chr \in DOMAIN Punctuation -> Emit(lex, Punctuation[chr], i + 1)
            [] chr \in DOMAIN BeforeEquals -> LexBeforeEquals(lex, text, i)
            [] last -> [Emit(lex, "TOKEOF", i + 1) EXCEPT !.result = "DONE"]
            [] OTHER -> Fail(lex, "INVALID", i)
  BY <1>3 DEF TokenizeOne, StartsFString
<1> HIDE DEF T
<1>5. /\ fstring => chr = "f"
      /\ last => chr = "NUL"
      /\ word => chr \in Words /\ ~fstring
      /\ fstring => Char(text, i + 1) \in Quotes
      /\ last => i = Len(text)
  BY DEF StartsFString
<1> HIDE DEF fstring, word, last
<1>6. /\ chr \in Quotes =>
           chr \notin Digits /\ ~fstring /\ ~word /\ chr # "\n" /\ ~last
      /\ fstring => chr \notin Digits /\ chr # "\n" /\ ~last
      /\ word => chr \notin Digits /\ chr # "\n" /\ ~last
      /\ chr \in Digits => chr # "\n" /\ ~last
      /\ chr = "\n" => ~last
  BY <1>5, Alphabet DEF Words, Digits, Quotes
<1>7. \A D \in {DOMAIN Opening, DOMAIN Closing, DOMAIN Punctuation, DOMAIN BeforeEquals} :
        chr \in D => /\ chr \notin Quotes /\ ~fstring /\ ~word /\ chr \notin Digits
                     /\ chr # "\n" /\ ~last
  BY <1>5, Alphabet DEF Words, Digits, Quotes
<1>8. /\ chr \in DOMAIN Opening =>
           /\ chr \notin DOMAIN Closing /\ chr \notin DOMAIN Punctuation
           /\ chr \notin DOMAIN BeforeEquals
      /\ chr \in DOMAIN Closing =>
           chr \notin DOMAIN Punctuation /\ chr \notin DOMAIN BeforeEquals
      /\ chr \in DOMAIN Punctuation => chr \notin DOMAIN BeforeEquals
  BY Alphabet
<1> DEFINE opens == chr \in DOMAIN Opening
           closes == chr \in DOMAIN Closing
           mark == chr \in DOMAIN Punctuation
           before == chr \in DOMAIN BeforeEquals
           quoted == chr \in Quotes
           digit == chr \in Digits
           newline == chr = "\n"
<1>9. /\ quoted => ~fstring /\ ~word /\ ~digit /\ ~newline /\ ~opens /\ ~closes /\ ~mark
                     /\ ~before /\ ~last
      /\ fstring => ~word /\ ~digit /\ ~newline /\ ~opens /\ ~closes /\ ~mark /\ ~before /\ ~last
      /\ word => ~digit /\ ~newline /\ ~opens /\ ~closes /\ ~mark /\ ~before /\ ~last
      /\ digit => ~newline /\ ~opens /\ ~closes /\ ~mark /\ ~before /\ ~last
      /\ newline => ~opens /\ ~closes /\ ~mark /\ ~before /\ ~last
      /\ opens => ~closes /\ ~mark /\ ~before /\ ~last
      /\ closes => ~mark /\ ~before /\ ~last
      /\ mark => ~before /\ ~last
      /\ before => ~last
  BY <1>5, <1>6, <1>7, <1>8
<1> HIDE DEF opens, closes, mark, before, quoted, digit, newline
<1>10. /\ quoted => T = LexString(lex, text, i)
       /\ fstring => T = LexString(lex, text, i + 1)
       /\ word => T = LexIdentifier(lex, text, i)
       /\ digit => T = LexNumber(lex, text, i)
       /\ newline => T = LexNewline(lex, i)
       /\ opens => T = Emit([lex EXCEPT !.open[chr] = @ + 1], Opening[chr], i + 1)
       /\ closes => T = LexClosing(lex, chr, i)
       /\ mark => T = Emit(lex, Punctuation[chr], i + 1)
       /\ before => T = LexBeforeEquals(lex, text, i)
       /\ last => T = [Emit(lex, "TOKEOF", i + 1) EXCEPT !.result = "DONE"]
       /\ \/ quoted \/ fstring \/ word \/ digit \/ newline \/ opens \/ closes \/ mark
          \/ before \/ last \/ T = Fail(lex, "INVALID", i)
  BY <1>4, <1>9 DEF opens, closes, mark, before, quoted, digit, newline
<1>11. word <=> chr \in Words /\ ~fstring
  BY DEF word
<1> QED  BY <1>10, <1>11 DEF Branches, opens, closes, mark, before, quoted, digit, newline,
                              last, fstring, T

\* A call of tokenizeOne reads.
LEMMA TokenizeOneReads ==
  ASSUME NEW text, ZeroEnded(text), NEW lex \in Lexers, lex.at <= Len(text)
  PROVE  Reads(lex, TokenizeOne(lex, text), text)
<1> DEFINE i == TokenStart(text, lex.at)
           chr == text[i]
           T == TokenizeOne(lex, text)
<1>1. lex.at \in 1 .. Len(text) /\ lex.at \in Nat \ {0} /\ Len(text) \in Nat
  BY DEF Lexers, ZeroEnded
<1>2. i \in lex.at .. Len(text)
  BY <1>1, TokenStartStops
<1>3. i \in Nat \ {0} /\ i + 1 \in Nat \ {0} /\ i + 1 >= lex.at /\ Char(text, i) = chr
  BY <1>1, <1>2 DEF Char
<1>4. Branches(T, lex, text, i)
  BY TokenizeOneCases
<1> HIDE DEF i, T
<1>5. chr # "NUL" => i + 1 \in lex.at + 1 .. Len(text) /\ i + 1 \in lex.at .. Len(text)
  <2>1. chr # "NUL" => i + 1 \in 1 .. Len(text)
    BY <1>3, CharBeforeEnd
  <2> QED  BY <1>1, <1>2, <2>1
<1>6. "INVALID" \in TokenTypes /\ "TOKEOF" \in TokenTypes
  BY DEF TokenTypes
<1>7. CASE chr \in Quotes
  BY <1>2, <1>4, <1>7, StringReads DEF Branches, T
<1>8. CASE StartsFString(text, i)
  <2>1. i + 1 \in lex.at .. Len(text) /\ text[i + 1] \in Quotes
    BY <1>1, <1>5, <1>8 DEF Char, StartsFString
  <2> QED  BY <1>4, <1>8, <2>1, StringReads DEF Branches, T
<1>9. CASE chr \in Words /\ ~StartsFString(text, i)
  BY <1>2, <1>4, <1>9, IdentifierReads DEF Branches, T
<1>10. CASE chr \in Digits
  BY <1>2, <1>4, <1>10, NumberReads DEF Branches, T
<1>11. CASE chr = "\n"
  BY <1>2, <1>4, <1>11, NewlineReads DEF Branches, T
<1>12. CASE chr \in DOMAIN Opening
  BY <1>2, <1>4, <1>12, OpeningReads DEF Branches, T
<1>13. CASE chr \in DOMAIN Closing
  BY <1>2, <1>4, <1>13, ClosingReads DEF Branches, T
<1>14. CASE chr \in DOMAIN Punctuation
  <2>1. chr # "NUL" /\ Punctuation[chr] \in TokenTypes
    BY <1>14, TypesOfTokens, Enders
  <2> QED  BY <1>4, <1>5, <1>14, <2>1, EmitReads DEF Branches, T
<1>15. CASE chr \in DOMAIN BeforeEquals
  BY <1>2, <1>4, <1>15, BeforeEqualsReads DEF Branches, T
<1>16. CASE chr = "NUL" /\ i = Len(text)
  <2> DEFINE q == [Emit(lex, "TOKEOF", i + 1) EXCEPT !.result = "DONE"]
  <2>1. T = q
    BY <1>4, <1>16 DEF Branches
  <2>2. Append(lex.tokens, "TOKEOF") \in Seq(TokenTypes)
    BY <1>6 DEF Lexers
  <2>3. /\ q \in Lexers /\ q.at = Len(text) + 1 /\ q.tokens = Append(lex.tokens, "TOKEOF")
        /\ q.result = "DONE" /\ q.errors = lex.errors /\ q.success = lex.success
    BY <1>3, <1>16, <2>2 DEF Emit, Lexers
  <2> HIDE DEF q
  <2>4. Reads(lex, q, text)
    BY <1>6, <2>3 DEF Reads
  <2> QED  BY <2>1, <2>4 DEF T
<1>17. CASE T = Fail(lex, "INVALID", i)
  BY <1>2, <1>6, <1>17, FailReads DEF T
<1> QED  BY <1>4, <1>7, <1>8, <1>9, <1>10, <1>11, <1>12, <1>13, <1>14, <1>15, <1>16, <1>17
            DEF Branches, T

-----------------------------------------------------------------------------
\* What a round of the loop may make of a lexer.
Advances(lex, r, text) ==
  /\ r \in Lexers
  /\ r.at \in lex.at + 1 .. Len(text) + 1
  /\ \/ /\ r.result = "CONTINUE" /\ r.at <= Len(text)
        /\ r.success = lex.success /\ r.errors >= lex.errors
     \/ r.result = "FAIL" /\ r.success = FALSE /\ r.errors = lex.errors + 1
     \/ /\ r.result = "DONE" /\ r.tokens = Append(lex.tokens, "TOKEOF")
        /\ r.success = lex.success /\ r.errors = lex.errors
  /\ r.tokens = lex.tokens \/ \E type \in TokenTypes : r.tokens = Append(lex.tokens, type)

\* A round of the loop goes forward, also after a failure.
LEMMA RoundAdvances ==
  ASSUME NEW text, ZeroEnded(text), NEW lex \in Lexers, ~Ended(lex, text)
  PROVE  Advances(lex, Round(lex, text), text)
<1> DEFINE r == TokenizeOne(lex, text)
           q == [r EXCEPT !.at = r.at + 1, !.success = FALSE]
<1>1. lex.at \in Nat /\ Len(text) \in Nat /\ lex.at <= Len(text) /\ lex.errors \in Nat
  BY DEF Lexers, ZeroEnded, Ended
<1>2. Reads(lex, r, text)
  BY <1>1, TokenizeOneReads
<1>3. Round(lex, text) = IF r.result = "FAIL" THEN q ELSE r
  BY DEF Round
<1> HIDE DEF r
<1>4. r \in Lexers /\ r.at \in Nat \ {0} /\ r.at + 1 \in Nat \ {0}
  BY <1>2 DEF Reads, Lexers
<1>5. CASE r.result = "FAIL"
  <2>1. q \in Lexers
    BY <1>4 DEF Lexers
  <2>2. /\ q.at = r.at + 1 /\ q.success = FALSE /\ q.tokens = r.tokens
        /\ q.result = r.result /\ q.errors = r.errors
    BY <1>4 DEF Lexers
  <2> HIDE DEF q
  <2>3. r.at \in lex.at .. Len(text) /\ r.errors = lex.errors + 1
    BY <1>2, <1>5 DEF Reads
  <2>4. q.at \in lex.at + 1 .. Len(text) + 1
    BY <1>1, <1>4, <2>2, <2>3
  <2>5. Advances(lex, q, text)
    BY <1>2, <1>5, <2>1, <2>2, <2>3, <2>4 DEF Advances, Reads
  <2> QED  BY <1>3, <1>5, <2>5
<1>6. CASE r.result # "FAIL"
  <2>1. r.at \in lex.at + 1 .. Len(text) + 1 /\ (r.result = "CONTINUE" => r.at <= Len(text))
    BY <1>1, <1>2, <1>6 DEF Reads
  <2>2. Advances(lex, r, text)
    BY <1>2, <1>6, <2>1 DEF Advances, Reads
  <2> QED  BY <1>3, <1>6, <2>2
<1> QED  BY <1>5, <1>6

\* The loop of tokenize: how far it still is from the end of the text.
ToGo(text) == [lex \in Lexers |-> IF lex.at > Len(text) THEN 0 ELSE Len(text) + 1 - lex.at]

\* ToGo is a measure of the loop.
LEMMA ToGoFalls ==
  ASSUME NEW text, ZeroEnded(text)
  PROVE  /\ ToGo(text) \in [Lexers -> Nat]
         /\ \A lex \in Lexers : ~Ended(lex, text) =>
               /\ Round(lex, text) \in Lexers
               /\ ToGo(text)[Round(lex, text)] < ToGo(text)[lex]
<1>1. Len(text) \in Nat /\ \A lex \in Lexers : lex.at \in Nat
  BY DEF ZeroEnded, Lexers
<1>2. ToGo(text) \in [Lexers -> Nat]
  BY <1>1 DEF ToGo
<1>3. ASSUME NEW lex \in Lexers, ~Ended(lex, text)
      PROVE  /\ Round(lex, text) \in Lexers
             /\ ToGo(text)[Round(lex, text)] < ToGo(text)[lex]
  <2> DEFINE r == Round(lex, text)
  <2>1. r \in Lexers /\ r.at \in lex.at + 1 .. Len(text) + 1
    BY <1>3, RoundAdvances DEF Advances
  <2>2. lex.at <= Len(text)
    BY <1>1, <1>3 DEF Ended
  <2> HIDE DEF r
  <2>3. ToGo(text)[r] < ToGo(text)[lex]
    BY <1>1, <2>1, <2>2 DEF ToGo
  <2> QED  BY <2>1, <2>3 DEF r
<1> QED  BY <1>2, <1>3

\* The recursion of Tokenize has a solution.
LEMMA TokenizeStep ==
  ASSUME NEW text, ZeroEnded(text), NEW lex \in Lexers
  PROVE  /\ Tokenize(lex, text) \in Lexers
         /\ Ended(lex, text) => Tokenize(lex, text) = lex
         /\ ~Ended(lex, text) => Tokenize(lex, text) = Tokenize(Round(lex, text), text)
<1> DEFINE stop == {l \in Lexers : Ended(l, text)}
           value == [l \in Lexers |-> l]
           next == [l \in Lexers |-> Round(l, text)]
           From(f) == [l \in Lexers |-> IF Ended(l, text) THEN l ELSE f[Round(l, text)]]
<1>1. Decreasing(Lexers, Lexers, stop, value, next, ToGo(text))
  BY ToGoFalls DEF Decreasing
<1>2. PICK g : Solution(g, Lexers, Lexers, stop, value, next)
  <2> HIDE DEF stop, value, next
  <2> QED  BY <1>1, RecursionExists
<1>3. g = From(g)
  <2>1. \A l \in Lexers : g[l] = IF Ended(l, text) THEN l ELSE g[Round(l, text)]
    BY <1>2 DEF Solution
  <2>2. g = [l \in Lexers |-> g[l]]
    BY <1>2 DEF Solution
  <2> QED  BY <2>1, <2>2
<1> DEFINE from == CHOOSE f : f = From(f)
<1>4. from = From(from)
  <2> HIDE DEF From
  <2> QED  BY <1>3
<1>5. \A l \in Lexers : Tokenize(l, text) = from[l]
  BY DEF Tokenize
<1>6. \A l \in Lexers : from[l] = From(from)[l]
  <2> HIDE DEF from, From
  <2> QED  BY <1>4
<1> HIDE DEF from
<1>7. \A l \in Lexers : from[l] = IF l \in stop THEN value[l] ELSE from[next[l]]
  BY <1>6
<1>8. \A l \in Lexers : from[l] \in Lexers
  <2> HIDE DEF stop, value, next
  <2>1. \A l \in Lexers : from[l] = g[l]
    BY <1>1, <1>2, <1>7, RecursionUnique
  <2> QED  BY <1>2, <2>1 DEF Solution
<1>9. ~Ended(lex, text) => Round(lex, text) \in Lexers
  BY ToGoFalls
<1> QED  BY <1>5, <1>6, <1>8, <1>9

\* What every round keeps holds at the end.
LEMMA TokenizeKeeps ==
  ASSUME NEW text, ZeroEnded(text), NEW G, G \subseteq Lexers,
         \A lex \in G : ~Ended(lex, text) => Round(lex, text) \in G,
         NEW lex \in G
  PROVE  Tokenize(lex, text) \in G /\ Ended(Tokenize(lex, text), text)
<1> DEFINE Good(l) == l \in G => Tokenize(l, text) \in G /\ Ended(Tokenize(l, text), text)
           H == {l \in Lexers : Good(l)}
<1>1. ASSUME NEW l \in Lexers, \A k \in Lexers : ToGo(text)[k] < ToGo(text)[l] => k \in H
      PROVE  l \in H
  <2> SUFFICES ASSUME l \in G
               PROVE  Tokenize(l, text) \in G /\ Ended(Tokenize(l, text), text)
    OBVIOUS
  <2>1. CASE Ended(l, text)
    BY <2>1, TokenizeStep
  <2>2. CASE ~Ended(l, text)
    <3>1. Round(l, text) \in Lexers /\ ToGo(text)[Round(l, text)] < ToGo(text)[l]
      BY <2>2, ToGoFalls
    <3>2. Round(l, text) \in H /\ Round(l, text) \in G
      BY <1>1, <2>2, <3>1
    <3>3. Tokenize(l, text) = Tokenize(Round(l, text), text)
      BY <2>2, TokenizeStep
    <3> QED  BY <3>2, <3>3
  <2> QED  BY <2>1, <2>2
<1>2. Lexers \subseteq H
  <2> HIDE DEF H
  <2> QED  BY <1>1, ToGoFalls, MeasureInduction
<1> QED  BY <1>2
-----------------------------------------------------------------------------
\* What the constructor does.
LEMMA NewLexerOfBuffer ==
  ASSUME NEW C, NEW text \in Seq(C)
  PROVE  ZeroEnded(Append(text, "NUL")) /\ NewLexer \in Lexers
<1>1. ZeroEnded(Append(text, "NUL"))
  BY DEF ZeroEnded
<1>2. <<>> \in Seq(TokenTypes)
  OBVIOUS
<1>3. NewLexer \in Lexers
  BY <1>2 DEF NewLexer, Lexers
<1> QED  BY <1>1, <1>3

\* For every text: the loop of tokenize (lexer.cpp:637) ends.
THEOREM LexEnds ==
  ASSUME NEW C, NEW text \in Seq(C)
  PROVE  Lex(text) \in Lexers /\ Ended(Lex(text), Append(text, "NUL"))
<1> DEFINE t == Append(text, "NUL")
<1>1. ZeroEnded(t) /\ NewLexer \in Lexers
  BY NewLexerOfBuffer
<1> HIDE DEF t
<1>2. \A lex \in Lexers : ~Ended(lex, t) => Round(lex, t) \in Lexers
  BY <1>1, ToGoFalls
<1>3. Tokenize(NewLexer, t) \in Lexers /\ Ended(Tokenize(NewLexer, t), t)
  BY <1>1, <1>2, TokenizeKeeps
<1> QED  BY <1>3 DEF Lex, t

EndsInEof(lex) == lex.tokens # <<>> /\ lex.tokens[Len(lex.tokens)] = "TOKEOF"

\* When the loop is over in one of these, the lexer failed or ends with TOKEOF,
\* and every failure is counted.
Accountable(text) ==
  {lex \in Lexers :
     /\ lex.result = "DONE" => EndsInEof(lex)
     /\ lex.at > Len(text) => lex.result = "DONE" \/ lex.success = FALSE
     /\ lex.success = FALSE => lex.errors > 0}

\* A round keeps the lexer accountable.
LEMMA RoundAccountable ==
  ASSUME NEW text, ZeroEnded(text), NEW lex \in Accountable(text), ~Ended(lex, text)
  PROVE  Round(lex, text) \in Accountable(text)
<1> DEFINE r == Round(lex, text)
<1>1. lex \in Lexers /\ lex.errors \in Nat /\ lex.tokens \in Seq(TokenTypes)
        /\ Len(text) \in Nat
  BY DEF Accountable, Lexers, ZeroEnded
<1>2. Advances(lex, r, text)
  BY <1>1, RoundAdvances
<1> HIDE DEF r
<1>3. r \in Lexers /\ r.at \in Nat /\ r.errors \in Nat
  BY <1>2 DEF Advances, Lexers
<1>4. r.result = "DONE" => EndsInEof(r)
  <2> SUFFICES ASSUME r.result = "DONE"  PROVE EndsInEof(r)
    OBVIOUS
  <2>1. r.tokens = Append(lex.tokens, "TOKEOF")
    BY <1>2 DEF Advances
  <2> QED  BY <1>1, <2>1 DEF EndsInEof
<1>5. r.at > Len(text) => r.result = "DONE" \/ r.success = FALSE
  BY <1>1, <1>2, <1>3 DEF Advances
<1>6. r.success = FALSE => r.errors > 0
  BY <1>1, <1>2, <1>3 DEF Advances, Accountable
<1> QED  BY <1>3, <1>4, <1>5, <1>6 DEF Accountable, r

\* For every text: a lexer that reports success ends with TOKEOF (the assertion
\* at the end of Lexer::tokenize), and one that does not has reported an error.
THEOREM LexSucceedsOrReports ==
  ASSUME NEW C, NEW text \in Seq(C)
  PROVE  IF Lex(text).success THEN EndsInEof(Lex(text)) ELSE Lex(text).errors > 0
<1> DEFINE t == Append(text, "NUL")
           lex == Tokenize(NewLexer, t)
<1>1. ZeroEnded(t) /\ NewLexer \in Lexers
  BY NewLexerOfBuffer
<1> HIDE DEF t
<1>2. NewLexer \in Accountable(t)
  BY <1>1 DEF Accountable, NewLexer, ZeroEnded
<1>3. Accountable(t) \subseteq Lexers
  BY DEF Accountable
<1>4. lex \in Accountable(t) /\ Ended(lex, t)
  BY <1>1, <1>2, <1>3, RoundAccountable, TokenizeKeeps
<1> HIDE DEF lex
<1>5. lex.success = TRUE \/ lex.success = FALSE
  BY <1>3, <1>4 DEF Lexers
<1>6. lex.success = TRUE => EndsInEof(lex)
  BY <1>4, <1>5 DEF Accountable, Ended
<1>7. lex.success = FALSE => lex.errors > 0
  BY <1>4 DEF Accountable
<1>8. Lex(text) = lex
  BY DEF Lex, lex, t
<1> QED  BY <1>5, <1>6, <1>7, <1>8

-----------------------------------------------------------------------------
\* What lexed can be: nothing, or the lexers of the text and of its parts.
LexersOf(text) ==
  [i \in {j \in DOMAIN text : text[j] = "\n"} \cup {Len(text)} |-> Lex(SubSeq(text, 1, i))]

LexedInv ==
  /\ buffer \in Seq(Characters)
  /\ lexed \in {Unlexed, LexersOf(buffer)}

\* The first characters of a text.
LEMMA PartsAreTexts ==
  ASSUME NEW C, NEW text \in Seq(C), NEW i \in 0 .. Len(text)
  PROVE  /\ SubSeq(text, 1, i) \in Seq(C)
         /\ Len(SubSeq(text, 1, i)) = i
         /\ \A k \in 1 .. i : SubSeq(text, 1, i)[k] = text[k]
<1>1. Len(text) \in Nat /\ i \in Int /\ 1 \in Int
  OBVIOUS
<1>2. \A k \in 1 .. i : text[k] \in C
  BY <1>1, ElementOfSeq
<1>3. /\ SubSeq(text, 1, i) \in Seq(C)
      /\ Len(SubSeq(text, 1, i)) = IF 1 <= i THEN i - 1 + 1 ELSE 0
      /\ \A k \in 1 .. i - 1 + 1 : SubSeq(text, 1, i)[k] = text[1 + k - 1]
  BY <1>1, <1>2, SubSeqProperties
<1> QED  BY <1>1, <1>3

\* An edit makes a text of a text.
LEMMA EditsKeepTexts ==
  ASSUME buffer \in Seq(Characters), Edit
  PROVE  buffer' \in Seq(Characters) /\ lexed' = Unlexed
<1>1. Len(buffer) \in Nat /\ DOMAIN buffer = 1 .. Len(buffer)
        /\ \A k \in 1 .. Len(buffer) : buffer[k] \in Characters
  BY LenProperties, ElementOfSeq
<1>2. \A m, n \in 0 .. Len(buffer) + 1 : m >= 1 /\ n <= Len(buffer)
         => SubSeq(buffer, m, n) \in Seq(Characters)
  <2> TAKE m, n \in 0 .. Len(buffer) + 1
  <2> HAVE m >= 1 /\ n <= Len(buffer)
  <2>1. \A k \in m .. n : buffer[k] \in Characters
    BY <1>1
  <2> QED  BY <1>1, <2>1, SubSeqProperties
<1>3. ASSUME NEW i \in 1 .. Len(buffer) + 1, NEW c \in Characters, Insert(i, c)
      PROVE  buffer' \in Seq(Characters) /\ lexed' = Unlexed
  <2>1. SubSeq(buffer, 1, i - 1) \in Seq(Characters)
          /\ SubSeq(buffer, i, Len(buffer)) \in Seq(Characters) /\ <<c>> \in Seq(Characters)
    BY <1>1, <1>2
  <2> QED  BY <1>3, <2>1, ConcatProperties DEF Insert
<1>4. ASSUME NEW i \in 1 .. Len(buffer), NEW j \in 1 .. Len(buffer), Erase(i, j)
      PROVE  buffer' \in Seq(Characters) /\ lexed' = Unlexed
  <2>1. SubSeq(buffer, 1, i - 1) \in Seq(Characters)
          /\ SubSeq(buffer, j + 1, Len(buffer)) \in Seq(Characters)
    BY <1>1, <1>2
  <2> QED  BY <1>4, <2>1, ConcatProperties DEF Erase
<1> QED  BY <1>1, <1>3, <1>4 DEF Edit

\* LexedInv is an invariant.
LEMMA BufferKeepsLexed == BufferSpec => []LexedInv
<1>1. BufferInit => LexedInv
  BY DEF BufferInit, LexedInv
<1>2. LexedInv /\ [BufferNext]_bufferVars => LexedInv'
  <2> SUFFICES ASSUME LexedInv, [BufferNext]_bufferVars  PROVE LexedInv'
    OBVIOUS
  <2>1. CASE LexFile
    BY <2>1 DEF LexFile, LexedInv, LexersOf
  <2>2. CASE Edit
    BY <2>2, EditsKeepTexts DEF LexedInv
  <2>3. CASE UNCHANGED bufferVars
    BY <2>3 DEF bufferVars, LexedInv, LexersOf
  <2> QED  BY <2>1, <2>2, <2>3 DEF BufferNext
<1> QED  BY <1>1, <1>2, PTL DEF BufferSpec

\* The domain of lexed.
LEMMA LexedParts ==
  ASSUME LexedInv, NEW i \in DOMAIN lexed
  PROVE  /\ i \in 0 .. Len(buffer) /\ Len(buffer) \in Nat
         /\ lexed = LexersOf(buffer) /\ Len(buffer) \in DOMAIN lexed
         /\ lexed[i] = Lex(SubSeq(buffer, 1, i))
<1>1. Len(buffer) \in Nat /\ DOMAIN buffer = 1 .. Len(buffer)
  BY LenProperties DEF LexedInv
<1>2. DOMAIN Unlexed = {}
  BY DEF Unlexed
<1>3. lexed = LexersOf(buffer)
  BY <1>2 DEF LexedInv
<1> QED  BY <1>1, <1>3 DEF LexersOf

\* Whatever was typed: a lexer that reports success ends with TOKEOF.
THEOREM BufferSuccessEndsInEof == BufferSpec => []SuccessEndsInEof
<1>1. LexedInv => SuccessEndsInEof
  <2> SUFFICES ASSUME LexedInv, NEW i \in DOMAIN lexed, lexed[i].success
               PROVE  EndsInEof(lexed[i])
    BY DEF SuccessEndsInEof, EndsInEof
  <2>1. buffer \in Seq(Characters) /\ i \in 0 .. Len(buffer)
          /\ lexed[i] = Lex(SubSeq(buffer, 1, i))
    BY LexedParts DEF LexedInv
  <2>2. SubSeq(buffer, 1, i) \in Seq(Characters)
    BY <2>1, PartsAreTexts
  <2> QED  BY <2>1, <2>2, LexSucceedsOrReports
<1> QED  BY <1>1, BufferKeepsLexed, PTL

-----------------------------------------------------------------------------
(***************************************************************************)
(* Two texts that are the same up to an end of line: A ends there, B goes  *)
(* on.  What the lexer reads of A without a failure it reads of B too.     *)
(***************************************************************************)
SameLines(A, B, n) ==
  /\ ZeroEnded(A) /\ ZeroEnded(B)
  /\ n \in Nat \ {0} /\ Len(A) = n + 1 /\ Len(B) > n
  /\ A[n] = "\n"
  /\ \A k \in 1 .. n : A[k] = B[k]

\* The characters of the common lines, and one lookahead but after a newline.
LEMMA CharAgree ==
  ASSUME NEW A, NEW B, NEW n, SameLines(A, B, n), NEW i \in 1 .. n
  PROVE  /\ i \in 1 .. Len(A) /\ i \in 1 .. Len(B) /\ i \in Nat \ {0} /\ n \in Nat
         /\ Char(A, i) = A[i] /\ Char(B, i) = A[i] /\ A[i] = B[i]
         /\ A[i] # "\n" => i + 1 \in 1 .. n /\ Char(A, i + 1) = Char(B, i + 1)
BY DEF SameLines, ZeroEnded, Char

\* A run of characters that does not contain a newline ends in the common lines.
LEMMA SkipAgree ==
  ASSUME NEW A, NEW B, NEW n, SameLines(A, B, n), NEW i \in 1 .. n,
         NEW S, "\n" \notin S, "NUL" \notin S
  PROVE  SkipOver(B, i, S) = SkipOver(A, i, S)
<1> DEFINE a == SkipOver(A, i, S)
           b == SkipOver(B, i, S)
<1>1. /\ n \in Nat \ {0} /\ A[n] = "\n" /\ \A k \in 1 .. n : A[k] = B[k]
      /\ Len(A) = n + 1 /\ Len(B) \in Nat /\ i \in 1 .. Len(A) /\ i \in 1 .. Len(B)
  BY DEF SameLines, ZeroEnded
<1>2. a \in i .. Len(A) /\ A[a] \notin S /\ \A k \in i .. a - 1 : A[k] \in S
  BY <1>1, SkipOverStops DEF SameLines
<1>3. b \in i .. Len(B) /\ B[b] \notin S /\ \A k \in i .. b - 1 : B[k] \in S
  BY <1>1, SkipOverStops DEF SameLines
<1> HIDE DEF a, b
<1>4. a \in 1 .. n /\ i <= a
  <2>1. a # n + 1
    BY <1>1, <1>2
  <2> QED  BY <1>1, <1>2, <2>1
<1>5. ~ (a < b)
  BY <1>1, <1>2, <1>3, <1>4
<1>6. ~ (b < a)
  BY <1>1, <1>2, <1>3, <1>4
<1> QED  BY <1>1, <1>3, <1>4, <1>5, <1>6 DEF a, b

\* So does a comment.
LEMMA EndOfLineAgree ==
  ASSUME NEW A, NEW B, NEW n, SameLines(A, B, n), NEW i \in 1 .. n
  PROVE  EndOfLine(B, i) = EndOfLine(A, i) /\ EndOfLine(A, i) \in i .. n
<1> DEFINE a == EndOfLine(A, i)
           b == EndOfLine(B, i)
           ends == {"\n", "NUL"}
<1>1. /\ n \in Nat \ {0} /\ A[n] \in ends /\ \A k \in 1 .. n : A[k] = B[k]
      /\ Len(A) = n + 1 /\ Len(B) \in Nat /\ i \in 1 .. Len(A) /\ i \in 1 .. Len(B)
  BY DEF SameLines, ZeroEnded
<1>2. a \in i .. Len(A) /\ A[a] \in ends /\ \A k \in i .. a - 1 : A[k] \notin ends
  BY <1>1, EndOfLineStops DEF SameLines
<1>3. b \in i .. Len(B) /\ B[b] \in ends /\ \A k \in i .. b - 1 : B[k] \notin ends
  BY <1>1, EndOfLineStops DEF SameLines
<1> HIDE DEF a, b, ends
<1>4. a \in 1 .. n /\ i <= a
  <2>1. a # n + 1
    BY <1>1, <1>2
  <2> QED  BY <1>1, <1>2, <2>1
<1>5. ~ (a < b)
  BY <1>1, <1>2, <1>3, <1>4
<1>6. ~ (b < a)
  BY <1>1, <1>2, <1>3, <1>4
<1>7. a = b /\ a \in i .. n
  BY <1>1, <1>3, <1>4, <1>5, <1>6
<1> QED  BY <1>7 DEF a, b

\* The next token begins at the same place, unless A has none.
LEMMA TokenStartAgree ==
  ASSUME NEW A, NEW B, NEW n, SameLines(A, B, n), NEW i \in 1 .. n,
         TokenStart(A, i) # n + 1
  PROVE  TokenStart(B, i) = TokenStart(A, i) /\ TokenStart(A, i) \in 1 .. n
<1> DEFINE P == 1 .. n + 1
           Agree(p) == TokenStart(A, p) = n + 1
                         \/ (p \in 1 .. n /\ TokenStart(B, p) = TokenStart(A, p))
           G == {p \in P : Agree(p)}
           m == [p \in P |-> n + 1 - p]
<1>0. /\ n \in Nat \ {0} /\ Len(A) = n + 1 /\ Len(B) \in Nat /\ Len(B) > n
      /\ ZeroEnded(A) /\ ZeroEnded(B) /\ A[n] = "\n" /\ A[n + 1] = "NUL"
  BY DEF SameLines, ZeroEnded
<1>1. m \in [P -> Nat]
  BY <1>0
<1>2. ASSUME NEW j \in P, \A k \in P : m[k] < m[j] => k \in G
      PROVE  j \in G
  <2>1. \A k \in P : k > j => Agree(k)
    BY <1>0, <1>2
  <2> HIDE DEF Agree
  <2>2. CASE j = n + 1
    <3>1. j \in 1 .. Len(A) /\ A[j] = "NUL"
      BY <1>0, <2>2
    <3>2. TokenStart(A, j) = j
      BY <1>0, <3>1, TokenStartStep
    <3> QED  BY <2>2, <3>2 DEF Agree
  <2>3. CASE j \in 1 .. n
    <3>1. /\ j \in 1 .. Len(A) /\ j \in 1 .. Len(B) /\ j \in Nat \ {0} /\ A[j] = B[j]
          /\ A[j] # "\n" => j + 1 \in 1 .. n /\ Char(A, j + 1) = Char(B, j + 1)
      BY <2>3, CharAgree
    <3>2. CASE A[j] = "SP"
      <4>1. TokenStart(A, j) = TokenStart(A, j + 1) /\ TokenStart(B, j) = TokenStart(B, j + 1)
        BY <1>0, <3>1, <3>2, TokenStartStep
      <4>2. Agree(j + 1)
        BY <1>0, <2>1, <3>1, <3>2
      <4> QED  BY <2>3, <4>1, <4>2 DEF Agree
    <3>3. CASE A[j] = "#"
      <4> DEFINE e == EndOfLine(A, j)
      <4>1. e = EndOfLine(B, j) /\ e \in j .. n
        BY <2>3, EndOfLineAgree
      <4>2. e \in j + 1 .. Len(A)
        BY <1>0, <3>1, <3>3, EndOfLineMoves
      <4>3. TokenStart(A, j) = TokenStart(A, EndOfLine(A, j))
        BY <1>0, <3>1, <3>3, TokenStartStep
      <4>4. B[j] = "#"
        BY <3>1, <3>3
      <4>5. TokenStart(B, j) = TokenStart(B, EndOfLine(B, j))
        BY <1>0, <3>1, <4>4, TokenStartStep
      <4>6. TokenStart(A, j) = TokenStart(A, e) /\ TokenStart(B, j) = TokenStart(B, e)
        BY <4>1, <4>3, <4>5
      <4> HIDE DEF e
      <4>7. Agree(e)
        BY <1>0, <2>1, <3>1, <4>1, <4>2
      <4> QED  BY <2>3, <4>6, <4>7 DEF Agree
    <3>4. CASE A[j] = "\\" /\ Char(A, j + 1) = "\n"
      <4>1. TokenStart(A, j) = TokenStart(A, j + 2) /\ TokenStart(B, j) = TokenStart(B, j + 2)
        BY <1>0, <3>1, <3>4, TokenStartStep
      <4>2. Agree(j + 2)
        BY <1>0, <2>1, <3>1, <3>4
      <4> QED  BY <2>3, <4>1, <4>2 DEF Agree
    <3>5. CASE A[j] \notin {"SP", "#"} /\ ~(A[j] = "\\" /\ Char(A, j + 1) = "\n")
      <4>1. A[j] = "\\" => Char(A, j + 1) = Char(B, j + 1)
        BY <3>1
      <4>2. TokenStart(A, j) = j /\ TokenStart(B, j) = j
        BY <1>0, <3>1, <3>5, <4>1, TokenStartStep
      <4> QED  BY <2>3, <4>2 DEF Agree
    <3> QED  BY <3>2, <3>3, <3>4, <3>5
  <2> QED  BY <1>0, <2>2, <2>3
<1>3. P \subseteq G
  <2> HIDE DEF P, G, m
  <2> QED  BY <1>1, <1>2, MeasureInduction
<1>4. i \in P
  BY <1>0
<1>5. TokenStart(B, i) = TokenStart(A, i)
  BY <1>3, <1>4
<1>6. TokenStart(A, i) \in i .. Len(A)
  BY <1>0, TokenStartStops
<1> QED  BY <1>0, <1>5, <1>6

\* Three quotes are in the common lines or not.
LEMMA TripledAgree ==
  ASSUME NEW A, NEW B, NEW n, SameLines(A, B, n), NEW i \in 1 .. n, NEW quote \in Quotes
  PROVE  /\ Tripled(A, i, quote) <=> Tripled(B, i, quote)
         /\ Tripled(A, i, quote) => i + 3 \in 1 .. n
<1>0. quote # "\n" /\ i \in Nat \ {0} /\ n \in Nat
  BY CharAgree DEF Quotes
<1>1. ASSUME NEW T, T \in {A, B}, Tripled(T, i, quote)
      PROVE  /\ i + 3 \in 1 .. n
             /\ \A k \in i .. i + 2 : Char(A, k) = Char(B, k)
  <2>1. Char(T, i) = quote /\ Char(T, i + 1) = quote /\ Char(T, i + 2) = quote
    BY <1>0, <1>1 DEF Tripled
  <2>2. Char(A, i) = Char(B, i) /\ Char(T, i) = A[i]
    BY <1>1, CharAgree
  <2>3. i + 1 \in 1 .. n
    BY <1>0, <2>1, <2>2, CharAgree
  <2>4. Char(A, i + 1) = Char(B, i + 1) /\ Char(T, i + 1) = A[i + 1]
    BY <1>1, <2>3, CharAgree
  <2>5. i + 1 + 1 \in 1 .. n
    BY <1>0, <2>1, <2>3, <2>4, CharAgree
  <2>6. i + 2 \in 1 .. n
    BY <1>0, <2>5
  <2>7. Char(A, i + 2) = Char(B, i + 2) /\ Char(T, i + 2) = A[i + 2]
    BY <1>1, <2>6, CharAgree
  <2>8. i + 2 + 1 \in 1 .. n
    BY <1>0, <2>1, <2>6, <2>7, CharAgree
  <2>9. \A k \in i .. i + 2 : k = i \/ k = i + 1 \/ k = i + 2
    BY <1>0
  <2> QED  BY <1>0, <2>2, <2>4, <2>7, <2>8, <2>9
<1> QED  BY <1>1 DEF Tripled

\* A string that is closed in A is the same in B.
LEMMA StringEndAgree ==
  ASSUME NEW A, NEW B, NEW n, SameLines(A, B, n), NEW i \in 1 .. Len(A),
         NEW multiline \in BOOLEAN, NEW quote \in Quotes,
         StringEnd(A, i, multiline, quote).closed = TRUE
  PROVE  StringEnd(B, i, multiline, quote) = StringEnd(A, i, multiline, quote)
<1> DEFINE P == 1 .. n + 1
           S(p) == StringEnd(A, p, multiline, quote)
           T(p) == StringEnd(B, p, multiline, quote)
           Agree(p) == S(p).closed = FALSE \/ (p \in 1 .. n /\ T(p) = S(p))
           G == {p \in P : Agree(p)}
           m == [p \in P |-> n + 1 - p]
<1>0. /\ n \in Nat \ {0} /\ Len(A) = n + 1 /\ Len(B) \in Nat /\ Len(B) > n
      /\ ZeroEnded(A) /\ ZeroEnded(B) /\ A[n] = "\n" /\ A[n + 1] = "NUL"
  BY DEF SameLines, ZeroEnded
<1>1. m \in [P -> Nat]
  BY <1>0
<1>2. ASSUME NEW j \in P, \A k \in P : m[k] < m[j] => k \in G
      PROVE  j \in G
  <2>1. \A k \in P : k > j => Agree(k)
    BY <1>0, <1>2
  <2>2. j \in 1 .. Len(A) /\ j \in Nat \ {0}
    BY <1>0
  <2> HIDE DEF Agree
  <2>3. CASE StringFails(A, j, multiline)
    <3>1. S(j) = [at |-> j, closed |-> FALSE]
      BY <1>0, <2>2, <2>3, StringEndStep
    <3> HIDE DEF S
    <3> QED  BY <3>1 DEF Agree
  <2>4. CASE ~StringFails(A, j, multiline)
    <3>1. j \in 1 .. n
      BY <1>0, <2>4 DEF StringFails
    <3>2. /\ j \in 1 .. Len(B) /\ A[j] = B[j]
          /\ A[j] # "\n" => j + 1 \in 1 .. n /\ Char(A, j + 1) = Char(B, j + 1)
      BY <3>1, CharAgree
    <3>3. Tripled(A, j, quote) <=> Tripled(B, j, quote)
      BY <3>1, TripledAgree
    <3>4. /\ ~StringFails(B, j, multiline)
          /\ StringCloses(A, j, multiline, quote) <=> StringCloses(B, j, multiline, quote)
          /\ StringEscapes(A, j, quote) <=> StringEscapes(B, j, quote)
      BY <2>4, <3>2, <3>3 DEF StringFails, StringCloses, StringEscapes
    <3>5. CASE StringCloses(A, j, multiline, quote)
      <4>1. S(j) = [at |-> IF multiline THEN j + 3 ELSE j + 1, closed |-> TRUE]
        BY <1>0, <2>2, <3>5, StringEndStep
      <4>2. T(j) = [at |-> IF multiline THEN j + 3 ELSE j + 1, closed |-> TRUE]
        BY <1>0, <3>2, <3>4, <3>5, StringEndStep
      <4> HIDE DEF S, T
      <4> QED  BY <3>1, <4>1, <4>2 DEF Agree
    <3>6. CASE StringEscapes(A, j, quote)
      <4>1. S(j) = S(j + 2)
        BY <1>0, <2>2, <3>6, StringEndStep
      <4>2. T(j) = T(j + 2)
        BY <1>0, <3>2, <3>4, <3>6, StringEndStep
      <4>3. j + 2 \in P
        BY <1>0, <3>2, <3>6 DEF StringEscapes
      <4>4. Agree(j + 2)
        BY <1>0, <2>1, <2>2, <4>3
      <4> HIDE DEF S, T
      <4> QED  BY <3>1, <4>1, <4>2, <4>4 DEF Agree
    <3>7. CASE ~StringCloses(A, j, multiline, quote) /\ ~StringEscapes(A, j, quote)
      <4>1. S(j) = S(j + 1)
        BY <1>0, <2>2, <2>4, <3>7, StringEndStep
      <4>2. T(j) = T(j + 1)
        BY <1>0, <3>2, <3>4, <3>7, StringEndStep
      <4>3. Agree(j + 1)
        BY <1>0, <2>1, <2>2, <3>1
      <4> HIDE DEF S, T
      <4> QED  BY <3>1, <4>1, <4>2, <4>3 DEF Agree
    <3> QED  BY <3>5, <3>6, <3>7
  <2> QED  BY <2>3, <2>4
<1>3. P \subseteq G
  <2> HIDE DEF P, G, m
  <2> QED  BY <1>1, <1>2, MeasureInduction
<1> QED  BY <1>0, <1>3

\* The functions that tokenizeOne calls make the same of A and B (to BeforeEqualsAgrees).
LEMMA StringAgrees ==
  ASSUME NEW A, NEW B, NEW n, SameLines(A, B, n), NEW lex \in Lexers,
         NEW i \in 1 .. n, A[i] \in Quotes,
         LexString(lex, A, i).result = "CONTINUE"
  PROVE  LexString(lex, B, i) = LexString(lex, A, i)
<1> DEFINE quote == A[i]
           multiline == i + 3 <= Len(A) /\ Tripled(A, i, quote)
           from == IF multiline THEN i + 3 ELSE i + 1
           type == IF quote = "'" THEN "STRING" ELSE "DOUBLE_QUOTED"
           String(end) == IF end.closed THEN Emit(lex, type, end.at) ELSE Fail(lex, type, end.at)
           a == StringEnd(A, from, multiline, quote)
           b == StringEnd(B, from, multiline, quote)
<1>0. /\ n \in Nat \ {0} /\ Len(A) = n + 1 /\ Len(B) \in Nat /\ Len(B) > n
      /\ ZeroEnded(A) /\ ZeroEnded(B) /\ i \in Nat \ {0} /\ i \in 1 .. n
  BY CharAgree DEF SameLines, ZeroEnded
<1>1. quote = B[i] /\ i + 1 \in 1 .. n
  <2>1. A[i] # "\n"
    BY DEF Quotes
  <2> QED  BY <2>1, CharAgree
<1>2. Tripled(A, i, quote) <=> Tripled(B, i, quote)
  BY TripledAgree
<1>3. Tripled(A, i, quote) => i + 3 \in 1 .. n
  BY TripledAgree
<1>4. multiline <=> i + 3 <= Len(B) /\ Tripled(B, i, quote)
  BY <1>0, <1>2, <1>3
<1>5. from \in 1 .. Len(A) /\ multiline \in BOOLEAN
  BY <1>0, <1>1, <1>3
<1>6. LexString(lex, A, i) = String(a)
  BY DEF LexString
<1>7. LexString(lex, B, i) = String(b)
  BY <1>1, <1>4 DEF LexString
<1>8. a.closed = TRUE \/ a.closed = FALSE
  <2>1. from \in 1 .. Len(A) /\ quote \in Quotes
    BY <1>0, <1>5
  <2> HIDE DEF multiline, from, quote
  <2> QED  BY <1>0, <1>5, <2>1, StringEndStops
<1>9. a.closed = TRUE
  <2> SUFFICES ASSUME a.closed = FALSE  PROVE FALSE
    BY <1>8
  <2>1. LexString(lex, A, i) = Fail(lex, type, a.at)
    BY <1>6
  <2>2. LexString(lex, A, i).result = "CONTINUE"
    OBVIOUS
  <2> HIDE DEF a, type
  <2> QED  BY <2>1, <2>2 DEF Fail
<1>10. b = a
  <2>1. quote \in Quotes
    OBVIOUS
  <2>2. StringEnd(A, from, multiline, quote).closed = TRUE
    BY <1>9
  <2> HIDE DEF multiline, from, quote, a, b
  <2>3. multiline = TRUE \/ multiline = FALSE
    BY <1>5
  <2> DEFINE closes(z) == StringEnd(A, from, z, quote).closed = TRUE
             agrees(z) == StringEnd(B, from, z, quote) = StringEnd(A, from, z, quote)
  <2>4. \A z \in BOOLEAN : closes(z) => agrees(z)
    BY <1>5, <2>1, StringEndAgree
  <2>5. closes(multiline)
    BY <2>2
  <2> HIDE DEF closes, agrees
  <2>6. agrees(multiline)
    BY <1>5, <2>4, <2>5
  <2> QED  BY <2>6 DEF agrees, a, b
<1> QED  BY <1>6, <1>7, <1>10

LEMMA IdentifierAgrees ==
  ASSUME NEW A, NEW B, NEW n, SameLines(A, B, n), NEW lex \in Lexers, NEW i \in 1 .. n
  PROVE  LexIdentifier(lex, B, i) = LexIdentifier(lex, A, i)
<1>1. A[i] = B[i]
  BY CharAgree
<1>2. SkipOver(B, i, Words \cup Digits) = SkipOver(A, i, Words \cup Digits)
  <2>1. "\n" \notin Words \cup Digits /\ "NUL" \notin Words \cup Digits
    BY Enders
  <2> QED  BY <2>1, SkipAgree
<1> QED  BY <1>1, <1>2 DEF LexIdentifier

LEMMA NumberAgrees ==
  ASSUME NEW A, NEW B, NEW n, SameLines(A, B, n), NEW lex \in Lexers,
         NEW i \in 1 .. n, A[i] \in Digits
  PROVE  LexNumber(lex, B, i) = LexNumber(lex, A, i)
<1>1. "\n" \notin Digits /\ "NUL" \notin Digits
  BY Enders
<1>2. /\ A[i] = B[i] /\ i + 1 \in 1 .. n /\ Char(A, i + 1) = Char(B, i + 1)
      /\ i \in Nat \ {0} /\ n \in Nat
  BY <1>1, CharAgree
<1>3. SkipOver(B, i, Digits) = SkipOver(A, i, Digits)
  BY <1>1, SkipAgree
<1>4. CASE A[i] = "0" /\ Char(A, i + 1) = "b"
  <2>1. i + 1 + 1 \in 1 .. n
    BY <1>2, <1>4, CharAgree
  <2>2. i + 2 \in 1 .. n
    BY <1>2, <2>1
  <2>3. SkipOver(B, i + 2, Digits) = SkipOver(A, i + 2, Digits)
    BY <1>1, <2>2, SkipAgree
  <2> QED  BY <1>2, <1>4, <2>3 DEF LexNumber
<1>5. CASE A[i] = "0" /\ Char(A, i + 1) # "b"
  BY <1>2, <1>5 DEF LexNumber
<1>6. CASE A[i] # "0"
  BY <1>2, <1>3, <1>6 DEF LexNumber
<1> QED  BY <1>4, <1>5, <1>6

LEMMA BeforeEqualsAgrees ==
  ASSUME NEW A, NEW B, NEW n, SameLines(A, B, n), NEW lex \in Lexers,
         NEW i \in 1 .. n, A[i] \in DOMAIN BeforeEquals
  PROVE  LexBeforeEquals(lex, B, i) = LexBeforeEquals(lex, A, i)
<1>1. A[i] # "\n"
  BY Enders
<1>2. A[i] = B[i] /\ Char(A, i + 1) = Char(B, i + 1)
  BY <1>1, CharAgree
<1> QED  BY <1>2 DEF LexBeforeEquals

\* A token that is read within the common lines is read in both.
LEMMA TokenizeOneAgrees ==
  ASSUME NEW A, NEW B, NEW n, SameLines(A, B, n), NEW lex \in Lexers, lex.at \in 1 .. n,
         TokenStart(A, lex.at) # n + 1, TokenizeOne(lex, A).result = "CONTINUE"
  PROVE  TokenizeOne(lex, B) = TokenizeOne(lex, A)
<1> DEFINE i == TokenStart(A, lex.at)
           chr == A[i]
           TA == TokenizeOne(lex, A)
           TB == TokenizeOne(lex, B)
<1> SUFFICES TB = TA
  OBVIOUS
<1>0. /\ n \in Nat \ {0} /\ Len(A) = n + 1 /\ Len(B) \in Nat /\ Len(B) > n
      /\ ZeroEnded(A) /\ ZeroEnded(B) /\ lex.at <= Len(A) /\ lex.at <= Len(B)
  BY DEF SameLines, ZeroEnded
<1>1. i = TokenStart(B, lex.at) /\ i \in 1 .. n
  BY TokenStartAgree
<1> HIDE DEF i
<1>2. /\ chr = B[i]
      /\ i \in Nat \ {0}
      /\ chr # "\n" => i + 1 \in 1 .. n /\ Char(A, i + 1) = Char(B, i + 1)
  BY <1>1, CharAgree
<1>3. StartsFString(B, i) <=> StartsFString(A, i)
  BY <1>2 DEF StartsFString
<1>4. i = TokenStart(A, lex.at)
  BY DEF i
<1>5. Branches(TA, lex, A, i) /\ Branches(TB, lex, B, i)
  BY <1>0, <1>1, <1>4, TokenizeOneCases
<1>6. TA.result = "CONTINUE"
  OBVIOUS
<1>7. TA # Fail(lex, "INVALID", i) /\ i # Len(A)
  <2>1. Fail(lex, "INVALID", i).result = "FAIL"
    BY DEF Fail, Lexers
  <2> HIDE DEF TA
  <2> QED  BY <1>0, <1>1, <1>6, <2>1
<1> HIDE DEF TA, TB
<1>8. CASE chr \in Quotes
  BY <1>1, <1>2, <1>3, <1>5, <1>6, <1>8, StringAgrees DEF Branches
<1>9. CASE StartsFString(A, i)
  <2>1. i + 1 \in 1 .. n
    BY <1>2, <1>9 DEF StartsFString
  <2>2. Char(A, i + 1) = A[i + 1] /\ A[i + 1] \in Quotes
    BY <1>9, <2>1, CharAgree DEF StartsFString
  <2>3. LexString(lex, B, i + 1) = LexString(lex, A, i + 1)
    BY <1>5, <1>6, <1>9, <2>1, <2>2, StringAgrees DEF Branches, TA
  <2> QED  BY <1>3, <1>5, <1>9, <2>3 DEF Branches
<1>10. CASE chr \in Words /\ ~StartsFString(A, i)
  BY <1>1, <1>2, <1>3, <1>5, <1>10, IdentifierAgrees DEF Branches
<1>11. CASE chr \in Digits
  BY <1>1, <1>2, <1>3, <1>5, <1>11, NumberAgrees DEF Branches
<1>12. CASE chr \in DOMAIN BeforeEquals
  BY <1>1, <1>2, <1>3, <1>5, <1>12, BeforeEqualsAgrees DEF Branches
<1>13. CASE \/ chr = "\n" \/ chr \in DOMAIN Opening \/ chr \in DOMAIN Closing
            \/ chr \in DOMAIN Punctuation
  BY <1>2, <1>5, <1>13 DEF Branches
<1> QED  BY <1>5, <1>7, <1>8, <1>9, <1>10, <1>11, <1>12, <1>13 DEF Branches

\* Are the tokens of a but for the last the first of b?
Heads(a, b) ==
  /\ Len(a) \in Nat \ {0} /\ Len(b) \in Nat /\ Len(a) - 1 <= Len(b)
  /\ \A k \in 1 .. Len(a) - 1 : a[k] = b[k]

\* What the lexer has read stays.
LEMMA TokenizeAppends ==
  ASSUME NEW text, ZeroEnded(text), NEW lex \in Lexers, NEW type
  PROVE  Heads(Append(lex.tokens, type), Tokenize(lex, text).tokens)
<1> DEFINE old == lex.tokens
           G == {l \in Lexers : Len(old) <= Len(l.tokens)
                                  /\ \A k \in 1 .. Len(old) : l.tokens[k] = old[k]}
<1>1. G \subseteq Lexers /\ lex \in G
  BY DEF Lexers
<1>2. ASSUME NEW l \in G, ~Ended(l, text)  PROVE Round(l, text) \in G
  <2> DEFINE r == Round(l, text)
  <2>1. /\ r \in Lexers
        /\ r.tokens = l.tokens \/ \E t \in TokenTypes : r.tokens = Append(l.tokens, t)
    BY <1>1, <1>2, RoundAdvances DEF Advances
  <2> HIDE DEF r
  <2>2. l.tokens \in Seq(TokenTypes) /\ old \in Seq(TokenTypes)
    BY <1>1 DEF Lexers
  <2>3. CASE r.tokens = l.tokens
    BY <2>1, <2>3 DEF r
  <2>4. ASSUME NEW t \in TokenTypes, r.tokens = Append(l.tokens, t)
        PROVE  Len(old) <= Len(r.tokens) /\ \A k \in 1 .. Len(old) : r.tokens[k] = old[k]
    <3> DEFINE new == l.tokens
    <3>1. Len(old) <= Len(new) /\ \A k \in 1 .. Len(old) : new[k] = old[k]
      OBVIOUS
    <3> HIDE DEF new, old
    <3>2. new \in Seq(TokenTypes) /\ old \in Seq(TokenTypes) /\ r.tokens = Append(new, t)
      BY <2>2, <2>4 DEF new
    <3>3. /\ Len(Append(new, t)) = Len(new) + 1 /\ Len(new) \in Nat /\ Len(old) \in Nat
          /\ \A k \in 1 .. Len(new) : Append(new, t)[k] = new[k]
      BY <3>2
    <3>4. /\ Len(old) <= Len(Append(new, t))
          /\ \A k \in 1 .. Len(old) : Append(new, t)[k] = old[k]
      BY <3>1, <3>3
    <3> QED  BY <3>2, <3>4
  <2> QED  BY <2>1, <2>3, <2>4 DEF r
<1>3. Tokenize(lex, text) \in G
  <2> HIDE DEF G
  <2> QED  BY <1>1, <1>2, TokenizeKeeps
<1> DEFINE new == Tokenize(lex, text).tokens
<1>4. Len(old) <= Len(new) /\ \A k \in 1 .. Len(old) : new[k] = old[k]
  BY <1>3
<1>5. old \in Seq(TokenTypes) /\ new \in Seq(TokenTypes)
  BY <1>1, <1>3 DEF Lexers
<1> HIDE DEF old, new
<1>6. Heads(Append(old, type), new)
  BY <1>4, <1>5 DEF Heads
<1> QED  BY <1>6 DEF old, new

\* A failure is not forgotten.
LEMMA FailureStays ==
  ASSUME NEW text, ZeroEnded(text), NEW lex \in Lexers, lex.success = FALSE
  PROVE  Tokenize(lex, text).success = FALSE
<1> DEFINE G == {l \in Lexers : l.success = FALSE}
<1>1. ASSUME NEW l \in G, ~Ended(l, text)  PROVE Round(l, text) \in G
  BY <1>1, RoundAdvances DEF Advances
<1>2. Tokenize(lex, text) \in G
  BY <1>1, TokenizeKeeps
<1> QED  BY <1>2

\* By induction over the rounds of A: B has its tokens, or A has failed.
LEMMA TokenizeAgrees ==
  ASSUME NEW A, NEW B, NEW n, SameLines(A, B, n), NEW lex \in Lexers,
         lex.result # "DONE", lex.at <= n + 1, Tokenize(lex, A).success = TRUE
  PROVE  Heads(Tokenize(lex, A).tokens, Tokenize(lex, B).tokens)
<1> DEFINE Good(l) == l.result # "DONE" /\ l.at <= n + 1 /\ Tokenize(l, A).success = TRUE
                        => Heads(Tokenize(l, A).tokens, Tokenize(l, B).tokens)
           G == {l \in Lexers : Good(l)}
<1>0. /\ n \in Nat \ {0} /\ Len(A) = n + 1 /\ Len(B) \in Nat /\ Len(B) > n
      /\ ZeroEnded(A) /\ ZeroEnded(B) /\ A[n + 1] = "NUL"
  BY DEF SameLines, ZeroEnded
<1>1. ASSUME NEW l \in Lexers, \A k \in Lexers : ToGo(A)[k] < ToGo(A)[l] => k \in G
      PROVE  l \in G
  <2> SUFFICES ASSUME l.result # "DONE", l.at <= n + 1, Tokenize(l, A).success = TRUE
               PROVE  Heads(Tokenize(l, A).tokens, Tokenize(l, B).tokens)
    OBVIOUS
  <2> DEFINE r == Round(l, A)
  <2>1. l.at \in Nat \ {0} /\ ~Ended(l, A) /\ ~Ended(l, B) /\ l.at \in 1 .. Len(A)
    BY <1>0 DEF Ended, Lexers
  <2>2. Advances(l, r, A) /\ ToGo(A)[r] < ToGo(A)[l]
    BY <1>0, <2>1, RoundAdvances, ToGoFalls
  <2>3. Tokenize(l, A) = Tokenize(r, A) /\ Tokenize(l, B) = Tokenize(Round(l, B), B)
    BY <1>0, <2>1, TokenizeStep
  <2>4. r \in Lexers
    BY <2>2 DEF Advances
  <2> HIDE DEF r
  <2>5. CASE r.result = "DONE"
    <3>1. r.tokens = Append(l.tokens, "TOKEOF")
      BY <2>2, <2>5 DEF Advances
    <3>2. Tokenize(r, A) = r
      BY <1>0, <2>4, <2>5, TokenizeStep DEF Ended
    <3>3. Heads(Append(l.tokens, "TOKEOF"), Tokenize(l, B).tokens)
      BY <1>0, TokenizeAppends
    <3> QED  BY <2>3, <3>1, <3>2, <3>3
  <2>6. CASE r.result = "FAIL"
    <3>1. r.success = FALSE
      BY <2>2, <2>6 DEF Advances
    <3>2. Tokenize(r, A).success = FALSE
      BY <1>0, <2>4, <3>1, FailureStays
    <3> QED  BY <2>3, <3>2
  <2>7. CASE r.result = "CONTINUE"
    <3>1. TokenizeOne(l, A) = r
      <4>1. TokenizeOne(l, A) \in Lexers
        BY <1>0, <2>1, TokenizeOneReads DEF Reads
      <4> DEFINE t == TokenizeOne(l, A)
                 u == [t EXCEPT !.at = t.at + 1, !.success = FALSE]
      <4>2. r = IF t.result = "FAIL" THEN u ELSE t
        BY DEF Round, r
      <4> HIDE DEF t
      <4>3. u.result = t.result
        BY <4>1 DEF Lexers, t
      <4> QED  BY <2>7, <4>2, <4>3 DEF t
    <3>2. TokenStart(A, l.at) # n + 1
      <4> SUFFICES ASSUME TokenStart(A, l.at) = n + 1  PROVE FALSE
        OBVIOUS
      <4>1. n + 1 \in Nat /\ l.at <= Len(A)
        BY <1>0
      <4>2. Branches(TokenizeOne(l, A), l, A, n + 1)
        BY <1>0, <4>1, TokenizeOneCases
      <4> DEFINE q == [Emit(l, "TOKEOF", n + 1 + 1) EXCEPT !.result = "DONE"]
      <4>3. TokenizeOne(l, A) = q
        BY <1>0, <4>2 DEF Branches
      <4>4. q.result = "DONE"
        BY DEF Emit, Lexers
      <4> QED  BY <2>7, <3>1, <4>3, <4>4
    <3>3. l.at \in 1 .. n
      <4>1. TokenStart(A, l.at) \in l.at .. Len(A)
        BY <1>0, <2>1, TokenStartStops
      <4> QED  BY <1>0, <2>1, <3>2, <4>1
    <3>4. TokenizeOne(l, B) = r
      BY <2>7, <3>1, <3>2, <3>3, TokenizeOneAgrees
    <3>5. Round(l, B) = r
      BY <2>7, <3>4 DEF Round
    <3>6. r.at <= n + 1
      BY <1>0, <2>2, <2>7 DEF Advances
    <3>7. Good(r)
      BY <1>1, <2>2, <2>4
    <3>8. Heads(Tokenize(r, A).tokens, Tokenize(r, B).tokens)
      BY <2>3, <2>7, <3>6, <3>7
    <3> QED  BY <2>3, <3>5, <3>8
  <2>8. r.result \in {"CONTINUE", "FAIL", "DONE"}
    BY <2>4 DEF Lexers
  <2> QED  BY <2>5, <2>6, <2>7, <2>8
<1>2. Lexers \subseteq G
  <2> HIDE DEF G
  <2>1. ToGo(A) \in [Lexers -> Nat]
    BY <1>0, ToGoFalls
  <2> QED  BY <1>1, <2>1, MeasureInduction
<1>3. Good(lex)
  BY <1>2
<1> QED  BY <1>3

\* Whatever the text, and whatever follows an end of line: what the lexer reads
\* up to it without a failure stays.
THEOREM LexedLinesStay ==
  ASSUME NEW C, NEW text \in Seq(C), NEW i \in 1 .. Len(text), text[i] = "\n",
         Lex(SubSeq(text, 1, i)).success = TRUE
  PROVE  Heads(Lex(SubSeq(text, 1, i)).tokens, Lex(text).tokens)
<1> DEFINE part == SubSeq(text, 1, i)
           A == Append(part, "NUL")
           B == Append(text, "NUL")
<1>1. /\ part \in Seq(C) /\ Len(part) = i /\ Len(text) \in Nat
      /\ \A k \in 1 .. i : part[k] = text[k]
  BY PartsAreTexts
<1>2. Lex(part) = Tokenize(NewLexer, A) /\ Lex(text) = Tokenize(NewLexer, B)
  BY DEF Lex
<1> HIDE DEF part
<1>3. ZeroEnded(A) /\ ZeroEnded(B) /\ NewLexer \in Lexers
  BY <1>1, NewLexerOfBuffer
<1>4. SameLines(A, B, i)
  <2>1. Len(A) = i + 1 /\ Len(B) > i /\ i \in Nat \ {0}
    BY <1>1
  <2>2. \A k \in 1 .. i : A[k] = text[k] /\ B[k] = text[k]
    BY <1>1
  <2> HIDE DEF A, B
  <2> QED  BY <1>3, <2>1, <2>2 DEF SameLines
<1>5. NewLexer.result # "DONE" /\ NewLexer.at <= i + 1
  BY DEF NewLexer
<1>6. Tokenize(NewLexer, A).success = TRUE
  BY <1>2 DEF part
<1> HIDE DEF A, B
<1>7. Heads(Tokenize(NewLexer, A).tokens, Tokenize(NewLexer, B).tokens)
  BY <1>3, <1>4, <1>5, <1>6, TokenizeAgrees
<1> QED  BY <1>2, <1>7 DEF part

\* Whatever was typed: what is below a line does not change the tokens above.
THEOREM BufferEarlierTokensSurvive == BufferSpec => []EarlierTokensSurvive
<1>1. LexedInv => EarlierTokensSurvive
  <2> SUFFICES ASSUME LexedInv, NEW i \in DOMAIN lexed \ {0}, lexed[i].success,
                      buffer[i] = "\n"
               PROVE  SubSeq(lexed[i].tokens, 1, Len(lexed[i].tokens) - 1)
                        = SubSeq(lexed[Len(buffer)].tokens, 1, Len(lexed[i].tokens) - 1)
    BY DEF EarlierTokensSurvive
  <2>1. /\ buffer \in Seq(Characters) /\ i \in 1 .. Len(buffer)
        /\ lexed[i] = Lex(SubSeq(buffer, 1, i))
    BY LexedParts DEF LexedInv
  <2>2. lexed[Len(buffer)] = Lex(SubSeq(buffer, 1, Len(buffer)))
    BY LexedParts
  <2>3. SubSeq(buffer, 1, Len(buffer)) = buffer
    BY <2>1, SubSeqFull
  <2>4. SubSeq(buffer, 1, i) \in Seq(Characters)
    BY <2>1, PartsAreTexts
  <2>5. lexed[i] \in Lexers /\ lexed[Len(buffer)] \in Lexers
    BY <2>1, <2>2, <2>3, <2>4, LexEnds
  <2> DEFINE a == lexed[i].tokens
             b == lexed[Len(buffer)].tokens
  <2>6. Heads(a, b)
    BY <2>1, <2>2, <2>3, <2>5, LexedLinesStay DEF Lexers
  <2>7. a \in Seq(TokenTypes) /\ b \in Seq(TokenTypes)
    BY <2>5 DEF Lexers
  <2> HIDE DEF a, b
  <2> DEFINE n == Len(a) - 1
  <2>8. n \in Nat /\ n <= Len(a) /\ n <= Len(b) /\ \A k \in 1 .. n : a[k] = b[k]
    BY <2>6 DEF Heads
  <2>9. n \in 0 .. Len(a) /\ n \in 0 .. Len(b)
    BY <2>7, <2>8
  <2> HIDE DEF n
  <2>10. SubSeq(a, 1, n) = SubSeq(b, 1, n)
    <3>1. /\ SubSeq(a, 1, n) \in Seq(TokenTypes) /\ Len(SubSeq(a, 1, n)) = n
          /\ \A k \in 1 .. n : SubSeq(a, 1, n)[k] = a[k]
      BY <2>7, <2>9, PartsAreTexts
    <3>2. /\ SubSeq(b, 1, n) \in Seq(TokenTypes) /\ Len(SubSeq(b, 1, n)) = n
          /\ \A k \in 1 .. n : SubSeq(b, 1, n)[k] = b[k]
      BY <2>7, <2>9, PartsAreTexts
    <3> QED  BY <2>8, <3>1, <3>2, SeqEqual
  <2> QED  BY <2>10 DEF a, b, n
<1> QED  BY <1>1, BufferKeepsLexed, PTL
================================================================================
