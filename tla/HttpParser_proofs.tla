--------------------------- MODULE HttpParser_proofs ---------------------------
(***************************************************************************)
(* What the parser takes for complete is framed, for every set of texts.   *)
(* First, that what atoi and strtol read is a number.  Then the edges of   *)
(* the automaton, by the part of a request they belong to, and what the    *)
(* parser knows in each part (Stage): how much of an empty line it has     *)
(* just read, and that the size it counts with is the one the last         *)
(* Content-Length said.  Then a character in each part keeps that.         *)
(***************************************************************************)
EXTENDS HttpParser, WellFoundedInduction, TLAPS

\* A set of naturals that is not empty has a least element.
LEMMA LeastNatural ==
    ASSUME NEW S \in SUBSET Nat, S # {}
    PROVE  \E x \in S : \A y \in S : x <= y
<1>1. PICK x \in S : \A y \in S : <<y, x>> \notin OpToRel(<, Nat)
  BY NatLessThanWellFounded, WFMin, Zenon
<1>2. ASSUME NEW y \in S PROVE x <= y
  <2>1. x \in Nat /\ y \in Nat
    OBVIOUS
  <2>2. ~(y < x)
    BY <1>1, <2>1, Zenon DEF OpToRel
  <2> QED BY <2>1, <2>2
<1> QED BY <1>2

\* A set with 0 in it that grows by one reaches n.
LEMMA Climbs ==
    ASSUME NEW n \in Nat, NEW S \in SUBSET (0..n), 0 \in S,
           \A i \in 0..n : i > 0 /\ i - 1 \in S => i \in S
    PROVE  n \in S
<1> SUFFICES ASSUME n \notin S PROVE FALSE
  OBVIOUS
<1> DEFINE T == (0..n) \ S
<1>1. n \in T /\ T \in SUBSET Nat
  OBVIOUS
<1> HIDE DEF T
<1>2. PICK i \in T : \A j \in T : i <= j
  BY <1>1, LeastNatural
<1>3. i \in 0..n /\ i \notin S /\ i \in Nat /\ i # 0
  BY <1>2 DEF T
<1>4. i - 1 \in 0..n /\ ~(i <= i - 1) /\ i > 0
  BY <1>3
<1>5. i - 1 \notin T
  BY <1>2, <1>4
<1>6. i - 1 \in S
  BY <1>4, <1>5 DEF T
<1> QED BY <1>3, <1>4, <1>6

-----------------------------------------------------------------------------
\* The turns of the loop that reads a number.
Readings == [value : Nat, begun : BOOLEAN, open : BOOLEAN]

ReadRun(f, n, s, base) ==
    f = [i \in 0..n |-> IF i = 0 THEN [value |-> 0, begun |-> FALSE, open |-> TRUE]
                        ELSE NextDigit(f[i - 1], s[i], base)]

\* A turn keeps the types.
LEMMA NextDigitType ==
    ASSUME NEW n \in Readings, NEW c, NEW base \in Nat
    PROVE  NextDigit(n, c, base) \in Readings
<1>1. CASE c \in Digits /\ n.open
  <2>1. DigitValue[c] \in Nat
    BY <1>1 DEF Digits, DigitValue
  <2>2. n.value * base + DigitValue[c] \in Nat
    BY <2>1 DEF Readings
  <2> QED BY <1>1, <2>2 DEF NextDigit, Readings
<1>2. CASE ~(c \in Digits /\ n.open) /\ c = "SP" /\ ~n.begun /\ n.open
  BY <1>2 DEF NextDigit
<1>3. CASE ~(c \in Digits /\ n.open) /\ ~(c = "SP" /\ ~n.begun /\ n.open)
  BY <1>3 DEF NextDigit, Readings
<1> QED BY <1>1, <1>2, <1>3

\* There are as many turns as one likes.
LEMMA ReadRuns ==
    ASSUME NEW n \in Nat, NEW s, NEW base
    PROVE  \E f : ReadRun(f, n, s, base)
<1> DEFINE S == {m \in 0..n : \E f : ReadRun(f, m, s, base)}
<1>1. 0 \in S
  <2> DEFINE f == [i \in 0..0 |-> [value |-> 0, begun |-> FALSE, open |-> TRUE]]
  <2>1. ReadRun(f, 0, s, base)
    BY DEF ReadRun
  <2> QED BY <2>1
<1>2. ASSUME NEW m \in 0..n, m > 0, m - 1 \in S PROVE m \in S
  <2>1. PICK f : ReadRun(f, m - 1, s, base)
    BY <1>2
  <2> DEFINE g == [i \in 0..m |-> IF i = m THEN NextDigit(f[m - 1], s[m], base) ELSE f[i]]
  <2>2. ASSUME NEW i \in 0..m
        PROVE  g[i] = IF i = 0 THEN [value |-> 0, begun |-> FALSE, open |-> TRUE]
                      ELSE NextDigit(g[i - 1], s[i], base)
    <3>1. CASE i = m
      <4>1. g[i] = NextDigit(f[m - 1], s[m], base) /\ g[m - 1] = f[m - 1] /\ i # 0
        BY <1>2, <3>1
      <4> HIDE DEF g
      <4> QED BY <3>1, <4>1
    <3>2. CASE i # m
      <4>1. i \in 0..(m - 1) /\ g[i] = f[i] /\ (i # 0 => i - 1 \in 0..m /\ i - 1 # m)
        BY <1>2, <3>2
      <4>2. i # 0 => g[i - 1] = f[i - 1]
        BY <4>1
      <4>3. f[i] = IF i = 0 THEN [value |-> 0, begun |-> FALSE, open |-> TRUE]
                   ELSE NextDigit(f[i - 1], s[i], base)
        BY <2>1, <4>1 DEF ReadRun
      <4> HIDE DEF g
      <4> QED BY <4>1, <4>2, <4>3
    <3> QED BY <3>1, <3>2
  <2>3. ReadRun(g, m, s, base)
    <3>1. g = [i \in 0..m |-> g[i]]
      OBVIOUS
    <3> HIDE DEF g
    <3> QED BY <2>2, <3>1, Zenon DEF ReadRun
  <2> QED BY <2>3
<1> HIDE DEF S
<1>3. S \in SUBSET (0..n)
  BY DEF S
<1>4. n \in S
  BY <1>1, <1>2, <1>3, Climbs
<1> QED BY <1>4 DEF S

\* What atoi and strtol make of a text is a number.
LEMMA NumberType ==
    ASSUME NEW s, Len(s) \in Nat, NEW base \in Nat
    PROVE  NumberIn(s, base) \in Nat
<1> DEFINE n == Len(s)
           f == CHOOSE f : ReadRun(f, n, s, base)
<1>1. ReadRun(f, n, s, base)
  <2>1. \E g : ReadRun(g, n, s, base)
    BY ReadRuns
  <2> QED BY <2>1, Zenon
<1>2. NumberIn(s, base) = f[n].value
  BY Zenon DEF NumberIn, ReadRun
<1> HIDE DEF f, n
<1>3. n \in Nat
  BY DEF n
<1> DEFINE S == {i \in 0..n : f[i] \in Readings}
<1>4. 0 \in S
  BY <1>1, <1>3 DEF ReadRun, Readings
<1>5. ASSUME NEW i \in 0..n, i > 0, i - 1 \in S PROVE i \in S
  <2>1. f[i] = IF i = 0 THEN [value |-> 0, begun |-> FALSE, open |-> TRUE]
               ELSE NextDigit(f[i - 1], s[i], base)
    BY <1>1, <1>5, Zenon DEF ReadRun
  <2>2. i # 0 /\ f[i - 1] \in Readings
    BY <1>3, <1>5
  <2>3. f[i] = NextDigit(f[i - 1], s[i], base)
    BY <2>1, <2>2, Zenon
  <2> QED BY <1>5, <2>2, <2>3, NextDigitType
<1> HIDE DEF S
<1>6. S \in SUBSET (0..n)
  BY DEF S
<1>7. n \in S
  BY <1>3, <1>4, <1>5, <1>6, Climbs
<1>8. f[n] \in Readings
  BY <1>7 DEF S
<1> QED BY <1>2, <1>8 DEF Readings

-----------------------------------------------------------------------------
(***************************************************************************)
(* The states of the automaton: the request line, the head, the body in    *)
(* chunks, and Post.                                                       *)
(***************************************************************************)

LineStates ==
    {"RequestMethodStart", "RequestMethod", "RequestUriStart", "RequestUri",
     "RequestHttpVersion_h", "RequestHttpVersion_ht", "RequestHttpVersion_htt",
     "RequestHttpVersion_http", "RequestHttpVersion_slash",
     "RequestHttpVersion_majorStart", "RequestHttpVersion_major",
     "RequestHttpVersion_minorStart", "RequestHttpVersion_minor",
     "ResponseHttpVersion_newLine"}

HeadStates ==
    {"HeaderLineStart", "HeaderLws", "HeaderName", "SpaceBeforeHeaderValue",
     "HeaderValue", "ExpectingNewline_2", "ExpectingNewline_3"}

\* The states of a body in chunks that have edges.
ChunkEdgeStates ==
    {"ChunkSize", "ChunkExtensionName", "ChunkExtensionValue", "ChunkSizeNewLine_2",
     "ChunkSizeNewLine_3", "ChunkTrailerName", "ChunkTrailerValue",
     "ChunkDataNewLine_1", "ChunkDataNewLine_2"}
ChunkStates == ChunkEdgeStates \union {"ChunkSizeNewLine", "ChunkData"}

States == LineStates \union HeadStates \union ChunkStates \union {"Post"}

Items == [name : Seq(Chars), value : Seq(Chars)]

Parsers ==
    [state : States, result : {"Incompleted", "Completed", "Error"}, contentSize : Int,
     chunkSizeStr : Seq(Chars), chunkSize : Int, chunked : BOOLEAN,
     method : Seq(Chars), uri : Seq(Chars), major : Int, minor : Int,
     headers : Seq(Items), content : Seq(Chars), keepAlive : BOOLEAN]

\* A state that is not one of the four that look at more takes one of its edges or fails.
LEMMA TakesEdge ==
    ASSUME NEW p, NEW c, NEW E, Edges[p.state] = E,
           p.state \notin {"ExpectingNewline_3", "Post", "ChunkSizeNewLine", "ChunkData"},
           ~(p.state = "HeaderLineStart" /\ p.headers # <<>> /\ c \in {"SP", "TAB"})
    PROVE  \/ Target(p, c) = "Error"
           \/ \E e \in E : c \in e[1] /\ Target(p, c) = e[2]
<1> DEFINE taken == {e \in Edges[p.state] : c \in e[1]}
<1>1. Target(p, c) = IF taken = {} THEN "Error" ELSE (CHOOSE e \in taken : TRUE)[2]
  BY Zenon DEF Target
<1>2. CASE taken = {}
  BY <1>1, <1>2
<1>3. CASE taken # {}
  <2> DEFINE e == CHOOSE e \in taken : TRUE
  <2>1. e \in taken
    BY <1>3, Zenon
  <2>2. e \in E /\ c \in e[1]
    BY <2>1
  <2>3. Target(p, c) = e[2]
    BY <1>1, <1>3, Zenon
  <2> HIDE DEF e
  <2> QED BY <2>2, <2>3
<1> QED BY <1>2, <1>3

\* The edges of the request line: it ends at a newline, or with the uri.
LEMMA LineEdges ==
    ASSUME NEW s \in LineStates, NEW e \in Edges[s]
    PROVE  /\ e[2] \in LineStates \union {"HeaderLineStart", "Completed"}
           /\ e[2] = "HeaderLineStart" => s = "ResponseHttpVersion_newLine" /\ e[1] = {"LF"}
           /\ e[2] = "ResponseHttpVersion_newLine" => e[1] = {"CR"}
           /\ e[2] = "Completed" => s = "RequestUri" /\ e[1] = {"CR"}
           /\ s = "RequestUri" /\ "CR" \in e[1] => e[2] = "Completed"
           /\ e[2] \in {"RequestHttpVersion_major", "RequestHttpVersion_minor"} => e[1] = Digits
<1>1. CASE s = "RequestMethodStart"
  BY <1>1 DEF Edges, LineStates
<1>2. CASE s = "RequestMethod"
  BY <1>2 DEF Edges, LineStates
<1>3. CASE s = "RequestUriStart"
  BY <1>3 DEF Edges, LineStates
<1>4. CASE s = "RequestUri"
  BY <1>4 DEF Edges, LineStates, Printable, Controls
<1>5. CASE s = "RequestHttpVersion_h"
  BY <1>5 DEF Edges, LineStates
<1>6. CASE s = "RequestHttpVersion_ht"
  BY <1>6 DEF Edges, LineStates
<1>7. CASE s = "RequestHttpVersion_htt"
  BY <1>7 DEF Edges, LineStates
<1>8. CASE s = "RequestHttpVersion_http"
  BY <1>8 DEF Edges, LineStates
<1>9. CASE s = "RequestHttpVersion_slash"
  BY <1>9 DEF Edges, LineStates
<1>10. CASE s = "RequestHttpVersion_majorStart"
  BY <1>10 DEF Edges, LineStates
<1>11. CASE s = "RequestHttpVersion_major"
  BY <1>11 DEF Edges, LineStates
<1>12. CASE s = "RequestHttpVersion_minorStart"
  BY <1>12 DEF Edges, LineStates
<1>13. CASE s = "RequestHttpVersion_minor"
  BY <1>13 DEF Edges, LineStates
<1>14. CASE s = "ResponseHttpVersion_newLine"
  BY <1>14 DEF Edges, LineStates
<1> QED BY <1>1, <1>2, <1>3, <1>4, <1>5, <1>6, <1>7, <1>8, <1>9, <1>10, <1>11, <1>12, <1>13, <1>14 DEF LineStates

\* The edges of a body in chunks: it ends at an empty line.
LEMMA ChunkEdges ==
    ASSUME NEW s \in ChunkEdgeStates, NEW e \in Edges[s]
    PROVE  /\ e[2] \in ChunkStates \union {"Completed"}
           /\ e[2] \notin {"ChunkData", "ChunkSizeNewLine_2"}
           /\ e[2] = "ChunkSizeNewLine" => e[1] = {"CR"}
           /\ e[2] = "ChunkSizeNewLine_3" => s = "ChunkSizeNewLine_2" /\ e[1] = {"CR"}
           /\ e[2] = "Completed" => s = "ChunkSizeNewLine_3" /\ e[1] = {"LF"}
<1>1. CASE s = "ChunkSize"
  <2>1. \/ e = <<Alnum, "ChunkSize">>
        \/ e = <<{";"}, "ChunkExtensionName">>
        \/ e = <<{"CR"}, "ChunkSizeNewLine">>
    BY <1>1 DEF Edges
  <2>2. \/ e[2] = "ChunkSize"
        \/ e[2] = "ChunkExtensionName"
        \/ e[1] = {"CR"} /\ e[2] = "ChunkSizeNewLine"
    <3>1. CASE e = <<Alnum, "ChunkSize">>
      BY <3>1
    <3>2. CASE e = <<{";"}, "ChunkExtensionName">>
      BY <3>2
    <3>3. CASE e = <<{"CR"}, "ChunkSizeNewLine">>
      BY <3>3
    <3> QED BY <2>1, <3>1, <3>2, <3>3
  <2> QED BY <2>2 DEF ChunkStates, ChunkEdgeStates
<1>2. CASE s = "ChunkExtensionName"
  BY <1>2 DEF Edges, ChunkStates, ChunkEdgeStates
<1>3. CASE s = "ChunkExtensionValue"
  BY <1>3 DEF Edges, ChunkStates, ChunkEdgeStates
<1>4. CASE s = "ChunkSizeNewLine_2"
  BY <1>4 DEF Edges, ChunkStates, ChunkEdgeStates
<1>5. CASE s = "ChunkSizeNewLine_3"
  BY <1>5 DEF Edges, ChunkStates, ChunkEdgeStates
<1>6. CASE s = "ChunkTrailerName"
  BY <1>6 DEF Edges, ChunkStates, ChunkEdgeStates
<1>7. CASE s = "ChunkTrailerValue"
  BY <1>7 DEF Edges, ChunkStates, ChunkEdgeStates
<1>8. CASE s = "ChunkDataNewLine_1"
  BY <1>8 DEF Edges, ChunkStates, ChunkEdgeStates
<1>9. CASE s = "ChunkDataNewLine_2"
  BY <1>9 DEF Edges, ChunkStates, ChunkEdgeStates
<1> QED BY <1>1, <1>2, <1>3, <1>4, <1>5, <1>6, <1>7, <1>8, <1>9 DEF ChunkEdgeStates

\* The edges of the head.
LEMMA HeadEdges ==
    ASSUME NEW s \in HeadStates \ {"ExpectingNewline_3"}, NEW e \in Edges[s]
    PROVE  \/ s = "HeaderLineStart" /\ e[1] = {"CR"} /\ e[2] = "ExpectingNewline_3"
           \/ s \in {"HeaderLineStart", "HeaderName"} /\ e[2] = "HeaderName"
           \/ s \in {"HeaderLws", "HeaderValue"} /\ e[1] = {"CR"} /\ e[2] = "ExpectingNewline_2"
           \/ s = "HeaderLws" /\ e[2] = "HeaderLws"
           \/ s = "HeaderName" /\ e[2] = "SpaceBeforeHeaderValue"
           \/ s \in {"SpaceBeforeHeaderValue", "HeaderLws", "HeaderValue"} /\ e[2] = "HeaderValue"
           \/ s = "ExpectingNewline_2" /\ e[1] = {"LF"} /\ e[2] = "HeaderLineStart"
<1>1. CASE s = "HeaderLineStart"
  BY <1>1 DEF Edges
<1>2. CASE s = "HeaderLws"
  BY <1>2 DEF Edges
<1>3. CASE s = "HeaderName"
  BY <1>3 DEF Edges
<1>4. CASE s = "SpaceBeforeHeaderValue"
  BY <1>4 DEF Edges
<1>5. CASE s = "HeaderValue"
  BY <1>5 DEF Edges
<1>6. CASE s = "ExpectingNewline_2"
  BY <1>6 DEF Edges
<1> QED BY <1>1, <1>2, <1>3, <1>4, <1>5, <1>6 DEF HeadStates

-----------------------------------------------------------------------------
(***************************************************************************)
(* What the parser knows of the n characters of the text it has read.      *)
(***************************************************************************)

\* The character read k characters ago.
Back(text, n, k, c) == n >= k /\ text[n - k + 1] = c

\* The empty line, and how much of it was read.
Return(text, n) == Back(text, n, 1, "CR")
Newline(text, n) == Back(text, n, 2, "CR") /\ Back(text, n, 1, "LF")
NewlineReturn(text, n) ==
    /\ Back(text, n, 3, "CR") /\ Back(text, n, 2, "LF")
    /\ Back(text, n, 1, "CR")
EmptyLine(text, n) ==
    /\ Back(text, n, 4, "CR") /\ Back(text, n, 3, "LF")
    /\ Back(text, n, 2, "CR") /\ Back(text, n, 1, "LF")

CL == <<"Content-Length">>

\* m is what the last Content-Length among the first k headers says, 0 when
\* none is among them.
Says(headers, k, m) ==
    \/ m = 0 /\ \A i \in 1..k : headers[i].name # CL
    \/ \E i \in 1..k :
          /\ headers[i].name = CL
          /\ m = NumberIn(headers[i].value, 10)
          /\ \A j \in (i + 1)..k : headers[j].name # CL

\* In the request line nothing is known of the body.
LineStage(p, text, n) ==
    /\ p.state \in LineStates
    /\ p.contentSize = 0 /\ ~p.chunked
    /\ p.headers = <<>> /\ p.content = <<>>
    /\ p.state = "ResponseHttpVersion_newLine" => Return(text, n)

\* In the head the size is that of the last Content-Length whose line is over.
HeadStage(p, text, n) ==
    /\ p.state \in HeadStates
    /\ p.content = <<>>
    /\ p.headers = <<>> => p.state \in {"HeaderLineStart", "ExpectingNewline_3"}
    /\ ~HasBody(p) => p.contentSize = 0 /\ ~p.chunked
    /\ p.state = "HeaderName" /\ HasBody(p) =>
            Says(p.headers, Len(p.headers) - 1, p.contentSize)
    /\ (/\ p.state \in {"SpaceBeforeHeaderValue", "HeaderValue"}
        /\ HasBody(p) /\ LastHeader(p).name # CL) =>
            Says(p.headers, Len(p.headers) - 1, p.contentSize)
    /\ (/\ p.state \in {"HeaderLineStart", "HeaderLws", "ExpectingNewline_2", "ExpectingNewline_3"}
        /\ HasBody(p)) =>
            Says(p.headers, Len(p.headers), p.contentSize)
    /\ p.state = "ExpectingNewline_2" => Return(text, n)
    /\ p.state = "HeaderLineStart" => Newline(text, n)
    /\ p.state = "ExpectingNewline_3" => NewlineReturn(text, n)

\* In the body the size is what is left of what the head announced.
PostStage(p) ==
    /\ p.state = "Post"
    /\ HasBody(p) /\ ~p.chunked
    /\ Says(p.headers, Len(p.headers), p.contentSize + Len(p.content))

\* In chunks the empty line is all that counts.
ChunkStage(p, text, n) ==
    /\ p.state \in ChunkStates
    /\ p.chunked
    /\ p.state = "ChunkSizeNewLine" => Return(text, n)
    /\ p.state = "ChunkSizeNewLine_2" => Newline(text, n)
    /\ p.state = "ChunkSizeNewLine_3" => NewlineReturn(text, n)

Stage(p, text, n) ==
    \/ LineStage(p, text, n)
    \/ HeadStage(p, text, n)
    \/ PostStage(p)
    \/ ChunkStage(p, text, n)

\* What a parser that is through has read.
Framed(p, text, n) ==
    \/ p.state = "RequestUri" /\ Return(text, n)
    \/ EmptyLine(text, n) /\ p.chunked
    \/ /\ EmptyLine(text, n) /\ p.content = <<>>
       /\ HasBody(p) => Says(p.headers, Len(p.headers), 0)
    \/ /\ HasBody(p) /\ ~p.chunked
       /\ Len(p.content) > 0
       /\ Says(p.headers, Len(p.headers), Len(p.content))

Sound(p, text, n) ==
    /\ p \in Parsers
    /\ p.result = "Incompleted" => Stage(p, text, n)
    /\ p.result = "Completed" => Framed(p, text, n)

\* What consume does once its target and what was pushed are known.
LEMMA Consumes ==
    ASSUME NEW p, NEW c, NEW t, t = Target(p, c), NEW q \in Parsers, q = Pushed(p, c, t),
           t \in States \union {"Completed", "Error"}
    PROVE  /\ consume(p, c) \in Parsers
           /\ t \in {"Completed", "Error"} => consume(p, c) = [q EXCEPT !.result = t]
           /\ t \notin {"Completed", "Error"} => consume(p, c) = [q EXCEPT !.state = t]
<1>1. consume(p, c) = IF t \in {"Completed", "Error"} THEN [q EXCEPT !.result = t]
                      ELSE [q EXCEPT !.state = t]
  BY Zenon DEF consume
<1>2. CASE t \in {"Completed", "Error"}
  <2>1. consume(p, c) = [q EXCEPT !.result = t]
    BY <1>1, <1>2, Zenon
  <2>2. [q EXCEPT !.result = t] \in Parsers
    BY <1>2 DEF Parsers
  <2> QED BY <1>2, <2>1, <2>2, Zenon
<1>3. CASE t \notin {"Completed", "Error"}
  <2>1. consume(p, c) = [q EXCEPT !.state = t]
    BY <1>1, <1>3, Zenon
  <2>2. t \in States
    BY <1>3
  <2>3. [q EXCEPT !.state = t] \in Parsers
    BY <2>2 DEF Parsers
  <2> QED BY <1>3, <2>1, <2>3, Zenon
<1> QED BY <1>2, <1>3

\* One more character.
LEMMA Moves ==
    ASSUME NEW text \in Seq(Chars), NEW n \in 0..(Len(text) - 1)
    PROVE  /\ text[n + 1] = "CR" => Return(text, n + 1)
           /\ text[n + 1] = "LF" /\ Return(text, n) => Newline(text, n + 1)
           /\ text[n + 1] = "CR" /\ Newline(text, n) => NewlineReturn(text, n + 1)
           /\ text[n + 1] = "LF" /\ NewlineReturn(text, n) => EmptyLine(text, n + 1)
BY DEF Return, Newline, NewlineReturn, EmptyLine, Back

-----------------------------------------------------------------------------
(***************************************************************************)
(* A character in each of the stages.                                      *)
(***************************************************************************)

\* What is pushed in the request line leaves head and body alone.
LEMMA LinePush ==
    ASSUME NEW p \in Parsers, p.state \in LineStates, NEW c \in Chars,
           NEW t \in LineStates \union {"HeaderLineStart", "Completed", "Error"},
           p.state = "RequestUri" /\ c = "CR" => t \in {"Completed", "Error"},
           t \in {"RequestHttpVersion_major", "RequestHttpVersion_minor"} => c \in Digits
    PROVE  /\ Pushed(p, c, t) \in Parsers
           /\ Pushed(p, c, t).state = p.state /\ Pushed(p, c, t).result = p.result
           /\ Pushed(p, c, t).contentSize = p.contentSize
           /\ Pushed(p, c, t).chunked = p.chunked
           /\ Pushed(p, c, t).headers = p.headers /\ Pushed(p, c, t).content = p.content
<1> DEFINE Same(q) == /\ q.state = p.state /\ q.result = p.result
                      /\ q.contentSize = p.contentSize /\ q.chunked = p.chunked
                      /\ q.headers = p.headers /\ q.content = p.content
<1>1. /\ p.state \notin HeadStates \union ChunkStates \union {"Post"}
      /\ t \notin {"HeaderName", "HeaderValue", "ExpectingNewline_2", "ChunkSize"}
  BY DEF LineStates, HeadStates, ChunkStates, ChunkEdgeStates
<1>2. PICK q : q = Pushed(p, c, t)
  OBVIOUS
<1>3. SUFFICES q \in Parsers /\ Same(q)
  BY <1>2
<1>4. CASE t = "RequestMethod"
  <2>1. q = [p EXCEPT !.method = Append(p.method, c)]
    BY <1>1, <1>2, <1>4 DEF Pushed, HeadStates, ChunkStates, ChunkEdgeStates
  <2>2. Append(p.method, c) \in Seq(Chars)
    BY DEF Parsers
  <2>3. q \in Parsers
    BY <2>1, <2>2 DEF Parsers
  <2>4. Same(q)
    BY <2>1 DEF Parsers
  <2> QED BY <2>3, <2>4
<1>5. CASE t = "RequestUri"
  <2>1. q = [p EXCEPT !.uri = Append(p.uri, c)]
    BY <1>1, <1>2, <1>5 DEF Pushed, HeadStates, ChunkStates, ChunkEdgeStates
  <2>2. Append(p.uri, c) \in Seq(Chars)
    BY DEF Parsers
  <2>3. q \in Parsers
    BY <2>1, <2>2 DEF Parsers
  <2>4. Same(q)
    BY <2>1 DEF Parsers
  <2> QED BY <2>3, <2>4
<1>6. CASE (p.state = "RequestUri" /\ c = "CR") \/ t = "RequestHttpVersion_majorStart"
  <2>1. PICK zero \in Int, nine \in Int : zero = 0 /\ nine = 9
    OBVIOUS
  <2>2. PICK m : m = [p EXCEPT !.major = zero]
    OBVIOUS
  <2>3. m \in Parsers /\ Same(m)
    BY <2>2 DEF Parsers
  <2>4. PICK minor \in Int : q = [m EXCEPT !.minor = minor]
    <3>1. CASE p.state = "RequestUri" /\ c = "CR"
      <4>1. q = [p EXCEPT !.major = zero, !.minor = nine]
        BY <1>1, <1>2, <2>1, <3>1 DEF Pushed, HeadStates, ChunkStates, ChunkEdgeStates
      <4>2. q = [m EXCEPT !.minor = nine]
        BY <2>2, <4>1, Zenon
      <4> QED BY <4>2
    <3>2. CASE t = "RequestHttpVersion_majorStart"
      <4>1. q = [p EXCEPT !.major = zero, !.minor = zero]
        BY <1>1, <1>2, <2>1, <3>2 DEF Pushed, HeadStates, ChunkStates, ChunkEdgeStates
      <4>2. q = [m EXCEPT !.minor = zero]
        BY <2>2, <4>1, Zenon
      <4> QED BY <4>2
    <3> QED BY <1>6, <3>1, <3>2
  <2>5. q \in Parsers
    BY <2>3, <2>4 DEF Parsers
  <2>6. Same(q)
    BY <2>3, <2>4 DEF Parsers
  <2> QED BY <2>5, <2>6
<1>7. CASE t \in {"RequestHttpVersion_major", "RequestHttpVersion_minor"}
  <2>1. DigitValue[c] \in Int
    BY <1>7 DEF Digits, DigitValue
  <2>2. PICK d \in Int : d = DigitValue[c]
    BY <2>1
  <2>3. CASE t = "RequestHttpVersion_major"
    <3>1. PICK x : x = p.major * 10 + d
      OBVIOUS
    <3>2. q = [p EXCEPT !.major = x]
      BY <1>1, <1>2, <2>2, <2>3, <3>1 DEF Pushed, HeadStates, ChunkStates, ChunkEdgeStates
    <3>3. x \in Int
      BY <3>1 DEF Parsers
    <3>4. q \in Parsers
      BY <3>2, <3>3 DEF Parsers
    <3>5. Same(q)
      BY <3>2 DEF Parsers
    <3> QED BY <3>4, <3>5
  <2>4. CASE t = "RequestHttpVersion_minor"
    <3>1. PICK x : x = p.minor * 10 + d
      OBVIOUS
    <3>2. q = [p EXCEPT !.minor = x]
      BY <1>1, <1>2, <2>2, <2>4, <3>1 DEF Pushed, HeadStates, ChunkStates, ChunkEdgeStates
    <3>3. x \in Int
      BY <3>1 DEF Parsers
    <3>4. q \in Parsers
      BY <3>2, <3>3 DEF Parsers
    <3>5. Same(q)
      BY <3>2 DEF Parsers
    <3> QED BY <3>4, <3>5
  <2> QED BY <1>7, <2>3, <2>4
<1>8. CASE /\ ~(p.state = "RequestUri" /\ c = "CR")
           /\ t \notin {"RequestMethod", "RequestUri", "RequestHttpVersion_majorStart",
                        "RequestHttpVersion_major", "RequestHttpVersion_minor"}
  <2>1. q = p
    BY <1>1, <1>2, <1>8 DEF Pushed, HeadStates, ChunkStates, ChunkEdgeStates
  <2> QED BY <2>1
<1> QED BY <1>4, <1>5, <1>6, <1>7, <1>8

\* The request line.
LEMMA LineKept ==
    ASSUME NEW p \in Parsers, p.result = "Incompleted",
           NEW text \in Seq(Chars), NEW n \in 0..(Len(text) - 1), LineStage(p, text, n)
    PROVE  Sound(consume(p, text[n + 1]), text, n + 1)
<1> DEFINE c == text[n + 1]
           t == Target(p, c)
           q == Pushed(p, c, t)
<1>1. c \in Chars
  OBVIOUS
<1>2. p.state \in LineStates
  BY DEF LineStage
<1>3. /\ t \in LineStates \union {"HeaderLineStart", "Completed", "Error"}
      /\ t = "HeaderLineStart" => p.state = "ResponseHttpVersion_newLine" /\ c = "LF"
      /\ t = "ResponseHttpVersion_newLine" => c = "CR"
      /\ t = "Completed" => p.state = "RequestUri" /\ c = "CR"
      /\ p.state = "RequestUri" /\ c = "CR" => t \in {"Completed", "Error"}
      /\ t \in {"RequestHttpVersion_major", "RequestHttpVersion_minor"} => c \in Digits
  <2>1. \/ t = "Error"
        \/ \E e \in Edges[p.state] : c \in e[1] /\ t = e[2]
    <3>1. p.state \notin {"ExpectingNewline_3", "Post", "ChunkSizeNewLine", "ChunkData",
                          "HeaderLineStart"}
      BY <1>2 DEF LineStates
    <3> HIDE DEF c
    <3> QED BY <3>1, TakesEdge
  <2>2. CASE t = "Error"
    BY <2>2
  <2>3. CASE t # "Error"
    <3> HIDE DEF t, c
    <3>1. PICK e \in Edges[p.state] : c \in e[1] /\ t = e[2]
      BY <2>1, <2>3
    <3> QED BY <1>2, <3>1, LineEdges
  <2> QED BY <2>2, <2>3
<1> HIDE DEF c, t
<1>4. /\ q \in Parsers /\ q.state = p.state /\ q.result = p.result
      /\ q.contentSize = 0 /\ ~q.chunked /\ q.headers = <<>> /\ q.content = <<>>
  BY <1>1, <1>2, <1>3, LinePush DEF LineStage
<1> HIDE DEF q
<1>5. /\ consume(p, c) \in Parsers
      /\ t \in {"Completed", "Error"} => consume(p, c) = [q EXCEPT !.result = t]
      /\ t \notin {"Completed", "Error"} => consume(p, c) = [q EXCEPT !.state = t]
  <2>1. t \in States \union {"Completed", "Error"}
    BY <1>3 DEF States, HeadStates
  <2> QED BY <1>4, <2>1, Consumes DEF t, q
<1>6. CASE t = "Error"
  BY <1>4, <1>5, <1>6 DEF Sound, Parsers, c
<1>7. CASE t = "Completed"
  <2>1. consume(p, c) = [q EXCEPT !.result = t]
    BY <1>5, <1>7
  <2>2. Return(text, n + 1)
    BY <1>3, <1>7, Moves DEF c
  <2> QED BY <1>3, <1>4, <1>5, <1>7, <2>1, <2>2 DEF Sound, Framed, Parsers, c
<1>8. CASE t \in LineStates
  <2>1. consume(p, c) = [q EXCEPT !.state = t] /\ t \notin {"Completed", "Error"}
    BY <1>5, <1>8 DEF LineStates
  <2>2. t = "ResponseHttpVersion_newLine" => Return(text, n + 1)
    BY <1>3, Moves DEF c
  <2>3. LineStage(consume(p, c), text, n + 1)
    BY <1>4, <1>8, <2>1, <2>2 DEF LineStage, Parsers
  <2> QED BY <1>4, <1>5, <2>1, <2>3 DEF Sound, Stage, Parsers, c
<1>9. CASE t = "HeaderLineStart"
  <2>1. consume(p, c) = [q EXCEPT !.state = t]
    BY <1>5, <1>9
  <2>2. Newline(text, n + 1)
    BY <1>3, <1>9, Moves DEF c, LineStage
  <2>3. Says(<<>>, 0, 0)
    BY DEF Says
  <2>4. HeadStage(consume(p, c), text, n + 1)
    BY <1>4, <1>9, <2>1, <2>2, <2>3 DEF HeadStage, HeadStates, Parsers
  <2> QED BY <1>4, <1>5, <1>9, <2>1, <2>4 DEF Sound, Stage, Parsers, c
<1> QED BY <1>3, <1>6, <1>7, <1>8, <1>9

\* What is pushed in a body in chunks leaves it one.
LEMMA ChunkPush ==
    ASSUME NEW p \in Parsers, p.state \in ChunkStates, NEW c \in Chars,
           NEW t \in ChunkStates \union {"Completed", "Error"}
    PROVE  /\ Pushed(p, c, t) \in Parsers
           /\ Pushed(p, c, t).result = p.result
           /\ Pushed(p, c, t).chunked = p.chunked
<1> DEFINE Same(q) == q.result = p.result /\ q.chunked = p.chunked
<1>1. /\ p.state \notin HeadStates \union LineStates \union {"Post"}
      /\ t \notin HeadStates \union LineStates \union {"Post"}
  BY DEF LineStates, HeadStates, ChunkStates, ChunkEdgeStates
<1>2. PICK q : q = Pushed(p, c, t)
  OBVIOUS
<1>3. SUFFICES q \in Parsers /\ Same(q)
  BY <1>2
<1>4. CASE t = "ChunkSize" /\ c # "LF" /\ p.state = "ChunkSize"
  <2>1. q = [p EXCEPT !.chunkSizeStr = Append(p.chunkSizeStr, c)]
    BY <1>1, <1>2, <1>4 DEF Pushed, HeadStates, LineStates
  <2>2. Append(p.chunkSizeStr, c) \in Seq(Chars)
    BY DEF Parsers
  <2>3. q \in Parsers
    BY <2>1, <2>2 DEF Parsers
  <2>4. Same(q)
    BY <2>1 DEF Parsers
  <2> QED BY <2>3, <2>4
<1>5. CASE p.state = "ChunkSizeNewLine" /\ t # "Error"
  <2>1. q = SizeRead(p)
    BY <1>1, <1>2, <1>5 DEF Pushed, HeadStates, LineStates
  <2>2. Len(p.chunkSizeStr) \in Nat
    BY DEF Parsers
  <2>3. PICK size \in Int : size = NumberIn(p.chunkSizeStr, 16)
    BY <2>2, NumberType
  <2>4. PICK m : m = [p EXCEPT !.chunkSize = size]
    OBVIOUS
  <2>5. q = [m EXCEPT !.chunkSizeStr = <<>>]
    <3>1. q = [p EXCEPT !.chunkSize = size, !.chunkSizeStr = <<>>]
      BY <2>1, <2>3, Zenon DEF SizeRead
    <3> QED BY <2>4, <3>1, Zenon
  <2>6. m \in Parsers /\ Same(m)
    BY <2>4 DEF Parsers
  <2>7. <<>> \in Seq(Chars)
    OBVIOUS
  <2>8. q \in Parsers
    BY <2>5, <2>6, <2>7 DEF Parsers
  <2>9. Same(q)
    BY <2>5, <2>6 DEF Parsers
  <2> QED BY <2>8, <2>9
<1>6. CASE p.state = "ChunkData"
  <2>1. q = [p EXCEPT !.content = Append(p.content, c), !.chunkSize = p.chunkSize - 1]
    BY <1>1, <1>2, <1>6 DEF Pushed, HeadStates, LineStates
  <2>2. Append(p.content, c) \in Seq(Chars)
    BY DEF Parsers
  <2>3. PICK m : m = [p EXCEPT !.content = Append(p.content, c)]
    OBVIOUS
  <2>4. PICK size \in Int : size = p.chunkSize - 1
    BY DEF Parsers
  <2>5. q = [m EXCEPT !.chunkSize = size]
    BY <2>1, <2>3, <2>4, Zenon
  <2>6. m \in Parsers /\ Same(m)
    BY <2>2, <2>3 DEF Parsers
  <2>7. q \in Parsers
    BY <2>5, <2>6 DEF Parsers
  <2>8. Same(q)
    BY <2>5, <2>6 DEF Parsers
  <2> QED BY <2>7, <2>8
<1>7. CASE /\ ~(t = "ChunkSize" /\ c # "LF" /\ p.state = "ChunkSize")
           /\ ~(p.state = "ChunkSizeNewLine" /\ t # "Error")
           /\ p.state # "ChunkData"
  <2>1. q = p
    BY <1>1, <1>2, <1>7 DEF Pushed, HeadStates, LineStates
  <2> QED BY <2>1
<1> QED BY <1>4, <1>5, <1>6, <1>7

\* The body in chunks.
LEMMA ChunkKept ==
    ASSUME NEW p \in Parsers, p.result = "Incompleted",
           NEW text \in Seq(Chars), NEW n \in 0..(Len(text) - 1), ChunkStage(p, text, n)
    PROVE  Sound(consume(p, text[n + 1]), text, n + 1)
<1> DEFINE c == text[n + 1]
           t == Target(p, c)
           q == Pushed(p, c, t)
<1>1. c \in Chars
  OBVIOUS
<1>2. p.state \in ChunkStates
  BY DEF ChunkStage
<1>3. /\ t \in ChunkStates \union {"Completed", "Error"}
      /\ t = "ChunkSizeNewLine" => c = "CR"
      /\ t = "ChunkSizeNewLine_2" => c = "LF" /\ p.state = "ChunkSizeNewLine"
      /\ t = "ChunkSizeNewLine_3" => c = "CR" /\ p.state = "ChunkSizeNewLine_2"
      /\ t = "Completed" => c = "LF" /\ p.state = "ChunkSizeNewLine_3"
  <2> HIDE DEF c
  <2>1. CASE p.state = "ChunkSizeNewLine"
    <3>1. t = IF c # "LF" THEN "Error"
              ELSE IF NumberIn(p.chunkSizeStr, 16) = 0 THEN "ChunkSizeNewLine_2" ELSE "ChunkData"
      BY <2>1 DEF Target
    <3> HIDE DEF t
    <3> QED BY <2>1, <3>1 DEF ChunkStates, ChunkEdgeStates
  <2>2. CASE p.state = "ChunkData"
    <3>1. t = IF p.chunkSize = 1 THEN "ChunkDataNewLine_1" ELSE "ChunkData"
      BY <2>2 DEF Target
    <3> HIDE DEF t
    <3> QED BY <3>1 DEF ChunkStates, ChunkEdgeStates
  <2>3. CASE p.state \in ChunkEdgeStates
    <3>1. \/ t = "Error"
          \/ \E e \in Edges[p.state] : c \in e[1] /\ t = e[2]
      <4>1. p.state \notin {"ExpectingNewline_3", "Post", "ChunkSizeNewLine", "ChunkData",
                            "HeaderLineStart"}
        BY <2>3 DEF ChunkEdgeStates
      <4> QED BY <4>1, TakesEdge
    <3> HIDE DEF t
    <3>2. CASE t = "Error"
      BY <3>2
    <3>3. CASE t # "Error"
      <4>1. PICK e \in Edges[p.state] : c \in e[1] /\ t = e[2]
        BY <3>1, <3>3
      <4> QED BY <2>3, <4>1, ChunkEdges
    <3> QED BY <3>2, <3>3
  <2> QED BY <1>2, <2>1, <2>2, <2>3 DEF ChunkStates
<1> HIDE DEF c, t
<1>4. q \in Parsers /\ q.result = p.result /\ q.chunked
  BY <1>1, <1>2, <1>3, ChunkPush DEF ChunkStage
<1> HIDE DEF q
<1>5. /\ consume(p, c) \in Parsers
      /\ t \in {"Completed", "Error"} => consume(p, c) = [q EXCEPT !.result = t]
      /\ t \notin {"Completed", "Error"} => consume(p, c) = [q EXCEPT !.state = t]
  <2>1. t \in States \union {"Completed", "Error"}
    BY <1>3 DEF States
  <2> QED BY <1>4, <2>1, Consumes DEF t, q
<1>6. CASE t = "Error"
  BY <1>4, <1>5, <1>6 DEF Sound, Parsers, c
<1>7. CASE t = "Completed"
  <2>1. consume(p, c) = [q EXCEPT !.result = t]
    BY <1>5, <1>7
  <2>2. EmptyLine(text, n + 1)
    BY <1>3, <1>7, Moves DEF c, ChunkStage
  <2> QED BY <1>4, <1>5, <1>7, <2>1, <2>2 DEF Sound, Framed, Parsers, c
<1>8. CASE t \in ChunkStates
  <2>1. consume(p, c) = [q EXCEPT !.state = t] /\ t \notin {"Completed", "Error"}
    BY <1>5, <1>8 DEF ChunkStates, ChunkEdgeStates
  <2>2. /\ t = "ChunkSizeNewLine" => Return(text, n + 1)
        /\ t = "ChunkSizeNewLine_2" => Newline(text, n + 1)
        /\ t = "ChunkSizeNewLine_3" => NewlineReturn(text, n + 1)
    BY <1>3, Moves DEF c, ChunkStage
  <2>3. ChunkStage(consume(p, c), text, n + 1)
    BY <1>4, <1>8, <2>1, <2>2 DEF ChunkStage, Parsers
  <2> QED BY <1>4, <1>5, <2>1, <2>3 DEF Sound, Stage, Parsers, c
<1> QED BY <1>3, <1>6, <1>7, <1>8

\* The body of an announced length.
LEMMA PostKept ==
    ASSUME NEW p \in Parsers, p.result = "Incompleted",
           NEW text \in Seq(Chars), NEW n \in 0..(Len(text) - 1), PostStage(p)
    PROVE  Sound(consume(p, text[n + 1]), text, n + 1)
<1> DEFINE c == text[n + 1]
           t == Target(p, c)
           q == Pushed(p, c, t)
<1>1. c \in Chars /\ p.state = "Post"
  BY DEF PostStage
<1> HIDE DEF c
<1>2. t = IF p.contentSize = 1 THEN "Completed" ELSE "Post"
  BY <1>1 DEF Target
<1> HIDE DEF t
<1>3. q = [p EXCEPT !.content = Append(p.content, c), !.contentSize = p.contentSize - 1]
  BY <1>1, <1>2 DEF Pushed
<1>4. PICK size \in Int : size = p.contentSize - 1
  BY DEF Parsers
<1>5. PICK m : m = [p EXCEPT !.content = Append(p.content, c)]
  OBVIOUS
<1>6. q = [m EXCEPT !.contentSize = size]
  BY <1>3, <1>4, <1>5, Zenon
<1>7. /\ Append(p.content, c) \in Seq(Chars)
      /\ Len(Append(p.content, c)) = Len(p.content) + 1 /\ Len(p.content) \in Nat
  BY <1>1 DEF Parsers
<1>8. /\ m \in Parsers /\ m.result = p.result /\ m.method = p.method /\ m.chunked = p.chunked
      /\ m.headers = p.headers /\ m.content = Append(p.content, c) /\ m.state = p.state
  BY <1>5, <1>7 DEF Parsers
<1>9. q \in Parsers
  BY <1>6, <1>8 DEF Parsers
<1>10. /\ q.result = p.result /\ q.method = p.method /\ q.chunked = p.chunked
       /\ q.headers = p.headers /\ q.content = Append(p.content, c) /\ q.contentSize = size
       /\ q.state = p.state
  BY <1>6, <1>8 DEF Parsers
<1>11. HasBody(q) /\ ~q.chunked
  BY <1>10 DEF PostStage, HasBody
<1>12. Says(q.headers, Len(q.headers), q.contentSize + Len(q.content))
  <2>1. q.contentSize + Len(q.content) = p.contentSize + Len(p.content)
    BY <1>4, <1>7, <1>10 DEF Parsers
  <2> QED BY <1>10, <2>1 DEF PostStage
<1> HIDE DEF q
<1>13. /\ consume(p, c) \in Parsers
       /\ t \in {"Completed", "Error"} => consume(p, c) = [q EXCEPT !.result = t]
       /\ t \notin {"Completed", "Error"} => consume(p, c) = [q EXCEPT !.state = t]
  <2>1. t \in States \union {"Completed", "Error"}
    BY <1>2 DEF States
  <2> QED BY <1>9, <2>1, Consumes DEF t, q
<1>14. CASE p.contentSize = 1
  <2>1. PICK r : r = consume(p, c)
    OBVIOUS
  <2>2. r = [q EXCEPT !.result = "Completed"] /\ r \in Parsers
    BY <1>2, <1>13, <1>14, <2>1
  <2>3. /\ r.result = "Completed" /\ r.method = q.method /\ r.chunked = q.chunked
        /\ r.headers = q.headers /\ r.content = q.content
    BY <1>9, <2>2 DEF Parsers
  <2>4. q.contentSize + Len(q.content) = Len(q.content) /\ Len(q.content) > 0
    BY <1>4, <1>7, <1>10, <1>14
  <2>5. Framed(r, text, n + 1)
    BY <1>11, <1>12, <2>3, <2>4 DEF Framed, HasBody
  <2> QED BY <2>1, <2>2, <2>3, <2>5 DEF Sound, c
<1>15. CASE p.contentSize # 1
  <2>1. PICK r : r = consume(p, c)
    OBVIOUS
  <2>2. r = [q EXCEPT !.state = "Post"] /\ r \in Parsers
    BY <1>2, <1>13, <1>15, <2>1
  <2>3. /\ r.result = "Incompleted" /\ r.method = q.method /\ r.chunked = q.chunked
        /\ r.headers = q.headers /\ r.content = q.content /\ r.state = "Post"
        /\ r.contentSize = q.contentSize
    BY <1>9, <1>10, <2>2 DEF Parsers
  <2>4. PostStage(r)
    BY <1>11, <1>12, <2>3 DEF PostStage, HasBody
  <2> QED BY <2>1, <2>2, <2>3, <2>4 DEF Sound, Stage, c
<1> QED BY <1>14, <1>15

\* Headers that agree announce the same.
LEMMA SaysSame ==
    ASSUME NEW hs, NEW gs, NEW k \in Int, NEW m, \A i \in 1..k : gs[i] = hs[i], Says(hs, k, m)
    PROVE  Says(gs, k, m)
BY DEF Says

\* A header that is no Content-Length makes no difference, one that is decides.
LEMMA SaysNext ==
    ASSUME NEW hs, NEW k \in Nat \ {0}, NEW m
    PROVE  /\ hs[k].name # CL => (Says(hs, k - 1, m) <=> Says(hs, k, m))
           /\ hs[k].name = CL => Says(hs, k, NumberIn(hs[k].value, 10))
<1>1. ASSUME hs[k].name # CL, Says(hs, k - 1, m) PROVE Says(hs, k, m)
  <2>1. CASE m = 0 /\ \A i \in 1..(k - 1) : hs[i].name # CL
    BY <1>1, <2>1 DEF Says
  <2>2. ASSUME NEW i \in 1..(k - 1), hs[i].name = CL, m = NumberIn(hs[i].value, 10),
               \A j \in (i + 1)..(k - 1) : hs[j].name # CL
        PROVE  Says(hs, k, m)
    <3>1. i \in 1..k
      OBVIOUS
    <3>2. ASSUME NEW j \in (i + 1)..k PROVE hs[j].name # CL
      BY <1>1, <2>2
    <3> QED BY <2>2, <3>1, <3>2 DEF Says
  <2> QED BY <1>1, <2>1, <2>2 DEF Says
<1>2. ASSUME hs[k].name # CL, Says(hs, k, m) PROVE Says(hs, k - 1, m)
  <2>1. CASE m = 0 /\ \A i \in 1..k : hs[i].name # CL
    BY <2>1 DEF Says
  <2>2. ASSUME NEW i \in 1..k, hs[i].name = CL, m = NumberIn(hs[i].value, 10),
               \A j \in (i + 1)..k : hs[j].name # CL
        PROVE  Says(hs, k - 1, m)
    <3>1. i \in 1..(k - 1)
      <4>1. i # k
        BY <1>2, <2>2
      <4> QED BY <4>1
    <3>2. \A j \in (i + 1)..(k - 1) : hs[j].name # CL
      BY <2>2
    <3> QED BY <2>2, <3>1, <3>2 DEF Says
  <2> QED BY <1>2, <2>1, <2>2 DEF Says
<1>3. ASSUME hs[k].name = CL PROVE Says(hs, k, NumberIn(hs[k].value, 10))
  <2>1. k \in 1..k /\ \A j \in (k + 1)..k : hs[j].name # CL
    OBVIOUS
  <2> QED BY <1>3, <2>1 DEF Says
<1> QED BY <1>1, <1>2, <1>3

\* Where the head goes.
LEMMA HeadTargets ==
    ASSUME NEW p, NEW c, NEW t, t = Target(p, c), p.state \in HeadStates
    PROVE  \/ p.state = "ExpectingNewline_3" /\ t = HeadEnds(p, c)
           \/ p.state # "ExpectingNewline_3" /\ t = "Error"
           \/ p.state = "HeaderLineStart" /\ p.headers # <<>> /\ t = "HeaderLws"
           \/ p.state = "HeaderLineStart" /\ c = "CR" /\ t = "ExpectingNewline_3"
           \/ p.state \in {"HeaderLineStart", "HeaderName"} /\ t = "HeaderName"
           \/ p.state \in {"HeaderLws", "HeaderValue"} /\ c = "CR" /\ t = "ExpectingNewline_2"
           \/ p.state = "HeaderLws" /\ t = "HeaderLws"
           \/ p.state = "HeaderName" /\ t = "SpaceBeforeHeaderValue"
           \/ p.state \in {"SpaceBeforeHeaderValue", "HeaderLws", "HeaderValue"} /\ t = "HeaderValue"
           \/ p.state = "ExpectingNewline_2" /\ c = "LF" /\ t = "HeaderLineStart"
<1>1. CASE p.state = "ExpectingNewline_3"
  BY <1>1 DEF Target
<1>2. CASE p.state = "HeaderLineStart" /\ p.headers # <<>> /\ c \in {"SP", "TAB"}
  BY <1>2 DEF Target
<1>3. CASE /\ p.state # "ExpectingNewline_3"
           /\ ~(p.state = "HeaderLineStart" /\ p.headers # <<>> /\ c \in {"SP", "TAB"})
  <2>1. \/ t = "Error"
        \/ \E e \in Edges[p.state] : c \in e[1] /\ t = e[2]
    <3>1. p.state \notin {"ExpectingNewline_3", "Post", "ChunkSizeNewLine", "ChunkData"}
      BY <1>3 DEF HeadStates
    <3> QED BY <1>3, <3>1, TakesEdge
  <2>2. CASE t = "Error"
    BY <1>3, <2>2
  <2>3. CASE t # "Error"
    <3>1. PICK e \in Edges[p.state] : c \in e[1] /\ t = e[2]
      BY <2>1, <2>3
    <3>2. p.state \in HeadStates \ {"ExpectingNewline_3"}
      BY <1>3
    <3>3. \/ p.state = "HeaderLineStart" /\ e[1] = {"CR"} /\ e[2] = "ExpectingNewline_3"
          \/ p.state \in {"HeaderLineStart", "HeaderName"} /\ e[2] = "HeaderName"
          \/ p.state \in {"HeaderLws", "HeaderValue"} /\ e[1] = {"CR"} /\ e[2] = "ExpectingNewline_2"
          \/ p.state = "HeaderLws" /\ e[2] = "HeaderLws"
          \/ p.state = "HeaderName" /\ e[2] = "SpaceBeforeHeaderValue"
          \/ p.state \in {"SpaceBeforeHeaderValue", "HeaderLws", "HeaderValue"} /\ e[2] = "HeaderValue"
          \/ p.state = "ExpectingNewline_2" /\ e[1] = {"LF"} /\ e[2] = "HeaderLineStart"
      BY <3>2, HeadEdges
    <3>4. \A x : e[1] = {x} => c = x
      BY <3>1
    <3> QED BY <3>1, <3>3, <3>4
  <2> QED BY <2>2, <2>3
<1> QED BY <1>1, <1>2, <1>3

\* Whether to keep the connection is yes or no.
LEMMA KeepAliveType == ASSUME NEW p \in Parsers PROVE KeepAlive(p) \in BOOLEAN
BY DEF KeepAlive, Parsers

\* The end of the head: on to the body, or through.
LEMMA HeadEndKept ==
    ASSUME NEW p \in Parsers, p.result = "Incompleted",
           NEW text \in Seq(Chars), NEW n \in 0..(Len(text) - 1), HeadStage(p, text, n),
           p.state = "ExpectingNewline_3"
    PROVE  Sound(consume(p, text[n + 1]), text, n + 1)
<1> DEFINE c == text[n + 1]
           t == Target(p, c)
           q == Pushed(p, c, t)
<1>1. t = HeadEnds(p, c)
  BY DEF Target
<1>2. t \in {"ChunkSize", "Post", "Completed", "Error"}
  BY <1>1 DEF HeadEnds
<1> HIDE DEF c, t
<1>3. PICK yes \in BOOLEAN : yes = KeepAlive(p)
  BY KeepAliveType
<1>4. q = [p EXCEPT !.keepAlive = yes]
  BY <1>2, <1>3 DEF Pushed
<1> HIDE DEF q
<1>5. q \in Parsers
  BY <1>4 DEF Parsers
<1>6. /\ q.result = p.result /\ q.method = p.method /\ q.chunked = p.chunked
      /\ q.headers = p.headers /\ q.content = p.content /\ q.contentSize = p.contentSize
      /\ q.state = p.state
  BY <1>4 DEF Parsers
<1>7. PICK r : r = consume(p, c)
  OBVIOUS
<1>8. /\ r \in Parsers
      /\ t \in {"Completed", "Error"} => r = [q EXCEPT !.result = t]
      /\ t \notin {"Completed", "Error"} => r = [q EXCEPT !.state = t]
  <2>1. t \in States \union {"Completed", "Error"}
    BY <1>2 DEF States, ChunkStates, ChunkEdgeStates
  <2> QED BY <1>5, <1>7, <2>1, Consumes DEF t, q
<1>9. /\ r.method = p.method /\ r.chunked = p.chunked
      /\ r.headers = p.headers /\ r.content = <<>> /\ r.contentSize = p.contentSize
      /\ t \in {"Completed", "Error"} => r.result = t
      /\ t \notin {"Completed", "Error"} => r.result = "Incompleted" /\ r.state = t
  <2>1. CASE t \in {"Completed", "Error"}
    BY <1>5, <1>6, <1>8, <2>1 DEF Parsers, HeadStage
  <2>2. CASE t \notin {"Completed", "Error"}
    BY <1>5, <1>6, <1>8, <2>2 DEF Parsers, HeadStage
  <2> QED BY <2>1, <2>2
<1>10. HasBody(r) <=> HasBody(p)
  BY <1>9 DEF HasBody
<1>11. HasBody(p) => Says(r.headers, Len(r.headers), r.contentSize)
  BY <1>9 DEF HeadStage
<1>12. CASE t = "Error"
  BY <1>7, <1>8, <1>9, <1>12 DEF Sound, c
<1>13. CASE t = "Completed"
  <2>1. c = "LF" /\ p.contentSize = 0
    BY <1>1, <1>13 DEF HeadEnds
  <2>2. EmptyLine(text, n + 1)
    BY <2>1, Moves DEF c, HeadStage
  <2>3. Framed(r, text, n + 1)
    BY <1>9, <1>10, <1>11, <2>1, <2>2 DEF Framed
  <2> QED BY <1>7, <1>8, <1>9, <1>13, <2>3 DEF Sound, c
<1>14. CASE t = "Post"
  <2>1. ~p.chunked /\ p.contentSize # 0
    BY <1>1, <1>14 DEF HeadEnds
  <2>2. HasBody(p)
    BY <2>1 DEF HeadStage
  <2>3. r.contentSize + Len(r.content) = r.contentSize
    BY <1>8, <1>9 DEF Parsers
  <2>4. PostStage(r)
    BY <1>9, <1>10, <1>11, <1>14, <2>1, <2>2, <2>3 DEF PostStage
  <2> QED BY <1>7, <1>8, <1>9, <1>14, <2>4 DEF Sound, Stage, c
<1>15. CASE t = "ChunkSize"
  <2>1. p.chunked
    BY <1>1, <1>15 DEF HeadEnds
  <2>2. ChunkStage(r, text, n + 1)
    BY <1>9, <1>15, <2>1 DEF ChunkStage, ChunkStates, ChunkEdgeStates
  <2> QED BY <1>7, <1>8, <1>9, <1>15, <2>2 DEF Sound, Stage, c
<1> QED BY <1>2, <1>12, <1>13, <1>14, <1>15

\* A step of the head that pushes nothing.
LEMMA HeadPassKept ==
    ASSUME NEW p \in Parsers, p.result = "Incompleted",
           NEW text \in Seq(Chars), NEW n \in 0..(Len(text) - 1), HeadStage(p, text, n),
           NEW c, c = text[n + 1], NEW t, t = Target(p, c),
           \/ p.state # "ExpectingNewline_3" /\ t = "Error"
           \/ p.state = "HeaderLineStart" /\ p.headers # <<>> /\ t = "HeaderLws"
           \/ p.state = "HeaderLineStart" /\ c = "CR" /\ t = "ExpectingNewline_3"
           \/ p.state = "HeaderLws" /\ c = "CR" /\ t = "ExpectingNewline_2"
           \/ p.state = "HeaderLws" /\ t = "HeaderLws"
           \/ p.state = "HeaderName" /\ t = "SpaceBeforeHeaderValue"
           \/ p.state = "SpaceBeforeHeaderValue" /\ t = "HeaderValue"
           \/ p.state = "ExpectingNewline_2" /\ c = "LF" /\ t = "HeaderLineStart"
    PROVE  Sound(consume(p, c), text, n + 1)
<1>1. p.state \in HeadStates
  BY DEF HeadStage
<1>2. p = Pushed(p, c, t)
  BY <1>1 DEF Pushed, HeadStates
<1>3. PICK r : r = consume(p, c)
  OBVIOUS
<1>4. /\ r \in Parsers
      /\ t \in {"Completed", "Error"} => r = [p EXCEPT !.result = t]
      /\ t \notin {"Completed", "Error"} => r = [p EXCEPT !.state = t]
  <2>1. t \in States \union {"Completed", "Error"}
    BY DEF States, HeadStates
  <2> QED BY <1>2, <1>3, <2>1, Consumes
<1>5. CASE t = "Error"
  <2>1. r.result = "Error"
    BY <1>4, <1>5 DEF Parsers
  <2> QED BY <1>3, <1>4, <2>1 DEF Sound
<1>6. CASE t # "Error"
  <2>1. t \in HeadStates /\ t \notin {"Completed", "Error"}
    BY <1>6 DEF HeadStates
  <2>2. /\ r.method = p.method /\ r.chunked = p.chunked
        /\ r.headers = p.headers /\ r.content = p.content /\ r.contentSize = p.contentSize
        /\ r.result = "Incompleted" /\ r.state = t
    BY <1>4, <2>1 DEF Parsers
  <2>3. HasBody(r) <=> HasBody(p)
    BY <2>2 DEF HasBody
  <2>4. LastHeader(r) = LastHeader(p)
    BY <2>2 DEF LastHeader
  <2>5. /\ t = "ExpectingNewline_2" => Return(text, n + 1)
        /\ t = "HeaderLineStart" => Newline(text, n + 1)
        /\ t = "ExpectingNewline_3" => NewlineReturn(text, n + 1)
    BY Moves DEF HeadStage
  <2>6. HeadStage(r, text, n + 1)
    BY <1>6, <2>1, <2>2, <2>3, <2>4, <2>5 DEF HeadStage
  <2> QED BY <1>3, <1>4, <2>2, <2>6 DEF Sound, Stage
<1> QED BY <1>5, <1>6

\* What consume leaves when it pushed q and goes on in the head.
LEMMA GoesOn ==
    ASSUME NEW p, NEW c, NEW t \in HeadStates, t = Target(p, c),
           NEW q \in Parsers, q = Pushed(p, c, t), NEW r, r = consume(p, c)
    PROVE  /\ r \in Parsers
           /\ r.state = t /\ r.result = q.result /\ r.method = q.method
           /\ r.chunked = q.chunked /\ r.headers = q.headers
           /\ r.content = q.content /\ r.contentSize = q.contentSize
<1>1. t \in States \union {"Completed", "Error"} /\ t \notin {"Completed", "Error"}
  BY DEF States, HeadStates
<1>2. r \in Parsers /\ r = [q EXCEPT !.state = t]
  BY <1>1, Consumes
<1> QED BY <1>1, <1>2 DEF Parsers

\* A header begins.
LEMMA HeaderBeginsKept ==
    ASSUME NEW p \in Parsers, p.result = "Incompleted",
           NEW text \in Seq(Chars), NEW n \in 0..(Len(text) - 1), HeadStage(p, text, n),
           NEW c, c = text[n + 1],
           p.state = "HeaderLineStart", Target(p, c) = "HeaderName"
    PROVE  Sound(consume(p, c), text, n + 1)
<1> DEFINE item == [name |-> <<c>>, value |-> <<>>]
<1>0. PICK t \in HeadStates : t = Target(p, c)
  BY DEF HeadStates
<1>1. PICK q : q = Pushed(p, c, t)
  OBVIOUS
<1>2. q = [p EXCEPT !.headers = Append(p.headers, item)]
  BY <1>0, <1>1 DEF Pushed
<1>3. item \in Items
  BY DEF Items
<1> HIDE DEF item
<1>4. PICK gs : gs = Append(p.headers, item)
  OBVIOUS
<1>5. /\ gs \in Seq(Items) /\ Len(gs) = Len(p.headers) + 1 /\ Len(p.headers) \in Nat
      /\ \A i \in 1..Len(p.headers) : gs[i] = p.headers[i]
      /\ gs # <<>>
  BY <1>3, <1>4 DEF Parsers
<1>6. q \in Parsers
  BY <1>2, <1>4, <1>5 DEF Parsers
<1>7. /\ q.result = p.result /\ q.method = p.method /\ q.chunked = p.chunked
      /\ q.headers = gs /\ q.content = p.content /\ q.contentSize = p.contentSize
  BY <1>2, <1>4 DEF Parsers
<1>8. PICK r : r = consume(p, c)
  OBVIOUS
<1>9. /\ r \in Parsers
      /\ r.state = t /\ r.result = q.result /\ r.method = q.method
      /\ r.chunked = q.chunked /\ r.headers = q.headers
      /\ r.content = q.content /\ r.contentSize = q.contentSize
  BY <1>0, <1>1, <1>6, <1>8, GoesOn
<1>10. HasBody(r) <=> HasBody(p)
  BY <1>7, <1>9 DEF HasBody
<1>11. HasBody(p) => Says(gs, Len(gs) - 1, p.contentSize)
  <2>1. HasBody(p) => Says(p.headers, Len(p.headers), p.contentSize)
    BY DEF HeadStage
  <2>2. HasBody(p) => Says(gs, Len(p.headers), p.contentSize)
    <3>1. PICK k \in Int : k = Len(p.headers)
      BY <1>5
    <3> QED BY <1>5, <2>1, <3>1, SaysSame
  <2>3. Len(gs) - 1 = Len(p.headers)
    BY <1>5
  <2> QED BY <2>2, <2>3
<1>12. HeadStage(r, text, n + 1)
  BY <1>0, <1>5, <1>7, <1>9, <1>10, <1>11 DEF HeadStage, HeadStates
<1> QED BY <1>7, <1>8, <1>9, <1>12 DEF Sound, Stage

\* The last header's name or value grows.
LEMMA HeaderGrowsKept ==
    ASSUME NEW p \in Parsers, p.result = "Incompleted",
           NEW text \in Seq(Chars), NEW n \in 0..(Len(text) - 1), HeadStage(p, text, n),
           NEW c, c = text[n + 1], NEW t, t = Target(p, c),
           \/ p.state = "HeaderName" /\ t = "HeaderName"
           \/ p.state \in {"HeaderLws", "HeaderValue"} /\ t = "HeaderValue"
    PROVE  Sound(consume(p, c), text, n + 1)
<1>1. PICK q : q = Pushed(p, c, t)
  OBVIOUS
<1>2. PICK k : k = Len(p.headers)
  OBVIOUS
<1>3. p.headers \in Seq(Items) /\ k \in Nat /\ k > 0
  BY <1>2 DEF Parsers, HeadStage
<1>4. PICK h : h = p.headers[k]
  OBVIOUS
<1>5. h \in Items
  BY <1>2, <1>3, <1>4
<1>6. c \in Chars
  OBVIOUS
<1>7. PICK g \in Items :
        /\ q = [p EXCEPT !.headers = [p.headers EXCEPT ![k] = g]]
        /\ t = "HeaderValue" => g.name = h.name
  <2>1. CASE t = "HeaderName"
    <3>1. q = [p EXCEPT !.headers = [p.headers EXCEPT ![k] =
                                        [h EXCEPT !.name = Append(h.name, c)]]]
      BY <1>1, <1>2, <1>4, <2>1 DEF Pushed
    <3>2. Append(h.name, c) \in Seq(Chars)
      BY <1>5, <1>6 DEF Items
    <3>3. [h EXCEPT !.name = Append(h.name, c)] \in Items
      BY <1>5, <3>2 DEF Items
    <3> QED BY <2>1, <3>1, <3>3
  <2>2. CASE t = "HeaderValue"
    <3>1. q = [p EXCEPT !.headers = [p.headers EXCEPT ![k] =
                                        [h EXCEPT !.value = Append(h.value, c)]]]
      BY <1>1, <1>2, <1>4, <2>2 DEF Pushed
    <3>2. Append(h.value, c) \in Seq(Chars)
      BY <1>5, <1>6 DEF Items
    <3>3. /\ [h EXCEPT !.value = Append(h.value, c)] \in Items
          /\ [h EXCEPT !.value = Append(h.value, c)].name = h.name
      BY <1>5, <3>2 DEF Items
    <3> QED BY <3>1, <3>3
  <2> QED BY <2>1, <2>2
<1>8. PICK gs : gs = [p.headers EXCEPT ![k] = g]
  OBVIOUS
<1>9. /\ gs \in Seq(Items) /\ Len(gs) = k /\ gs[k] = g /\ gs # <<>>
      /\ \A i \in 1..(k - 1) : gs[i] = p.headers[i]
  BY <1>2, <1>3, <1>8
<1>10. q \in Parsers
  BY <1>7, <1>8, <1>9 DEF Parsers
<1>11. /\ q.result = p.result /\ q.method = p.method /\ q.chunked = p.chunked
       /\ q.headers = gs /\ q.content = p.content /\ q.contentSize = p.contentSize
  BY <1>7, <1>8 DEF Parsers
<1>12. PICK r : r = consume(p, c)
  OBVIOUS
<1>13. /\ r \in Parsers
       /\ r.state = t /\ r.result = q.result /\ r.method = q.method
       /\ r.chunked = q.chunked /\ r.headers = q.headers
       /\ r.content = q.content /\ r.contentSize = q.contentSize
  <2>1. t \in HeadStates
    BY DEF HeadStates
  <2> QED BY <1>1, <1>10, <1>12, <2>1, GoesOn
<1>14. HasBody(r) <=> HasBody(p)
  BY <1>11, <1>13 DEF HasBody
<1>15. LastHeader(r) = g /\ LastHeader(p) = h
  BY <1>2, <1>4, <1>9, <1>11, <1>13 DEF LastHeader
<1>16. HasBody(p) /\ (t = "HeaderValue" => g.name # CL) => Says(gs, k - 1, p.contentSize)
  <2>1. HasBody(p) /\ (t = "HeaderValue" => g.name # CL) => Says(p.headers, k - 1, p.contentSize)
    <3>1. CASE p.state = "HeaderName"
      BY <1>2, <3>1 DEF HeadStage
    <3>2. CASE p.state = "HeaderValue" /\ t = "HeaderValue"
      BY <1>2, <1>7, <1>15, <3>2 DEF HeadStage
    <3>3. CASE p.state = "HeaderLws" /\ t = "HeaderValue"
      <4>1. HasBody(p) => Says(p.headers, k, p.contentSize)
        BY <1>2, <3>3 DEF HeadStage
      <4> QED BY <1>3, <1>4, <1>7, <3>3, <4>1, SaysNext
    <3> QED BY <3>1, <3>2, <3>3
  <2>2. k - 1 \in Int
    BY <1>3
  <2> QED BY <1>9, <2>1, <2>2, SaysSame
<1>17. HeadStage(r, text, n + 1)
  BY <1>9, <1>11, <1>13, <1>14, <1>15, <1>16 DEF HeadStage, HeadStates
<1> QED BY <1>11, <1>12, <1>13, <1>17 DEF Sound, Stage

\* A header's line ends: it may say how long the body is, or that it comes in chunks.
LEMMA HeaderEndsKept ==
    ASSUME NEW p \in Parsers, p.result = "Incompleted",
           NEW text \in Seq(Chars), NEW n \in 0..(Len(text) - 1), HeadStage(p, text, n),
           NEW c, c = text[n + 1], NEW t, t = Target(p, c),
           p.state = "HeaderValue", c = "CR", t = "ExpectingNewline_2"
    PROVE  Sound(consume(p, c), text, n + 1)
<1>1. PICK q : q = Pushed(p, c, t)
  OBVIOUS
<1>2. q = HeaderRead(p)
  BY <1>1 DEF Pushed
<1>3. PICK k : k = Len(p.headers)
  OBVIOUS
<1>4. p.headers \in Seq(Items) /\ k \in Nat \ {0}
  BY <1>3 DEF Parsers, HeadStage
<1>5. PICK h : h = p.headers[k]
  OBVIOUS
<1>6. h \in Items /\ LastHeader(p) = h
  BY <1>3, <1>4, <1>5 DEF LastHeader
<1>7. PICK size \in Int : size = NumberIn(h.value, 10)
  <2>1. Len(h.value) \in Nat
    BY <1>6 DEF Items
  <2> QED BY <2>1, NumberType
<1>8. /\ q \in Parsers
      /\ q.result = p.result /\ q.method = p.method
      /\ q.headers = p.headers /\ q.content = p.content
      /\ ~HasBody(p) => q.chunked = p.chunked /\ q.contentSize = p.contentSize
      /\ HasBody(p) => q.contentSize = IF h.name = CL THEN size ELSE p.contentSize
  <2>1. CASE HasBody(p) /\ h.name = CL
    <3>1. q = [p EXCEPT !.contentSize = size]
      BY <1>2, <1>6, <1>7, <2>1 DEF HeaderRead, CL
    <3> QED BY <2>1, <3>1 DEF Parsers
  <2>2. CASE HasBody(p) /\ h.name = <<"Transfer-Encoding">> /\ h.value = <<"chunked">>
    <3>1. h.name # CL
      BY <2>2 DEF CL
    <3>2. PICK yes \in BOOLEAN : yes = TRUE
      OBVIOUS
    <3>3. q = [p EXCEPT !.chunked = yes]
      BY <1>2, <1>6, <2>2, <3>1, <3>2 DEF HeaderRead, CL
    <3>4. q \in Parsers
      BY <3>3 DEF Parsers
    <3>5. /\ q.result = p.result /\ q.method = p.method /\ q.contentSize = p.contentSize
          /\ q.headers = p.headers /\ q.content = p.content
      BY <3>3 DEF Parsers
    <3> QED BY <2>2, <3>1, <3>4, <3>5
  <2>3. CASE /\ ~(HasBody(p) /\ h.name = CL)
             /\ ~(HasBody(p) /\ h.name = <<"Transfer-Encoding">> /\ h.value = <<"chunked">>)
    <3>1. q = p
      BY <1>2, <1>6, <2>3 DEF HeaderRead, CL
    <3> QED BY <2>3, <3>1
  <2> QED BY <2>1, <2>2, <2>3
<1>9. PICK r : r = consume(p, c)
  OBVIOUS
<1>10. /\ r \in Parsers
       /\ r.state = t /\ r.result = q.result /\ r.method = q.method
       /\ r.chunked = q.chunked /\ r.headers = q.headers
       /\ r.content = q.content /\ r.contentSize = q.contentSize
  <2>1. t \in HeadStates
    BY DEF HeadStates
  <2> QED BY <1>1, <1>8, <1>9, <2>1, GoesOn
<1>11. HasBody(r) <=> HasBody(p)
  BY <1>8, <1>10 DEF HasBody
<1>12. HasBody(p) => Says(p.headers, k, r.contentSize)
  <2>1. CASE h.name = CL
    BY <1>4, <1>5, <1>7, <1>8, <1>10, <2>1, SaysNext
  <2>2. CASE h.name # CL
    <3>1. HasBody(p) => Says(p.headers, k - 1, p.contentSize)
      BY <1>3, <1>6, <2>2 DEF HeadStage
    <3> QED BY <1>4, <1>5, <1>8, <1>10, <2>2, <3>1, SaysNext
  <2> QED BY <2>1, <2>2
<1>13. Return(text, n + 1)
  BY Moves
<1>14. HeadStage(r, text, n + 1)
  BY <1>3, <1>8, <1>10, <1>11, <1>12, <1>13 DEF HeadStage, HeadStates
<1> QED BY <1>8, <1>9, <1>10, <1>14 DEF Sound, Stage

\* The head.
LEMMA HeadKept ==
    ASSUME NEW p \in Parsers, p.result = "Incompleted",
           NEW text \in Seq(Chars), NEW n \in 0..(Len(text) - 1), HeadStage(p, text, n)
    PROVE  Sound(consume(p, text[n + 1]), text, n + 1)
<1>1. PICK c : c = text[n + 1]
  OBVIOUS
<1>2. PICK t : t = Target(p, c)
  OBVIOUS
<1>3. p.state \in HeadStates
  BY DEF HeadStage
<1>4. CASE p.state = "ExpectingNewline_3"
  BY <1>4, HeadEndKept
<1>5. CASE p.state = "HeaderLineStart" /\ t = "HeaderName"
  BY <1>1, <1>2, <1>5, HeaderBeginsKept
<1>6. CASE \/ p.state = "HeaderName" /\ t = "HeaderName"
           \/ p.state \in {"HeaderLws", "HeaderValue"} /\ t = "HeaderValue"
  BY <1>1, <1>2, <1>6, HeaderGrowsKept
<1>7. CASE p.state = "HeaderValue" /\ c = "CR" /\ t = "ExpectingNewline_2"
  BY <1>1, <1>2, <1>7, HeaderEndsKept
<1>8. CASE \/ p.state # "ExpectingNewline_3" /\ t = "Error"
           \/ p.state = "HeaderLineStart" /\ p.headers # <<>> /\ t = "HeaderLws"
           \/ p.state = "HeaderLineStart" /\ c = "CR" /\ t = "ExpectingNewline_3"
           \/ p.state = "HeaderLws" /\ c = "CR" /\ t = "ExpectingNewline_2"
           \/ p.state = "HeaderLws" /\ t = "HeaderLws"
           \/ p.state = "HeaderName" /\ t = "SpaceBeforeHeaderValue"
           \/ p.state = "SpaceBeforeHeaderValue" /\ t = "HeaderValue"
           \/ p.state = "ExpectingNewline_2" /\ c = "LF" /\ t = "HeaderLineStart"
  BY <1>1, <1>2, <1>8, HeadPassKept
<1> QED BY <1>2, <1>3, <1>4, <1>5, <1>6, <1>7, <1>8, HeadTargets

-----------------------------------------------------------------------------
(***************************************************************************)
(* The invariant, and what follows.                                        *)
(***************************************************************************)

\* The parser knows of what it has read what its state says.
Inv ==
    /\ sent \in Texts
    /\ at \in 0..Len(sent.text)
    /\ Sound(parser, sent.text, at)

\* The invariant holds before the first character.
LEMMA InitInv == Init => Inv
<1> SUFFICES ASSUME Init PROVE Inv
  OBVIOUS
<1>1. sent \in Texts /\ at = 0 /\ sent.text \in Seq(Chars) /\ at \in 0..Len(sent.text)
  BY TextsOfChars DEF Init
<1>2. PICK p : p = NewParser
  OBVIOUS
<1>3. p \in Parsers
  <2>1. "RequestMethodStart" \in States /\ <<>> \in Seq(Chars) /\ <<>> \in Seq(Items)
    BY DEF States, LineStates
  <2>2. "Incompleted" \in {"Incompleted", "Completed", "Error"} /\ 0 \in Int /\ FALSE \in BOOLEAN
    OBVIOUS
  <2> QED BY <1>2, <2>1, <2>2, Zenon DEF NewParser, Parsers
<1>4. /\ p.result = "Incompleted" /\ p.state = "RequestMethodStart" /\ p.contentSize = 0
      /\ p.headers = <<>> /\ p.content = <<>>
  BY <1>2 DEF NewParser
<1>5. ~p.chunked
  BY <1>2 DEF NewParser
<1>6. LineStage(p, sent.text, at)
  BY <1>4, <1>5 DEF LineStage, LineStates
<1>7. Sound(p, sent.text, at)
  BY <1>3, <1>4, <1>6 DEF Sound, Stage
<1> QED BY <1>1, <1>2, <1>7 DEF Init, Inv

\* Every character keeps it.
LEMMA InvStep == Inv /\ [Next]_vars => Inv'
<1> SUFFICES ASSUME Inv, [Next]_vars PROVE Inv'
  OBVIOUS
<1>1. CASE Consume
  <2>1. PICK text : text = sent.text
    OBVIOUS
  <2>2. text \in Seq(Chars) /\ at \in 0..(Len(text) - 1)
    BY <1>1, <2>1, TextsOfChars DEF Inv, Consume
  <2>3. PICK p : p = parser
    OBVIOUS
  <2>4. p \in Parsers /\ p.result = "Incompleted" /\ Stage(p, text, at)
    BY <1>1, <2>1, <2>3 DEF Inv, Consume, Sound
  <2>5. Sound(consume(p, text[at + 1]), text, at + 1)
    <3>1. CASE LineStage(p, text, at)
      BY <2>2, <2>4, <3>1, LineKept
    <3>2. CASE HeadStage(p, text, at)
      BY <2>2, <2>4, <3>2, HeadKept
    <3>3. CASE PostStage(p)
      BY <2>2, <2>4, <3>3, PostKept
    <3>4. CASE ChunkStage(p, text, at)
      BY <2>2, <2>4, <3>4, ChunkKept
    <3> QED BY <2>4, <3>1, <3>2, <3>3, <3>4 DEF Stage
  <2>6. sent' = sent /\ at' = at + 1 /\ parser' = consume(p, text[at + 1])
    BY <1>1, <2>1, <2>3 DEF Consume
  <2>7. at' \in 0..Len(text)
    BY <2>2, <2>6
  <2> QED BY <2>1, <2>5, <2>6, <2>7 DEF Inv
<1>2. CASE UNCHANGED vars
  BY <1>2 DEF Inv, vars
<1> QED BY <1>1, <1>2 DEF Next

\* The last one of some indices.
LEMMA LastIndex ==
    ASSUME NEW k \in Nat, NEW I \in SUBSET (1..k), I # {}
    PROVE  Max(I) \in I /\ \A i \in I : i <= Max(I)
<1> DEFINE S == {d \in Nat : k - d \in I}
<1>1. S \in SUBSET Nat /\ S # {}
  <2>1. PICK i \in I : TRUE
    OBVIOUS
  <2>2. k - i \in Nat /\ k - (k - i) = i
    OBVIOUS
  <2> QED BY <2>1, <2>2
<1>2. PICK d \in S : \A e \in S : d <= e
  BY <1>1, LeastNatural
<1>3. \E m \in I : \A i \in I : i <= m
  <2>1. ASSUME NEW i \in I PROVE i <= k - d
    <3>1. k - i \in Nat /\ k - (k - i) = i
      OBVIOUS
    <3>2. k - i \in S /\ d \in Nat
      BY <3>1
    <3>3. d <= k - i
      BY <1>2, <3>2
    <3>4. i \in Nat
      OBVIOUS
    <3> HIDE DEF S
    <3> QED BY <3>2, <3>3, <3>4
  <2>2. k - d \in I
    BY <1>2
  <2> QED BY <2>1, <2>2
<1> QED BY <1>3 DEF Max

\* What the headers say is what they announce.
LEMMA SaysAnnounced ==
    ASSUME parser \in Parsers, NEW m, Says(parser.headers, Len(parser.headers), m)
    PROVE  Announced = m
<1> DEFINE hs == parser.headers
           k == Len(hs)
           I == {i \in 1..k : hs[i].name = CL}
           last == SelectLastInSeq(hs, LAMBDA h : h.name = <<"Content-Length">>)
<1>1. k \in Nat
  BY DEF Parsers
<1>2. last = IF I # {} THEN Max(I) ELSE 0
  BY DEF SelectLastInSeq, CL
<1>3. Announced = IF last = 0 THEN 0 ELSE NumberIn(hs[last].value, 10)
  BY Zenon DEF Announced
<1>4. Says(hs, k, m)
  OBVIOUS
<1> HIDE DEF hs, k, last
<1>5. CASE I = {}
  <2>1. m = 0
    BY <1>4, <1>5 DEF Says
  <2> QED BY <1>2, <1>3, <1>5, <2>1
<1>6. CASE I # {}
  <2>0. I \in SUBSET (1..k)
    OBVIOUS
  <2>1. Max(I) \in I /\ \A i \in I : i <= Max(I)
    BY <1>1, <1>6, <2>0, LastIndex
  <2>2. PICK i \in 1..k : /\ hs[i].name = CL
                          /\ m = NumberIn(hs[i].value, 10)
                          /\ \A j \in (i + 1)..k : hs[j].name # CL
    BY <1>4, <1>6 DEF Says
  <2>3. Max(I) = i
    <3>1. i <= Max(I) /\ Max(I) \in 1..k /\ hs[Max(I)].name = CL
      BY <2>1, <2>2
    <3> HIDE DEF I
    <3> QED BY <1>1, <2>2, <3>1
  <2> QED BY <1>2, <1>3, <1>6, <2>2, <2>3
<1> QED BY <1>5, <1>6

\* What was read last is the end of what was read.
LEMMA EndOfText ==
    ASSUME NEW text \in Seq(Chars), NEW n \in 0..Len(text)
    PROVE  /\ Return(text, n) => IsSuffix(<<"CR">>, SubSeq(text, 1, n))
           /\ EmptyLine(text, n) => IsSuffix(<<"CR", "LF", "CR", "LF">>, SubSeq(text, 1, n))
<1>1. PICK u : u = SubSeq(text, 1, n)
  OBVIOUS
<1>2. u \in Seq(Chars) /\ Len(u) = n /\ \A i \in 1..n : u[i] = text[i]
  BY <1>1
<1>3. PICK v : v = Reverse(u)
  OBVIOUS
<1>4. /\ v \in Seq(Chars) /\ Len(v) = n
      /\ \A i \in 1..n : v[i] = text[n - i + 1]
  <2>1. v = [i \in 1..n |-> u[n - i + 1]]
    BY <1>2, <1>3, Zenon DEF Reverse
  <2>2. ASSUME NEW i \in 1..n PROVE u[n - i + 1] \in Chars /\ u[n - i + 1] = text[n - i + 1]
    <3>1. n - i + 1 \in 1..n
      OBVIOUS
    <3> QED BY <1>2, <3>1
  <2>3. n \in Nat /\ v \in [1..n -> Chars]
    BY <2>1, <2>2
  <2>4. v \in Seq(Chars)
    BY <2>3
  <2>5. Len(v) = n
    BY <2>1, <2>3, <2>4
  <2>6. \A i \in 1..n : v[i] = text[n - i + 1]
    BY <2>1, <2>2
  <2> QED BY <2>4, <2>5, <2>6
<1>5. ASSUME Return(text, n) PROVE IsSuffix(<<"CR">>, u)
  <2>1. PICK w : w = Reverse(<<"CR">>)
    OBVIOUS
  <2>2. w = <<"CR">>
    BY <2>1 DEF Reverse
  <2>3. n >= 1 /\ v[1] = "CR"
    BY <1>4, <1>5 DEF Return, Back
  <2>4. IsPrefix(w, v)
    BY <1>4, <2>2, <2>3 DEF IsPrefix
  <2> QED BY <1>3, <2>1, <2>4 DEF IsSuffix
<1>6. ASSUME EmptyLine(text, n) PROVE IsSuffix(<<"CR", "LF", "CR", "LF">>, u)
  <2>1. PICK w : w = Reverse(<<"CR", "LF", "CR", "LF">>)
    OBVIOUS
  <2>2. w = <<"LF", "CR", "LF", "CR">>
    BY <2>1 DEF Reverse
  <2>3. n >= 4 /\ v[1] = "LF" /\ v[2] = "CR" /\ v[3] = "LF" /\ v[4] = "CR"
    BY <1>4, <1>6 DEF EmptyLine, Back
  <2>4. IsPrefix(w, v)
    BY <1>4, <2>2, <2>3 DEF IsPrefix
  <2> QED BY <1>3, <2>1, <2>4 DEF IsSuffix
<1> QED BY <1>1, <1>5, <1>6

\* The frame that the invariant knows is the one that the property means.
LEMMA FramedIsFramed == Inv => CompleteIsFramed
<1> SUFFICES ASSUME Inv, parser.result = "Completed" PROVE CompleteIsFramed
  BY DEF CompleteIsFramed
<1>1. /\ sent.text \in Seq(Chars) /\ at \in 0..Len(sent.text)
      /\ parser \in Parsers /\ Framed(parser, sent.text, at)
  BY TextsOfChars DEF Inv, Sound
<1>2. \A m : Says(parser.headers, Len(parser.headers), m) => Announced = m
  BY <1>1, SaysAnnounced
<1>3. /\ Return(sent.text, at) => IsSuffix(<<"CR">>, Consumed)
      /\ EmptyLine(sent.text, at) => IsSuffix(<<"CR", "LF", "CR", "LF">>, Consumed)
  BY <1>1, EndOfText DEF Consumed
<1> QED BY <1>1, <1>2, <1>3 DEF Framed, CompleteIsFramed

\* However a text is damaged, the parser takes it for complete only at a frame's
\* end, and with as many characters of content as the head announced: for
\* every set of texts, of any length and with any number of headers.
THEOREM FramesAreWhole == Spec => []CompleteIsFramed
<1>1. Spec => []Inv
  BY InitInv, InvStep, PTL DEF Spec
<1> QED BY <1>1, FramedIsFramed, PTL
=============================================================================
