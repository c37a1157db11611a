------------------------------ MODULE HttpParser ------------------------------
(***************************************************************************)
(* HttpRequestParser: the automaton WebServer hands a received request to. *)
(* A character is a member of a small set; a run of letters that no state  *)
(* tells apart ("GET", "chunked") is one.  strcasecmp is left out: names   *)
(* and values are the members themselves.                                  *)
(***************************************************************************)
EXTENDS Integers, Sequences, SequencesExt

CONSTANTS
    Words,      \* runs of letters
    Names,      \* runs of name characters that are not all letters
    Texts       \* what may arrive: a text, and the request it was written from

VARIABLES
    sent,       \* what the client sent, a member of Texts
    at,         \* characters consumed
    parser      \* the parser, the Request it fills and its last result

vars == <<sent, at, parser>>

Digits   == {"0", "1", "2", "3", "9"}
Controls == {"CR", "LF", "TAB", "CTL"}
Specials == {"SP", "TAB", ":", ";", "=", "/"}
Alnum    == Words \union Digits
Chars    == Alnum \union Names \union Controls \union Specials \union {".", "8BIT"}

NameChars == Chars \ (Controls \union Specials \union {"8BIT"})
Printable == Chars \ Controls

ASSUME TextsOfChars ==
    \A s \in Texts : s.text \in Seq(Chars)

DigitValue == [d \in Digits |->
                 CASE d = "0" -> 0 [] d = "1" -> 1 [] d = "2" -> 2 [] d = "3" -> 3
                   [] d = "9" -> 9]

\* atoi and strtol: the number the digits after the leading spaces make, 0 when
\* there is none.  No run of letters is taken to begin with a hexadecimal digit.
NextDigit(n, c, base) ==
    CASE c \in Digits /\ n.open -> [value |-> n.value * base + DigitValue[c],
                                   begun |-> TRUE, open |-> TRUE]
      [] c = "SP" /\ ~n.begun /\ n.open -> n
      [] OTHER -> [n EXCEPT !.open = FALSE]

NumberIn(s, base) ==
    LET read[i \in 0..Len(s)] ==
            IF i = 0 THEN [value |-> 0, begun |-> FALSE, open |-> TRUE]
            ELSE NextDigit(read[i - 1], s[i], base)
    IN  read[Len(s)].value

-----------------------------------------------------------------------------
(***************************************************************************)
(* The edges of consume's switch that depend on the state and the          *)
(* character alone.  A character without an edge is an error.              *)
(***************************************************************************)

Edges ==
    [RequestMethodStart |-> {<<NameChars, "RequestMethod">>},
     RequestMethod |-> {<<{"SP"}, "RequestUriStart">>, <<NameChars, "RequestMethod">>},
     RequestUriStart |-> {<<Printable, "RequestUri">>},
     RequestUri |-> {<<{"SP"}, "RequestHttpVersion_h">>, <<{"CR"}, "Completed">>,
                     <<Printable \ {"SP"}, "RequestUri">>},
     RequestHttpVersion_h |-> {<<{"H"}, "RequestHttpVersion_ht">>},
     RequestHttpVersion_ht |-> {<<{"T"}, "RequestHttpVersion_htt">>},
     RequestHttpVersion_htt |-> {<<{"T"}, "RequestHttpVersion_http">>},
     RequestHttpVersion_http |-> {<<{"P"}, "RequestHttpVersion_slash">>},
     RequestHttpVersion_slash |-> {<<{"/"}, "RequestHttpVersion_majorStart">>},
     RequestHttpVersion_majorStart |-> {<<Digits, "RequestHttpVersion_major">>},
     RequestHttpVersion_major |-> {<<{"."}, "RequestHttpVersion_minorStart">>,
                                   <<Digits, "RequestHttpVersion_major">>},
     RequestHttpVersion_minorStart |-> {<<Digits, "RequestHttpVersion_minor">>},
     RequestHttpVersion_minor |-> {<<{"CR"}, "ResponseHttpVersion_newLine">>,
                                   <<Digits, "RequestHttpVersion_minor">>},
     ResponseHttpVersion_newLine |-> {<<{"LF"}, "HeaderLineStart">>},
     HeaderLineStart |-> {<<{"CR"}, "ExpectingNewline_3">>, <<NameChars, "HeaderName">>},
     HeaderLws |-> {<<{"CR"}, "ExpectingNewline_2">>, <<{"SP", "TAB"}, "HeaderLws">>,
                    <<Printable \ {"SP"}, "HeaderValue">>},
     HeaderName |-> {<<{":"}, "SpaceBeforeHeaderValue">>, <<NameChars, "HeaderName">>},
     SpaceBeforeHeaderValue |-> {<<{"SP"}, "HeaderValue">>},
     HeaderValue |-> {<<{"CR"}, "ExpectingNewline_2">>, <<Printable, "HeaderValue">>},
     ExpectingNewline_2 |-> {<<{"LF"}, "HeaderLineStart">>},
     ChunkSize |-> {<<Alnum, "ChunkSize">>, <<{";"}, "ChunkExtensionName">>,
                    <<{"CR"}, "ChunkSizeNewLine">>},
     ChunkExtensionName |-> {<<Alnum \union {"SP"}, "ChunkExtensionName">>,
                             <<{"="}, "ChunkExtensionValue">>, <<{"CR"}, "ChunkSizeNewLine">>},
     ChunkExtensionValue |-> {<<Alnum \union {"SP"}, "ChunkExtensionValue">>,
                              <<{"CR"}, "ChunkSizeNewLine">>},
     ChunkSizeNewLine_2 |-> {<<{"CR"}, "ChunkSizeNewLine_3">>, <<Words, "ChunkTrailerName">>},
     ChunkSizeNewLine_3 |-> {<<{"LF"}, "Completed">>},
     ChunkTrailerName |-> {<<Alnum, "ChunkTrailerName">>, <<{":"}, "ChunkTrailerValue">>},
     ChunkTrailerValue |-> {<<Alnum \union {"SP"}, "ChunkTrailerValue">>,
                            <<{"CR"}, "ChunkSizeNewLine">>},
     ChunkDataNewLine_1 |-> {<<{"CR"}, "ChunkDataNewLine_2">>},
     ChunkDataNewLine_2 |-> {<<{"LF"}, "ChunkSize">>}]

HasBody(p) == p.method \in {<<"POST">>, <<"PUT">>}

\* Slip: the end of the head is not checked for its newline.
HeadEnds_Unchecked(p, c) ==
    IF p.chunked THEN "ChunkSize"
    ELSE IF p.contentSize # 0 THEN "Post"
    ELSE "Completed"

\* With a body to come the character is not looked at.
HeadEnds(p, c) ==
    IF p.chunked THEN "ChunkSize"
    ELSE IF p.contentSize # 0 THEN "Post"
    ELSE IF c = "LF" THEN "Completed" ELSE "Error"

Target(p, c) ==
    CASE p.state = "ExpectingNewline_3" -> HeadEnds(p, c)
      [] p.state = "Post" ->
            IF p.contentSize = 1 THEN "Completed" ELSE "Post"
      [] p.state = "ChunkSizeNewLine" ->
            IF c # "LF" THEN "Error"
            ELSE IF NumberIn(p.chunkSizeStr, 16) = 0 THEN "ChunkSizeNewLine_2" ELSE "ChunkData"
      [] p.state = "ChunkData" ->
            IF p.chunkSize = 1 THEN "ChunkDataNewLine_1" ELSE "ChunkData"
      [] p.state = "HeaderLineStart" /\ p.headers # <<>> /\ c \in {"SP", "TAB"} -> "HeaderLws"
      [] OTHER ->
            LET taken == {e \in Edges[p.state] : c \in e[1]}
            IN  IF taken = {} THEN "Error" ELSE (CHOOSE e \in taken : TRUE)[2]

-----------------------------------------------------------------------------
(***************************************************************************)
(* What an edge does to the parser and the request.                        *)
(***************************************************************************)

NewParser ==
    [state |-> "RequestMethodStart", result |-> "Incompleted", contentSize |-> 0,
     chunkSizeStr |-> <<>>, chunkSize |-> 0, chunked |-> FALSE,
     method |-> <<>>, uri |-> <<>>, major |-> 0, minor |-> 0, headers |-> <<>>,
     content |-> <<>>, keepAlive |-> FALSE]

LastHeader(p) == p.headers[Len(p.headers)]

\* The end of a header's line, for a method that has a body.
HeaderRead(p) ==
    LET h == LastHeader(p)
    IN  CASE HasBody(p) /\ h.name = <<"Content-Length">> ->
                [p EXCEPT !.contentSize = NumberIn(h.value, 10)]
          [] HasBody(p) /\ h.name = <<"Transfer-Encoding">> /\ h.value = <<"chunked">> ->
                [p EXCEPT !.chunked = TRUE]
          [] OTHER -> p

\* The first Connection header decides, the version when there is none.
KeepAlive(p) ==
    LET i == SelectInSeq(p.headers, LAMBDA h : h.name = <<"Connection">>)
    IN  IF i # 0 THEN p.headers[i].value = <<"Keep-Alive">>
        ELSE p.keepAlive \/ p.major > 1 \/ (p.major = 1 /\ p.minor = 1)

\* Slip: the digits of a chunk's size stay for the next chunk.
SizeRead_Kept(p) ==
    [p EXCEPT !.chunkSize = NumberIn(p.chunkSizeStr, 16)]

SizeRead(p) ==
    [p EXCEPT !.chunkSize = NumberIn(p.chunkSizeStr, 16), !.chunkSizeStr = <<>>]

Pushed(p, c, target) ==
    CASE target = "RequestMethod" -> [p EXCEPT !.method = Append(@, c)]
      [] target = "RequestUri" -> [p EXCEPT !.uri = Append(@, c)]
      [] p.state = "RequestUri" /\ c = "CR" -> [p EXCEPT !.major = 0, !.minor = 9]
      [] target = "RequestHttpVersion_majorStart" -> [p EXCEPT !.major = 0, !.minor = 0]
      [] target = "RequestHttpVersion_major" -> [p EXCEPT !.major = @ * 10 + DigitValue[c]]
      [] target = "RequestHttpVersion_minor" -> [p EXCEPT !.minor = @ * 10 + DigitValue[c]]
      [] p.state = "HeaderLineStart" /\ target = "HeaderName" ->
            [p EXCEPT !.headers = Append(@, [name |-> <<c>>, value |-> <<>>])]
      [] p.state # "HeaderLineStart" /\ target = "HeaderName" ->
            [p EXCEPT !.headers[Len(p.headers)].name = Append(@, c)]
      [] p.state # "SpaceBeforeHeaderValue" /\ target = "HeaderValue" ->
            [p EXCEPT !.headers[Len(p.headers)].value = Append(@, c)]
      [] p.state = "HeaderValue" /\ target = "ExpectingNewline_2" -> HeaderRead(p)
      [] p.state = "ExpectingNewline_3" -> [p EXCEPT !.keepAlive = KeepAlive(p)]
      [] p.state = "Post" ->
            [p EXCEPT !.content = Append(@, c), !.contentSize = @ - 1]
      [] target = "ChunkSize" /\ c # "LF" /\ p.state = "ChunkSize" ->
            [p EXCEPT !.chunkSizeStr = Append(@, c)]
      [] p.state = "ChunkSizeNewLine" /\ target # "Error" -> SizeRead(p)
      [] p.state = "ChunkData" ->
            [p EXCEPT !.content = Append(@, c), !.chunkSize = @ - 1]
      [] OTHER -> p

\* One character of consume; a result other than Incompleted returns, and
\* leaves the state.
consume(p, c) ==
    LET target == Target(p, c)
        q      == Pushed(p, c, target)
    IN  IF target \in {"Completed", "Error"} THEN [q EXCEPT !.result = target]
        ELSE [q EXCEPT !.state = target]

-----------------------------------------------------------------------------
Init ==
    /\ sent \in Texts
    /\ at = 0
    /\ parser = NewParser

Consume ==
    /\ parser.result = "Incompleted"
    /\ at < Len(sent.text)
    /\ at' = at + 1
    /\ parser' = consume(parser, sent.text[at + 1])
    /\ UNCHANGED sent

Next == Consume
Spec == Init /\ [][Next]_vars

-----------------------------------------------------------------------------
\* A request written as the protocol has it is taken for complete at its last
\* character, neither before nor by an error on the way, and the request that
\* comes out is the one that was written: method, target, version, headers
\* unfolded, the body without its chunks' framing, and whether to keep the
\* connection.
RoundTrip ==
    sent.intact =>
        IF at < Len(sent.text) THEN parser.result = "Incompleted"
        ELSE /\ parser.result = "Completed"
             /\ \A field \in DOMAIN sent.request : parser[field] = sent.request[field]

Consumed == SubSeq(sent.text, 1, at)

\* What the last Content-Length of the head said.
Announced ==
    LET i == SelectLastInSeq(parser.headers, LAMBDA h : h.name = <<"Content-Length">>)
    IN  IF i = 0 THEN 0 ELSE NumberIn(parser.headers[i].value, 10)

\* However a text is damaged on the way, the parser calls it complete only at
\* a frame's end: the carriage return of a request of version 0.9, the empty
\* line of a head without a body or of the last chunk, or as many characters
\* of content as the head announced.
CompleteIsFramed ==
    parser.result = "Completed" =>
        \/ parser.state = "RequestUri" /\ IsSuffix(<<"CR">>, Consumed)
        \/ /\ IsSuffix(<<"CR", "LF", "CR", "LF">>, Consumed)
           /\ parser.chunked \/ parser.content = <<>>
           /\ HasBody(parser) /\ ~parser.chunked => Announced = 0
        \/ /\ HasBody(parser) /\ ~parser.chunked
           /\ Len(parser.content) = Announced
           /\ Announced > 0

=============================================================================
