----------------------------- MODULE MCHttpParser -----------------------------
(* Instances of HttpParser for TLC: requests as a client writes them, and   *)
(* some of their texts with one character lost, added or changed.           *)
EXTENDS HttpParser

MCWords == {"GET", "POST", "H", "T", "P", "y", "chunked", "Connection", "Host"}
MCNames == {"Content-Length", "Transfer-Encoding", "Keep-Alive"}

CRLF == <<"CR", "LF">>
DigitOf(n) == CHOOSE d \in Digits : DigitValue[d] = n

Line(name, value) == <<name, ":", "SP">> \o value \o CRLF
Item(name, value) == [name |-> <<name>>, value |-> value]

\* Heads: what is written and what is meant.
NoHeaders == [text |-> <<>>, headers |-> <<>>]
Plain(name, value) == [text |-> Line(name, value), headers |-> <<Item(name, value)>>]
FoldedHost == [text |-> Line("Host", <<"y">> \o CRLF \o <<"TAB", "SP", "y">>),
               headers |-> <<Item("Host", <<"y", "y">>)>>]
Heads == {NoHeaders, Plain("Connection", <<"Keep-Alive">>), Plain("Connection", <<"y">>),
          FoldedHost}

\* Bodies: the headers that announce them, and how they are written.
Sized(content) ==
    [head |-> Plain("Content-Length", <<DigitOf(Len(content))>>),
     text |-> content, content |-> content]
Chunk(content, extension) ==
    <<DigitOf(Len(content))>> \o extension \o CRLF \o content \o CRLF
Chunked(first, second, extension, trailer) ==
    [head |-> Plain("Transfer-Encoding", <<"chunked">>),
     text |-> Chunk(first, extension) \o Chunk(second, <<>>)
              \o <<"0">> \o CRLF \o trailer \o CRLF,
     content |-> first \o second]
\* Both a length and chunks: the chunks count.
Both(body) ==
    [body EXCEPT !.head = [text |-> Line("Content-Length", <<"1">>) \o body.head.text,
                           headers |-> <<Item("Content-Length", <<"1">>)>> \o body.head.headers]]
Bodies ==
    {Sized(<<>>), Sized(<<"y", "CR", "LF">>),
     Chunked(<<"y", "LF">>, <<"1">>, <<";", "y", "=", "y">>, <<>>),
     Both(Chunked(<<"y">>, <<"y">>, <<>>, <<>>)),
     Chunked(<<"CR">>, <<"y", "y">>, <<>>, <<"Host", ":", "SP", "y">> \o CRLF)}

Version(minor) == <<"SP", "H", "T", "T", "P", "/", "1", ".", DigitOf(minor)>> \o CRLF

Keeps(minor, head) ==
    IF head.headers # <<>> /\ head.headers[1].name = <<"Connection">>
    THEN head.headers[1].value = <<"Keep-Alive">>
    ELSE minor = 1

Request(method, minor, head, body) ==
    [intact |-> TRUE,
     text |-> <<method, "SP", "/", "y">> \o Version(minor)
              \o head.text \o body.head.text \o CRLF \o body.text,
     request |-> [method |-> <<method>>, uri |-> <<"/", "y">>, major |-> 1,
                  minor |-> minor, headers |-> head.headers \o body.head.headers,
                  content |-> body.content, keepAlive |-> Keeps(minor, head)]]

NoBody == [head |-> NoHeaders, text |-> <<>>, content |-> <<>>]
Ancient ==
    [intact |-> TRUE, text |-> <<"GET", "SP", "/", "CR">>,
     request |-> [method |-> <<"GET">>, uri |-> <<"/">>, major |-> 0, minor |-> 9]]

Intact ==
    {Ancient} \union {Request("GET", minor, head, NoBody) : minor \in 0..1, head \in Heads}
    \union {Request("POST", 1, head, body) : head \in Heads, body \in Bodies}

\* One character lost, added or changed.
Noise == {"CR", "LF", "SP", ":", "1", "y", "CTL", "8BIT"}
Spoilt(text) ==
    {RemoveAt(text, i) : i \in 1..Len(text)}
    \union {InsertAt(text, i, c) : i \in 1..Len(text), c \in Noise}
    \union {ReplaceAt(text, i, c) : i \in 1..Len(text), c \in Noise}
Fragile ==
    {Ancient, Request("GET", 0, FoldedHost, NoBody)}
    \union {Request("POST", 1, NoHeaders, body) : body \in Bodies}
Damaged ==
    UNION {{[intact |-> FALSE, text |-> text] : text \in Spoilt(s.text)} : s \in Fragile}

MCTexts == Intact \union Damaged

=============================================================================
