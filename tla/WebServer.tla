------------------------------- MODULE WebServer -------------------------------
(***************************************************************************)
(* WebServer: the thread of web_loop, which asks the Ethernet server for a *)
(* client with data, reads what is there, answers it in several writes and *)
(* closes the connection.  The texts are abstract: a request is complete   *)
(* when all its pieces were read at once (HttpParser is the parser).       *)
(***************************************************************************)
EXTENDS EthernetServer, SequencesExt

CONSTANTS
    Asks,       \* the URI each client asks for
    Pages,      \* URIs of the index page
    Registered, \* URIs with a registered callback
    Regulars    \* clients that connect again and again

ASSUME AsksForUris == CLIENTS \subseteq DOMAIN Asks /\ Regulars \subseteq CLIENTS

vars == <<socketVars, slotVars, th>>

Idle == [pc |-> "scan", i |-> 1, status |-> "CLOSED", listening |-> FALSE, found |-> 0,
         entry |-> 0, remaining |-> 0, text |-> << >>]

\* init() calls begin().
Init ==
    /\ ServerInit
    /\ th = [Idle EXCEPT !.pc = "socketBegin"]

Whole(c) == [n \in 1..PIECES |-> <<c, n>>]

\* What service_requests answers to a text.
StatusFor(text) ==
    IF \E c \in CLIENTS : text = Whole(c)
    THEN IF Asks[text[1][1]] \in Pages \union Registered THEN 200 ELSE 404
    ELSE 500

-----------------------------------------------------------------------------
(***************************************************************************)
(* The EthernetClient that available() returned.                           *)
(***************************************************************************)

\* available() of the client says 0, whatever it has just received, if the
\* stack's last error is that some socket is not connected.
DataRead(s) == sock[s].received # << >> /\ error # "NOTCONN"

\* It receives only when nothing of an earlier call is left.
ClientAvailable(place, otherwise) ==
    LET s == slot[th.found].ptr IN
    IF th.remaining = 0
    THEN /\ Recv(s)
         /\ error' = ErrorAfterRecv(s)
         /\ th' = IF ~DataRead(s) THEN otherwise
                  ELSE [th EXCEPT !.pc = place, !.text = sock[s].received,
                                  !.remaining = Len(sock[s].received)]
    ELSE /\ th' = IF error = "NOTCONN" THEN otherwise ELSE [th EXCEPT !.pc = place]
         /\ UNCHANGED <<sock, error>>

\* connected(): with the FIN received, data must be there.
NobodyThere ==
    /\ th.pc = "connected"
    /\ th.found # 0 => socketStatus(th.found) \in {"LISTEN", "CLOSED"}
    /\ th' = Idle
    /\ UNCHANGED <<socketVars, slotVars>>

ConnectedAfterFin ==
    /\ th.pc = "connected" /\ th.found # 0
    /\ socketStatus(th.found) = "CLOSE_WAIT"
    /\ ClientAvailable("available", Idle)
    /\ UNCHANGED <<client, slotVars>>

Connected ==
    /\ th.pc = "connected" /\ th.found # 0
    /\ socketStatus(th.found) = "ESTABLISHED"
    /\ th' = [th EXCEPT !.pc = "available"]
    /\ UNCHANGED <<socketVars, slotVars>>

ReadsRequest ==
    /\ th.pc = "available"
    /\ ClientAvailable("head", [th EXCEPT !.pc = "head", !.text = << >>])
    /\ UNCHANGED <<client, slotVars>>

-----------------------------------------------------------------------------
(***************************************************************************)
(* The answer, here in two writes, and stop().                             *)
(***************************************************************************)

Write(place, next) ==
    /\ th.pc = place
    /\ Send(slot[th.found].ptr, <<StatusFor(th.text), place>>)
    /\ th' = [th EXCEPT !.pc = next]
    /\ UNCHANGED slotVars

WritesHead == Write("head", "body")
WritesBody == Write("body", "stop")

Stops ==
    /\ th.pc = "stop"
    /\ Disconnect(th.found)
    /\ th' = Idle
    /\ UNCHANGED <<error, services, service_descriptor>>

ServiceStep ==
    \/ NobodyThere \/ ConnectedAfterFin \/ Connected \/ ReadsRequest
    \/ WritesHead \/ WritesBody \/ Stops

Next ==
    \/ ServerStep
    \/ ServiceStep
    \/ Poll
    \/ \E c \in CLIENTS : Network(c) /\ UNCHANGED <<slotVars, th>>

Spec == Init /\ [][Next]_vars

\* A client that kept its connection open both ways until the server ended it may open
\* another.  Who resets or half-closes one stays away: a later visit is another client.
ComesAgain(c) ==
    /\ client[c].phase \in {"closed", "aborted"} /\ ~client[c].fin
    /\ client' = [client EXCEPT ![c] = NewClient]
    /\ UNCHANGED <<sock, error, slotVars, th>>

NextReturning == Next \/ \E c \in Regulars : ComesAgain(c)

\* web_loop and the timer's interrupt never stop.
ReturningSpec ==
    /\ Init /\ [][NextReturning]_vars
    /\ WF_vars(ServerStep \/ ServiceStep) /\ WF_vars(Poll)

-----------------------------------------------------------------------------
(***************************************************************************)
(* Properties.                                                             *)
(***************************************************************************)

TypeOK ==
    /\ ServerTypeOK
    /\ th.pc \in ServerPlaces \union {"connected", "available", "head", "body", "stop"}
    /\ th.i \in 1..(SLOTS + 1)
    /\ th.pc \in {"act", "listen", "mark", "register", "assign"} => th.i \in Slots
    /\ th.found \in Slots \union {0}
    /\ th.entry \in Entries \union {0}
    /\ th.remaining \in 0..PIECES

\* Every socket in use has one owner: the slot that points to it, or the
\* listening socket that will hand it over.  No slot points to a socket that is
\* gone, and no two to the same one, although the interrupt exchanges the socket
\* of a slot under the thread.
OneOwner ==
    /\ \A s \in Socks : sock[s].state # "UNUSED" =>
         Cardinality({i \in Slots : slot[i].ptr = s})
           + Cardinality({l \in Socks : sock[s].head = l /\ sock[l].state = "SS_LISTENING"}) = 1
    /\ \A i \in Slots : slot[i].ptr # 0 => sock[slot[i].ptr].state # "UNUSED"

\* A client gets one answer at most, in order, and no other than the one for its URI
\* or the one for a text that could not be parsed.  The server's goodbye comes after
\* the whole of it, or out of a begin() that FNET's list of services refuses, which
\* disconnects whoever poll() has just put into its slot; a connection cut short in
\* any other way ends with a reset.
AnswerOf(c) == IF Asks[c] \in Pages \union Registered THEN 200 ELSE 404
AnswersInOrder ==
    \A c \in CLIENTS : \E code \in {AnswerOf(c), 500} :
        /\ IsPrefix(client[c].got, << <<code, "head">>, <<code, "body">> >>)
        /\ code # 500 /\ client[c].got # << >> => client[c].sent = PIECES
Refused == th.pc = "assign" /\ th.entry = 0
GoodbyeIsWhole ==
    [][\A c \in CLIENTS : client[c].phase # "closed" /\ client'[c].phase = "closed"
         => Len(client[c].got) = 2 \/ Refused]_vars
OneAnswer == []AnswersInOrder /\ GoodbyeIsWhole

\* A slot whose socket is closed and that no server claims is lost: socketBegin
\* looks for null pointers only.  Each reset of a client costs at most one slot,
\* and nothing else costs any.
LostSlots == {i \in Slots : slot[i].ptr # 0 /\ ~slot[i].port /\ socketStatus(i) = "CLOSED"
                             /\ ~(th.pc = "listen" /\ th.i = i)}
SlotsLostToResets ==
    Cardinality(LostSlots) <= Cardinality({c \in CLIENTS : client[c].phase = "left"})

\* As long as every client keeps both ways of its connection open, a request
\* the server takes from a socket reaches the parser as it was received.
Peaceful == \A c \in CLIENTS : ~client[c].fin /\ client[c].phase # "left"
NothingLostInPeace ==
    [][Peaceful /\ th.pc = "available" /\ th'.pc = "head"
         => th'.text = sock[slot[th.found].ptr].received]_vars

\* The server listens again and again, with somebody to accept: poll() is in FNET's
\* list, although unregister takes the remembered entry, which is not always the
\* latest one.  A begin() that is still to be refused or not counts only if poll()
\* accepts while it lasts.  Two things end it all: connections that wait for ever,
\* or that resets left behind, may take all slots; and the connections poll() accepts
\* while begin() is at work may take all entries of the list, and begin() is refused
\* from then on.
Listening ==
    /\ \E i \in Slots : slot[i].port /\ socketStatus(i) = "LISTEN"
    /\ services # {}
    /\ th.pc # "register" /\ ~Refused
Accepts ==
    \E i \in Slots : socketStatus(i) = "LISTEN" /\ slot'[i].ptr \notin {0, slot[i].ptr}
SlotsTaken == \A i \in Slots : slot[i].ptr # 0 /\ socketStatus(i) # "LISTEN"
KeepsListening ==
    []<>Listening \/ []<><<Accepts>>_slot \/ <>[]SlotsTaken \/ []<>Refused

\* Whoever has sent a whole request sees the end of the connection, unless the
\* server has others to answer for ever, all in slots after its own: available()
\* returns the last slot with data.
AwaitsEnd(c) == client[c].phase = "open" /\ client[c].sent = PIECES
Overtaken(c) ==
    /\ th.pc = "stop"
    /\ \E i \in Slots : slot[i].ptr \in SocketsOf(c) /\ i < th.found
EveryRequestEnds == \A c \in CLIENTS : []<>(~AwaitsEnd(c) \/ Overtaken(c))

=============================================================================
