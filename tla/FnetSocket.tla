------------------------------ MODULE FnetSocket ------------------------------
(***************************************************************************)
(* The FNET sockets an Ethernet server works with, seen through the socket *)
(* calls, and the clients at the other end of their connections.  A call   *)
(* runs with the stack's interrupts off, so each is one step, between the  *)
(* steps of the network's and the poll's interrupts.  A connection is here *)
(* once its handshake is over; a socket that was closed gracefully is no   *)
(* longer the application's, and FNET finishes the connection by itself.   *)
(***************************************************************************)
EXTENDS Integers, Sequences, FiniteSets

CONSTANTS
    SOCKETS,    \* FNET sockets that may be in use at once
    CLIENTS,    \* clients, each holds one connection at a time
    PIECES,     \* segments a client's request arrives in
    FAULTS      \* who may do what besides: pairs of a client and "halfclose" or "reset"

ASSUME SocketConstants ==
    /\ SOCKETS \in Nat \ {0}
    /\ PIECES \in Nat \ {0}
    /\ IsFiniteSet(CLIENTS)
    /\ FAULTS \subseteq CLIENTS \X {"halfclose", "reset"}
    /\ "nobody" \notin CLIENTS

VARIABLES
    sock,       \* the sockets
    client,     \* what each client has done and got
    error       \* the stack's last error, shared by all sockets

socketVars == <<sock, client, error>>

Socks == 1..SOCKETS
Unused == [state |-> "UNUSED", peer |-> "nobody", head |-> 0,
           received |-> << >>, reset |-> FALSE]

NewClient == [phase |-> "idle", sent |-> 0, fin |-> FALSE, got |-> << >>]

SocketTypeOK ==
    /\ \A s \in Socks :
        /\ sock[s].state \in {"UNUSED", "SS_CLOSED", "SS_LISTENING", "SS_CONNECTED", "SS_CLOSING"}
        /\ sock[s].peer \in CLIENTS \union {"nobody"}
        /\ sock[s].head \in Socks \union {0}
        /\ sock[s].reset \in BOOLEAN
    /\ \A c \in CLIENTS :
        /\ client[c].phase \in {"idle", "open", "left", "closed", "aborted"}
        /\ client[c].sent \in 0..PIECES
        /\ client[c].fin \in BOOLEAN
    /\ error \in {"OK", "AGAIN", "NOTCONN", "CONNRESET"}

SocketInit ==
    /\ sock = [s \in Socks |-> Unused]
    /\ client = [c \in CLIENTS |-> NewClient]
    /\ error = "OK"

FreeSockets == {s \in Socks : sock[s].state = "UNUSED"}
NewSocket == CHOOSE s \in FreeSockets : \A q \in FreeSockets : s <= q

\* The connections a listening socket has made and nobody has accepted.
Incoming(s) == {q \in Socks : sock[q].head = s /\ sock[q].state # "UNUSED"}

\* The sockets of a client's connection, accepted or not.
SocketsOf(c) == {s \in Socks : sock[s].peer = c}

-----------------------------------------------------------------------------
(***************************************************************************)
(* The socket calls.                                                       *)
(***************************************************************************)

\* fnet_socket and fnet_socket_bind.
Create(s) == sock' = [sock EXCEPT ![s] = [Unused EXCEPT !.state = "SS_CLOSED"]]

Listen(s) == sock' = [sock EXCEPT ![s].state = "SS_LISTENING"]

\* fnet_socket_close, with SO_LINGER set: a connected socket says goodbye; any
\* other, and what a listening socket has not handed over, is aborted.
Close(s) ==
    LET gone == {s} \union Incoming(s)
    IN  /\ sock' = [q \in Socks |-> IF q \in gone THEN Unused ELSE sock[q]]
        /\ client' = [c \in CLIENTS |->
             IF SocketsOf(c) \intersect gone = {} THEN client[c]
             ELSE IF sock[s].state = "SS_CONNECTED" THEN [client[c] EXCEPT !.phase = "closed"]
             ELSE [client[c] EXCEPT !.phase = "aborted"]]

\* The error a call on a socket without a connection leaves: a reset is told
\* of once, and then forgotten.
ErrorOn(s) == IF sock[s].reset THEN "CONNRESET" ELSE "NOTCONN"

\* Slip: having received nothing counts as having no connection.
RecvFails_NoData(s) == sock[s].received = << >>

RecvFails(s) == sock[s].received = << >> /\ sock[s].state # "SS_CONNECTED"

\* Receiving takes all there is; with MSG_PEEK nothing.  Success leaves the
\* error as it is.
ErrorAfterRecv(s) == IF RecvFails(s) THEN ErrorOn(s) ELSE error
Recv(s) == sock' = [sock EXCEPT ![s].reset = @ /\ ~RecvFails(s), ![s].received = << >>]

\* Only a socket that is connected both ways sends.
Send(s, what) ==
    IF sock[s].state = "SS_CONNECTED"
    THEN /\ client' = [client EXCEPT ![sock[s].peer].got = Append(@, what)]
         /\ UNCHANGED <<sock, error>>
    ELSE /\ sock' = [sock EXCEPT ![s].reset = FALSE]
         /\ error' = ErrorOn(s)
         /\ UNCHANGED client

-----------------------------------------------------------------------------
(***************************************************************************)
(* Segments of the clients, taken in by the network's interrupt.           *)
(***************************************************************************)

\* A listening socket takes one connection at a time (con_limit 1); a client it
\* does not take tries again.
Connect(c) ==
    /\ client[c].phase = "idle"
    /\ FreeSockets # {}
    /\ \E s \in Socks :
        /\ sock[s].state = "SS_LISTENING"
        /\ Incoming(s) = {}
        /\ sock' = [sock EXCEPT ![NewSocket] =
                      [Unused EXCEPT !.state = "SS_CONNECTED", !.peer = c, !.head = s]]
    /\ client' = [client EXCEPT ![c].phase = "open"]
    /\ UNCHANGED error

SendPiece(c) ==
    /\ client[c].phase = "open"
    /\ client[c].sent < PIECES
    /\ client' = [client EXCEPT ![c].sent = @ + 1]
    /\ \E s \in SocketsOf(c) :
          sock' = [sock EXCEPT ![s].received = Append(@, <<c, client[c].sent + 1>>)]
    /\ UNCHANGED error

\* The client has said all it had to say, and waits for the answer.
HalfClose(c) ==
    /\ <<c, "halfclose">> \in FAULTS
    /\ client[c].phase = "open" /\ client[c].sent = PIECES /\ ~client[c].fin
    /\ client' = [client EXCEPT ![c].fin = TRUE]
    /\ \E s \in SocketsOf(c) : sock' = [sock EXCEPT ![s].state = "SS_CLOSING"]
    /\ UNCHANGED error

\* A reset: a connection nobody accepted is gone, of another the socket stays,
\* closed, with what it had received.
Reset(c) ==
    /\ <<c, "reset">> \in FAULTS
    /\ client[c].phase = "open"
    /\ client' = [client EXCEPT ![c].phase = "left"]
    /\ \E s \in SocketsOf(c) :
          sock' = [sock EXCEPT ![s] =
                     IF @.head # 0 THEN Unused
                     ELSE [@ EXCEPT !.state = "SS_CLOSED", !.peer = "nobody", !.reset = TRUE]]
    /\ UNCHANGED error

Network(c) == Connect(c) \/ SendPiece(c) \/ HalfClose(c) \/ Reset(c)

=============================================================================
