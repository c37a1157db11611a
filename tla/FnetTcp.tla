-------------------------------- MODULE FnetTcp --------------------------------
(***************************************************************************)
(* FNET's TCP: the control block of one connection that a listening socket *)
(* has accepted, its application, its timers, and a peer that keeps to TCP *)
(* on a network that loses, repeats and overtakes segments.  A byte is the *)
(* unit; its content is its position in the stream.  Times, congestion     *)
(* control and the third repeated acknowledgement are choices, a reset     *)
(* sent and the keepalive probe leave the control block as it is.          *)
(***************************************************************************)
EXTENDS Integers, Sequences, SequencesExt

CONSTANTS
    SEQ,        \* sequence numbers wrap here, 2^32 in the code
    HALF,       \* how far the comparisons look ahead, 2^29 in the code
    ISS, IRS,   \* initial sequence numbers, ours and the peer's
    SNDMSS, RCVMSS,
    RCVMAX,     \* size of the receive buffer
    LOADS,      \* what may be asked of a connection: the bytes the application may
                \* write, those the peer sends before its FIN, the windows it may offer
    CWNDS       \* congestion windows

ASSUME TcpConstants ==
    /\ {SEQ, HALF, SNDMSS, RCVMSS, RCVMAX} \subseteq Nat \ {0}
    /\ ISS \in 0..(SEQ - 1) /\ IRS \in 0..(SEQ - 1)
    /\ LOADS \subseteq [out : Nat, in : Nat, windows : SUBSET Nat]
    /\ \A d \in LOADS : d.in + RCVMAX < HALF /\ d.out + 1 < HALF
    /\ 2 * HALF < SEQ
    /\ CWNDS \subseteq Nat /\ \A w \in CWNDS : w >= SNDMSS

VARIABLES
    load,   \* a member of LOADS
    c,      \* the control block and its socket, and what it has done so far
    peer    \* bytes the peer has got, and whether it has got our FIN

vars == <<load, c, peer>>

\* Bytes of a header, as far as the size of the temporary buffer counts them.
HEADER == 1

\* What the program computes from memory behind a null pointer.
UNKNOWN == -1000

-----------------------------------------------------------------------------
(***************************************************************************)
(* Sequence numbers.                                                       *)
(***************************************************************************)

Plus(a, n) == (a + n) % SEQ

\* _fnet_tcp_get_size: from one number on to the other.
GetSize(a, b) == IF a <= b THEN b - a ELSE SEQ - a + b

\* _fnet_tcp_hit: an interval that may wrap.
Hit(start, end, pos) ==
    IF end >= start THEN pos >= start /\ pos <= end ELSE pos >= start \/ pos <= end

CompGE(a, b) == Hit(b, Plus(b, HALF), a)
CompG(a, b)  == Hit(Plus(b, 1), Plus(b, HALF), a)

\* The positions a number stands for in the two streams, counted from 0.
OutAt(seq) == GetSize(Plus(ISS, 1), seq)
InAt(seq)  == GetSize(Plus(IRS, 1), seq)

Least(a, b)    == IF a < b THEN a ELSE b
Greatest(a, b) == IF a < b THEN b ELSE a

-----------------------------------------------------------------------------
(***************************************************************************)
(* Segments that go out.                                                   *)
(***************************************************************************)

\* Slip: the new window leaves out what is in the receive buffer.
GetRcvwnd_Whole(k) == RCVMAX

\* _fnet_tcp_get_rcvwnd: the window opens by a good piece or not at all.
GetRcvwnd(k) ==
    LET wnd == Greatest(RCVMAX - k.recv, 0)
    IN  IF k.rcvwnd < wnd /\ wnd - k.rcvwnd < RCVMSS /\ wnd - k.rcvwnd < RCVMAX \div 2
             /\ k.rcvwnd # 0
        THEN k.rcvwnd ELSE wnd

\* A segment leaves; len bytes from position pos on, and flags that take up
\* a number each.  The peer sees our window and our acknowledgement in it.
Emit(k, pos, len, fin, flags) ==
    LET rcvwnd == GetRcvwnd(k)
        next   == Plus(k.sndseq, len + flags)
        seg    == [at |-> OutAt(k.sndseq), pos |-> pos, len |-> len, fin |-> fin]
    IN  [k EXCEPT !.rcvwnd = rcvwnd, !.freed = 0, !.sndseq = next,
                  !.maxrcvack = IF CompG(next, @) THEN next ELSE @,
                  !.out = IF len > 0 \/ fin THEN @ \union {seg} ELSE @,
                  !.acked = Greatest(@, InAt(k.sndack)),
                  !.edge = Greatest(@, InAt(k.sndack) + rcvwnd)]

\* The final segment is sent.
FinGoes(k) ==
    [k EXCEPT !.finSent = TRUE,
              !.state = CASE @ = "ESTABLISHED" -> "FIN_WAIT_1"
                          [] @ = "CLOSE_WAIT"  -> "LAST_ACK"
                          [] OTHER             -> @]

SendHeadseg(k, flag) ==
    IF flag = "FIN" THEN Emit(FinGoes(k), 0, 0, TRUE, 1)
    ELSE Emit(k, 0, 0, FALSE, IF flag = "SYN" THEN 1 ELSE 0)

\* Bytes of the send buffer that were not sent.
Rest(k) == k.send - GetSize(k.rcvack, k.sndseq)

\* Slip: a segment is copied from the start of the send buffer.
SendDataseg_FromStart(k, size) ==
    LET len == Least(size, Rest(k))
        pos == k.written - k.send
    IN  IF k.shut /\ len = Rest(k) THEN Emit(FinGoes(k), pos, len, TRUE, 1)
        ELSE Emit(k, pos, len, FALSE, 0)

\* The FIN goes with the last byte.
SendDataseg(k, size) ==
    LET len == Least(size, Rest(k))
        pos == k.written - Rest(k)
    IN  IF k.shut /\ len = Rest(k) THEN Emit(FinGoes(k), pos, len, TRUE, 1)
        ELSE Emit(k, pos, len, FALSE, 0)

\* The SYN or the FIN is sent again with every acknowledgement.
SendAck(k) ==
    LET again == [k EXCEPT !.sndseq = Plus(@, -1)]
    IN  CASE k.state = "SYN_RCVD"                   -> SendHeadseg(again, "SYN")
          [] k.state \in {"FIN_WAIT_1", "LAST_ACK"} -> SendHeadseg(again, "FIN")
          [] OTHER                                  -> SendHeadseg(k, "ACK")

\* One turn of the loop of send_anydata: a full segment, or what the window leaves
\* room for if that is worth a segment.
SendTurn(r, datasize, oneexec, force) ==
    LET full  == SNDMSS <= r.left
        len   == IF full THEN SNDMSS ELSE r.left
        sends == full \/ r.left > r.k.maxwnd \div 2 \/ force \/ r.sent + r.left = datasize
    IN  IF r.left <= 0 THEN r
        ELSE [k    |-> IF sends THEN SendDataseg(r.k, len)
                       ELSE [r.k EXCEPT !.persist = TRUE, !.sendTimeout = TRUE],
              sent |-> IF sends THEN r.sent + len ELSE r.sent,
              left |-> IF full /\ ~oneexec THEN r.left - SNDMSS ELSE 0]

SendSegments(k, room, datasize, oneexec, force) ==
    LET turn[i \in 0..k.send] ==
            IF i = 0 THEN [k |-> k, sent |-> 0, left |-> room]
            ELSE SendTurn(turn[i - 1], datasize, oneexec, force)
    IN  turn[k.send]

\* _fnet_tcp_send_anydata and whether it has sent; a window that has shrunk
\* takes sndseq back.
SendAnydata(k, oneexec, force, cwnd) ==
    LET sent0 == GetSize(k.rcvack, k.sndseq)
        wnd   == Greatest(k.sndwnd - sent0, 0)
        sent  == Least(sent0, k.sndwnd)
        datasize == k.send - sent
        free  == IF cwnd < sent THEN 0 ELSE ((cwnd - sent) \div SNDMSS) * SNDMSS
        room  == Least(Least(wnd, free), datasize)
        k1    == [k EXCEPT !.sendTimeout = FALSE, !.sndseq = Plus(@, sent - sent0)]
        r     == SendSegments(k1, room, datasize, oneexec, force)
    IN  IF room > 0
        THEN [k |-> IF r.sent > 0 THEN [r.k EXCEPT !.persist = FALSE, !.rexmit = TRUE] ELSE r.k,
              sends |-> r.sent > 0]
        ELSE IF k.shut /\ datasize = 0 /\ ~k.finSent
        THEN [k |-> [SendHeadseg(k1, "FIN") EXCEPT !.rexmit = TRUE], sends |-> TRUE]
        ELSE [k |-> k1, sends |-> FALSE]

-----------------------------------------------------------------------------
(***************************************************************************)
(* Segments that come in.  A segment has seq, len, fin, ack, wnd, psh, and *)
(* pos, the position of its first byte in what the peer sends.             *)
(***************************************************************************)

Total(seg) == seg.len + HEADER

Bytes(seg, from) == [i \in 1..(seg.len - from) |-> seg.pos + from + i]

\* len bytes from position from on are handed to the socket's input buffer.
Receives(k, seg, from) ==
    [k EXCEPT !.stream = @ \o Bytes(seg, from), !.recv = @ + seg.len - from]

\* _fnet_tcp_process_fin.  In the other states the FIN is not taken down.
ProcessFin(k, ack) ==
    CASE k.state = "ESTABLISHED" ->
            [k EXCEPT !.state = "CLOSE_WAIT", !.sk = "CLOSING", !.finRcvd = TRUE]
      [] k.state = "FIN_WAIT_1" /\ ack # k.sndseq ->
            [k EXCEPT !.state = "CLOSING", !.finRcvd = TRUE]
      [] k.state \in {"FIN_WAIT_1", "FIN_WAIT_2"} ->
            [k EXCEPT !.state = "TIME_WAIT", !.sk = "CLOSING", !.finRcvd = TRUE]
      [] OTHER -> k

\* The acknowledgement of a kept segment is read only with its FIN.
Kept(seg) == [seq |-> seg.seq, pos |-> seg.pos, len |-> seg.len, fin |-> seg.fin,
              ack |-> IF seg.fin THEN seg.ack ELSE 0]

\* The temporary buffer is sorted; a segment goes behind those with its number.
Sorted(chain, seg) ==
    LET before == {i \in DOMAIN chain : ~CompG(chain[i].seq, seg.seq)}
        n == IF before = {} THEN 0 ELSE CHOOSE i \in before : \A j \in before : j <= i
    IN  InsertAt(chain, n + 1, seg)

Counted(k, n) == IF k.count = UNKNOWN THEN UNKNOWN ELSE k.count + n

\* Slip: the repeated part of a kept segment is taken as well.
MoveOne_KeepsRepeated(r) ==
    LET seg == Head(r.k.chain)
        end == Plus(seg.seq, seg.len)
    IN  IF ~CompGE(r.seq, seg.seq) THEN [r EXCEPT !.more = FALSE]
        ELSE [r EXCEPT !.k = [Receives(r.k, seg, 0) EXCEPT !.chain = Tail(@), !.sndack = end],
                       !.seq = end]

\* One turn of the loop that moves segments from the temporary buffer to the
\* input buffer.  A segment that brings nothing new is deleted, and then the
\* size of the one behind it, if there is one, is subtracted.
MoveOne(r) ==
    LET seg  == Head(r.k.chain)
        rest == Tail(r.k.chain)
        end  == Plus(seg.seq, seg.len)
        old  == GetSize(seg.seq, r.seq)
        seq  == IF seg.fin THEN Plus(end, 1) ELSE end
        k1   == [r.k EXCEPT !.chain = rest, !.count = Counted(r.k, -Total(seg))]
        k2   == IF seg.fin THEN ProcessFin(k1, seg.ack) ELSE k1
    IN  IF ~CompGE(r.seq, seg.seq) THEN [r EXCEPT !.more = FALSE]
        ELSE IF CompGE(end, r.seq)
        THEN [k |-> [Receives(k2, seg, old) EXCEPT !.sndack = seq], seq |-> seq, more |-> TRUE,
              ap |-> IF seg.fin THEN r.ap \union {"FIN_ACK"} ELSE r.ap]
        ELSE [r EXCEPT !.k.chain = rest,
                       !.k.count = IF rest = << >> THEN UNKNOWN
                                   ELSE Counted(r.k, -Total(Head(rest)))]

MoveTurn(r) == IF r.k.chain = << >> \/ ~r.more THEN r ELSE MoveOne(r)

MoveChain(k, ap) ==
    LET turn[i \in 0..Len(k.chain)] ==
            IF i = 0 THEN [k |-> k, seq |-> k.sndack, more |-> TRUE, ap |-> ap]
            ELSE MoveTurn(turn[i - 1])
    IN  turn[Len(k.chain)]

\* What tests of the count come to; of an unknown one it is a choice.  An
\* unsigned count that went below 0 is large.
CountIsZero(k, ch) == IF k.count = UNKNOWN THEN ch.zero ELSE k.count = 0

Fits(k, seg, ch) ==
    IF k.count = UNKNOWN THEN ch.fits ELSE k.count + Total(seg) \in 0..RCVMAX

\* _fnet_tcp_add_inpbuf, with the acknowledgement parameter.
AddInpbuf(k, seg, ap, ch) ==
    IF seg.len = 0 /\ ~seg.fin THEN [k |-> k, ap |-> ap]
    ELSE IF seg.seq = k.sndack /\ CountIsZero(k, ch)
    THEN LET k1 == IF seg.fin THEN ProcessFin(k, seg.ack) ELSE k
         IN  [k  |-> [Receives(k1, seg, 0) EXCEPT
                        !.sndack = Plus(@, seg.len + (IF seg.fin THEN 1 ELSE 0))],
              ap |-> IF seg.fin THEN ap \union {"FIN_ACK"} ELSE ap]
    ELSE IF seg.seq = k.sndack \/ Fits(k, seg, ch)
    THEN LET k1  == [k EXCEPT !.chain = Sorted(@, Kept(seg)), !.count = Counted(k, Total(seg))]
             ap1 == ap \union {"SEND_IMMEDIATELY"}
         IN  IF seg.seq = k.sndack THEN MoveChain(k1, ap1) ELSE [k |-> k1, ap |-> ap1]
    ELSE [k |-> k, ap |-> ap]

\* An acknowledgement of something new.
Acknowledged(k, ack) ==
    LET size == Least(GetSize(k.rcvack, ack), k.send)
    IN  [k EXCEPT !.send = @ - size, !.rcvack = ack,
                  !.sndseq = IF CompG(ack, @) THEN ack ELSE @]

\* A repeated one, with the first segment sent again.
FastRetransmit(k) ==
    [SendDataseg([k EXCEPT !.sndseq = k.rcvack], SNDMSS) EXCEPT !.sndseq = k.sndseq]

IsDuplicate(k, seg) ==
    /\ k.rcvack = seg.ack /\ k.sndseq # k.rcvack /\ k.send # 0
    /\ seg.len = 0 /\ ~seg.fin

\* Slip: an open window always turns the persist timer off.
SetTimers_OpenStopsPersist(k) ==
    [k EXCEPT !.persist = k.sndwnd = 0 /\ k.send > 0, !.rexmit = k.rcvack # k.sndseq]

\* The timers after the attempt to send.
SetTimers(k) ==
    [k EXCEPT !.persist = IF k.sndwnd = 0 /\ k.send > 0 THEN TRUE ELSE @ /\ k.sendTimeout,
              !.rexmit = k.rcvack # k.sndseq]

\* _fnet_tcp_dataprocess.  ch has the choices of this step.
Dataprocess(k, seg, ap, ch) ==
    LET fast == ch.third /\ IsDuplicate(k, seg)
        k1 == IF k.rcvack # seg.ack THEN Acknowledged(k, seg.ack)
              ELSE IF fast THEN FastRetransmit(k) ELSE k
        r  == IF ~k.finRcvd THEN AddInpbuf(k1, seg, ap, ch)
              ELSE [k |-> k1, ap |-> IF seg.len > 0 THEN ap \union {"SEND_IMMEDIATELY"} ELSE ap]
        k2 == IF "FIN_ACK" \in r.ap \/ seg.psh THEN SendAck(r.k) ELSE r.k
        s  == SendAnydata(k2, k2.insnd, FALSE, ch.cwnd)
        k3 == SetTimers(s.k)
    IN  IF fast \/ s.sends \/ "FIN_ACK" \in r.ap \/ "SEND_IMMEDIATELY" \notin r.ap
        THEN k3 ELSE SendAck(k3)

\* A connection begins with the peer's SYN, and our SYN in answer.
Accepted(wnd) ==
    [state |-> "SYN_RCVD", sk |-> "CONNECTING", sndseq |-> Plus(ISS, 1),
     maxrcvack |-> Plus(ISS, 1), rcvack |-> 0, sndack |-> Plus(IRS, 1),
     rcvwnd |-> RCVMAX, sndwnd |-> wnd, maxwnd |-> wnd, freed |-> 0,
     finRcvd |-> FALSE, finSent |-> FALSE, insnd |-> FALSE, sendTimeout |-> FALSE,
     rexmit |-> TRUE, persist |-> FALSE, close |-> FALSE, shut |-> FALSE, rshut |-> FALSE,
     send |-> 0, recv |-> 0, chain |-> << >>, count |-> 0,
     \* what has been done so far
     written |-> 0, stream |-> << >>, out |-> {}, acked |-> 0, edge |-> RCVMAX]

\* _fnet_tcp_close_socket: a socket the application has is closed and stays, with
\* what it has received.  Nothing else of the control block is read again.
CloseSocket(k) ==
    IF k.close \/ k.sk = "CONNECTING" THEN [Accepted(0) EXCEPT !.sk = "GONE"]
    ELSE [Accepted(0) EXCEPT !.sk = "CLOSED", !.recv = k.recv, !.stream = k.stream,
                             !.sndack = k.sndack, !.finRcvd = k.finRcvd]

\* A socket whose input is shut down forgets what it got.
Discards(k) == IF k.rshut THEN [k EXCEPT !.recv = 0] ELSE k

\* The main part of _fnet_tcp_inputsk, by the state of the connection.
MainProcessing(k, seg, ap, ch) ==
    CASE k.state = "SYN_RCVD" ->
            Dataprocess([k EXCEPT !.state = "ESTABLISHED", !.sk = "CONNECTED",
                                  !.rexmit = FALSE, !.rcvack = seg.ack], seg, ap, ch)
      [] k.state \in {"ESTABLISHED", "CLOSE_WAIT", "FIN_WAIT_2"} ->
            Discards(Dataprocess(k, seg, ap, ch))
      [] k.state = "FIN_WAIT_1" ->
            LET d == Dataprocess(k, seg, ap, ch)
            IN  Discards(IF d.sndseq = d.rcvack /\ d.state = "FIN_WAIT_1"
                         THEN [d EXCEPT !.state = "FIN_WAIT_2"] ELSE d)
      [] k.state = "LAST_ACK" -> IF seg.ack = k.sndseq THEN CloseSocket(k) ELSE k
      [] k.state = "CLOSING" ->
            IF seg.ack = k.sndseq
            THEN Discards([k EXCEPT !.state = "TIME_WAIT", !.rexmit = FALSE]) ELSE Discards(k)
      [] OTHER -> Discards(k)

\* What is left of a segment after the repeated part on its left, and after
\* what lies behind the window on its right, have been cut off.
LeftCut(k, seg) ==
    LET old == GetSize(seg.seq, k.sndack)
    IN  [seg EXCEPT !.seq = k.sndack, !.pos = @ + old, !.len = @ - old]

RightCut(k, seg) == [seg EXCEPT !.len = GetSize(seg.seq, Plus(k.sndack, k.rcvwnd))]

\* _fnet_tcp_inputsk for a segment with an acknowledgement.
Inputsk(k, seg, ch) ==
    LET end(g)   == Plus(g.seq, g.len)
        repeated == CompG(k.sndack, seg.seq)
        left     == IF repeated THEN LeftCut(k, seg) ELSE seg
        beyond   == CompG(end(left), Plus(k.sndack, k.rcvwnd))
        cut      == IF beyond THEN RightCut(k, left) ELSE left
        k1       == [k EXCEPT !.sndwnd = seg.wnd, !.maxwnd = Greatest(@, seg.wnd)]
    IN  IF \/ repeated /\ ~CompG(end(seg), k.sndack)
           \/ CompG(left.seq, Plus(k.sndack, k.rcvwnd))
        THEN SendAck(k)
        ELSE IF k.state = "SYN_RCVD" /\ seg.ack # k.sndseq THEN k
        ELSE IF k.state # "SYN_RCVD" /\ ~Hit(k.rcvack, k.maxrcvack, seg.ack)
        THEN IF CompG(seg.ack, k.maxrcvack) THEN SendAck(k) ELSE k
        ELSE MainProcessing(k1, cut, IF repeated \/ beyond THEN {"SEND_IMMEDIATELY"} ELSE {}, ch)

-----------------------------------------------------------------------------
(***************************************************************************)
(* The connection.                                                         *)
(***************************************************************************)

Init ==
    /\ load \in LOADS
    /\ \E wnd \in load.windows : c = Accepted(wnd)
    /\ peer = [got |-> 0, fin |-> FALSE]

Open == c.sk \in {"CONNECTING", "CONNECTED", "CLOSING"}

\* The loop of a send call, as long as it sends.
SndTurn(r, cwnd) == IF r.sends THEN SendAnydata(r.k, TRUE, FALSE, cwnd) ELSE r

SndLoop(k, cwnd) ==
    LET turn[i \in 0..(load.out + 1)] ==
            IF i = 0 THEN [k |-> k, sends |-> TRUE] ELSE SndTurn(turn[i - 1], cwnd)
    IN  turn[load.out + 1].k

\* The application's socket calls.
Snd ==
    /\ c.sk = "CONNECTED" /\ ~c.close
    /\ \E n \in 1..(load.out - c.written), cwnd \in CWNDS :
        LET k == [c EXCEPT !.send = @ + n, !.written = @ + n, !.insnd = TRUE]
        IN  c' = IF c.sndwnd = 0 THEN [k EXCEPT !.persist = TRUE]
                 ELSE [SndLoop(k, cwnd) EXCEPT !.insnd = FALSE]
    /\ UNCHANGED <<load, peer>>

Rcv ==
    /\ c.sk # "GONE" /\ ~c.close
    /\ \E n \in 1..c.recv :
        LET k == [c EXCEPT !.recv = @ - n, !.freed = @ + n]
        IN  c' = IF /\ c.sk = "CONNECTED"
                    /\ \/ k.freed >= 2 * RCVMSS \/ k.freed >= RCVMAX \div 2
                       \/ c.rcvwnd = 0
                 THEN SendAck(k) ELSE k
    /\ UNCHANGED <<load, peer>>

\* With a linger time.  Only a connected socket says goodbye.
Close ==
    /\ c.sk \in {"CONNECTED", "CLOSING", "CLOSED"} /\ ~c.close
    /\ IF c.sk = "CONNECTED"
       THEN \E cwnd \in CWNDS :
             LET k == SendAnydata([c EXCEPT !.shut = TRUE], TRUE, FALSE, cwnd).k
             IN  c' = [k EXCEPT !.close = TRUE, !.recv = 0,
                                !.rshut = @ \/ k.state # "TIME_WAIT"]
       ELSE c' = CloseSocket([c EXCEPT !.close = TRUE])
    /\ UNCHANGED <<load, peer>>

\* The timers.
RetransmissionTimeout ==
    /\ Open /\ c.rexmit
    /\ c' = IF c.state = "SYN_RCVD" THEN SendAck(c)
            ELSE [SendAnydata([c EXCEPT !.finSent = FALSE, !.sndseq = c.rcvack],
                              FALSE, TRUE, SNDMSS).k EXCEPT !.rexmit = TRUE]
    /\ UNCHANGED <<load, peer>>

PersistTimeout ==
    /\ Open /\ c.persist
    /\ IF c.sndwnd = 0
       THEN c' = [SendDataseg(c, 1) EXCEPT !.sndseq = Plus(@, -1)]
       ELSE \E cwnd \in CWNDS :
             c' = SendAnydata([c EXCEPT !.persist = FALSE], FALSE, TRUE, cwnd).k
    /\ UNCHANGED <<load, peer>>

\* The connection timer runs during the handshake and after close.
ConnectionTimer == c.sk = "CONNECTING" \/ c.close \/ c.state = "TIME_WAIT"

\* The connection timer, the abort timer that runs after unanswered segments,
\* or a reset from the peer.
ConnectionEnds ==
    /\ Open
    /\ c' = CloseSocket(c)
    /\ UNCHANGED <<load, peer>>

-----------------------------------------------------------------------------
(***************************************************************************)
(* The peer.  Every segment that was ever sent may arrive at any time.     *)
(***************************************************************************)

PeerTakes ==
    /\ ~peer.fin
    /\ \E s \in c.out :
        /\ s.at <= peer.got
        /\ s.at + s.len + (IF s.fin THEN 1 ELSE 0) > peer.got
        /\ peer' = [got |-> s.at + s.len, fin |-> s.fin]
    /\ UNCHANGED <<load, c>>

\* An acknowledgement the peer may have sent.
Acks == {Plus(ISS, 1 + a) : a \in 0..(peer.got + (IF peer.fin THEN 1 ELSE 0))}

\* The peer sends what the window allows, and when all of that is acknowledged
\* probes with the next byte, and no FIN behind it.
InWindow(from, len, fin) ==
    \/ from + len <= c.edge
    \/ from = c.edge /\ len = 1 /\ c.acked = c.edge /\ ~fin

PeerSends(from, len, fin) ==
    [seq : {Plus(IRS, 1 + from)}, pos : {from}, len : {len}, fin : {fin},
     ack : Acks, wnd : load.windows, psh : IF len = 0 THEN {FALSE} ELSE BOOLEAN]

StepChoices(seg) ==
    [third : IF IsDuplicate(c, seg) THEN BOOLEAN ELSE {FALSE},
     fits : IF c.count = UNKNOWN THEN BOOLEAN ELSE {FALSE},
     zero : IF c.count = UNKNOWN THEN BOOLEAN ELSE {FALSE},
     cwnd : CWNDS]

Deliver ==
    /\ Open
    /\ \E from \in 0..load.in, len \in 0..RCVMSS, fin \in BOOLEAN :
        /\ from + len <= load.in
        /\ fin => from + len = load.in
        /\ InWindow(from, len, fin)
        /\ \E seg \in PeerSends(from, len, fin) : \E ch \in StepChoices(seg) : c' = Inputsk(c, seg, ch)
    /\ UNCHANGED <<load, peer>>

\* The peer's SYN again.
DeliverSyn ==
    /\ Open
    /\ c' = SendAck(c)
    /\ UNCHANGED <<load, peer>>

Next ==
    \/ Snd \/ Rcv \/ Close
    \/ RetransmissionTimeout \/ PersistTimeout \/ ConnectionEnds
    \/ PeerTakes \/ Deliver \/ DeliverSyn

Spec == Init /\ [][Next]_vars

-----------------------------------------------------------------------------
(***************************************************************************)
(* Properties.                                                             *)
(***************************************************************************)

Numbers == 0..(SEQ - 1)

TypeOK ==
    /\ c.state \in {"SYN_RCVD", "ESTABLISHED", "CLOSE_WAIT", "FIN_WAIT_1", "FIN_WAIT_2",
                    "CLOSING", "LAST_ACK", "TIME_WAIT"}
    /\ c.sk \in {"CONNECTING", "CONNECTED", "CLOSING", "CLOSED", "GONE"}
    /\ {c.sndseq, c.maxrcvack, c.rcvack, c.sndack} \subseteq Numbers
    /\ c.rcvwnd \in 0..RCVMAX
    /\ c.recv \in 0..RCVMAX
    /\ c.send \in 0..load.out
    /\ \A s \in c.out : s.len \in 0..SNDMSS

\* What the application reads is what the peer sent, from its first byte on,
\* whatever was lost, repeated, overtaken or cut into segments anew; and what
\* was acknowledged to the peer, FIN included, was received.
ReceivesStream ==
    /\ \A i \in DOMAIN c.stream : c.stream[i] = i
    /\ c.sk # "GONE" => InAt(c.sndack) = Len(c.stream) + (IF c.finRcvd THEN 1 ELSE 0)
    /\ c.finRcvd => Len(c.stream) = load.in

\* The FIN takes the number behind the last byte, as the comment "End of the data
\* sending" at its flag has it.  The code sends one with every acknowledgement in
\* FIN_WAIT_1 and LAST_ACK, under the last number it used, also when a timeout,
\* a probe or a shrinking window has taken that back.
EarlyFin == \E s \in c.out : s.fin /\ s.at + s.len # c.written

\* What the application wrote leaves the send buffer only when the peer has it,
\* also in the background after close, unless the connection is reset.
NothingLost == Open => c.written - c.send <= peer.got

\* Every byte goes out under its own number however the windows cut and repeat
\* it, and none is lost on a connection that sent its FIN behind them all.
SendsStream ==
    /\ \A s \in c.out : s.len > 0 => s.pos = s.at
    /\ ~EarlyFin => NothingLost

\* Nobody waits for nothing: while bytes wait to be sent or acknowledged a
\* timer runs, and once the application has read all there is the peer knows
\* of a window it may use.
NeverStalls ==
    /\ Open /\ c.send > 0 => c.rexmit \/ c.persist \/ ConnectionTimer
    /\ c.sk = "CONNECTED" /\ ~c.close /\ c.recv = 0 => c.edge > InAt(c.sndack)

=============================================================================
