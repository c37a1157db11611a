---------------------------- MODULE FnetTcp_proofs ----------------------------
(***************************************************************************)
(* FNET's TCP for every size of the number space, of the buffers, the      *)
(* segments and the windows, and every load below the reach of the         *)
(* comparisons.  First the arithmetic of sequence numbers: the order that  *)
(* the control block goes by is the order of the positions in the stream,  *)
(* also where the numbers wrap.  Then what each function of the code does  *)
(* to the two sides of a control block: what came in and the window the    *)
(* peer was told of (Receiver), what goes out (Sender), the timers, and    *)
(* the state.  Last the connection with its peer (Inv), and what follows.  *)
(***************************************************************************)
EXTENDS FnetTcp, WellFoundedInduction, SequenceTheorems, TLAPS

\* The sizes of the number space.
LEMMA Sizes == SEQ \in Nat /\ HALF \in Nat /\ HALF > 0 /\ 2 * HALF < SEQ
BY TcpConstants

\* A number moves on by n and wraps at most once.
LEMMA PlusWraps ==
    ASSUME NEW a \in Numbers, NEW n \in 0..(SEQ - 1)
    PROVE  /\ a + n < SEQ    => Plus(a, n) = a + n
           /\ ~(a + n < SEQ) => Plus(a, n) = a + n - SEQ
           /\ Plus(a, n) \in Numbers
<1>1. PICK s \in Nat : s = a + n /\ s < 2 * SEQ
  BY Sizes DEF Numbers
<1>2. CASE s < SEQ
  <2>1. s % SEQ = s
    BY <1>2, Sizes
  <2>2. Plus(a, n) = s
    BY <1>1, <2>1, Zenon DEF Plus
  <2> QED BY <1>1, <1>2, <2>2, Sizes DEF Numbers
<1>3. CASE ~(s < SEQ)
  <2>1. s % SEQ = s - SEQ
    BY <1>1, <1>3, Sizes
  <2>2. Plus(a, n) = s - SEQ
    BY <1>1, <2>1, Zenon DEF Plus
  <2> QED BY <1>1, <1>3, <2>2, Sizes DEF Numbers
<1> QED BY <1>2, <1>3

\* _fnet_tcp_get_size undoes the move.
THEOREM SizeIsDistance ==
    ASSUME NEW a \in Numbers, NEW n \in 0..(SEQ - 1)
    PROVE  GetSize(a, Plus(a, n)) = n
<1>1. /\ a + n < SEQ    => Plus(a, n) = a + n
      /\ ~(a + n < SEQ) => Plus(a, n) = a + n - SEQ
  BY PlusWraps
<1> QED BY <1>1, Sizes DEF GetSize, Numbers

\* _fnet_tcp_hit is the interval from one number on to another, wherever it wraps:
\* the test of an incoming acknowledgement takes what was sent and not
\* acknowledged, and nothing else.
THEOREM HitIsInterval ==
    ASSUME NEW start \in Numbers, NEW end \in Numbers, NEW pos \in Numbers
    PROVE  Hit(start, end, pos) <=> GetSize(start, pos) <= GetSize(start, end)
BY Sizes DEF Hit, GetSize, Numbers

\* A number is greater than another when it is ahead of it by less than HALF.
THEOREM GreaterIsAhead ==
    ASSUME NEW a \in Numbers, NEW b \in Numbers
    PROVE  /\ CompG(a, b)  <=> GetSize(b, a) \in 1..HALF
           /\ CompGE(a, b) <=> GetSize(b, a) \in 0..HALF
<1>1. 1 \in 0..(SEQ - 1) /\ HALF \in 0..(SEQ - 1)
  BY Sizes
<1>2. /\ Plus(b, 1) = IF b + 1 < SEQ THEN b + 1 ELSE b + 1 - SEQ
      /\ Plus(b, HALF) = IF b + HALF < SEQ THEN b + HALF ELSE b + HALF - SEQ
  BY <1>1, PlusWraps
<1>3. CompG(a, b)  <=> GetSize(b, a) \in 1..HALF
  BY <1>2, Sizes DEF CompG, Hit, GetSize, Numbers
<1>4. CompGE(a, b) <=> GetSize(b, a) \in 0..HALF
  BY <1>2, Sizes DEF CompGE, Hit, GetSize, Numbers
<1> QED BY <1>3, <1>4

\* Of two positions less than HALF apart the later has the greater number, and the
\* earlier has not: sorting the kept segments and cutting what is repeated
\* never mistakes old bytes for new ones.
THEOREM OrderOfPositions ==
    ASSUME NEW first \in Numbers, NEW i \in Nat, NEW j \in Nat,
           i < j, j - i <= HALF, j < SEQ
    PROVE  /\ CompG(Plus(first, j), Plus(first, i))
           /\ ~CompGE(Plus(first, i), Plus(first, j))
<1> DEFINE a == Plus(first, i)
           b == Plus(first, j)
<1>1. i \in 0..(SEQ - 1) /\ j \in 0..(SEQ - 1)
  BY Sizes
<1>2. /\ a \in Numbers /\ a = IF first + i < SEQ THEN first + i ELSE first + i - SEQ
      /\ b \in Numbers /\ b = IF first + j < SEQ THEN first + j ELSE first + j - SEQ
  BY <1>1, PlusWraps
<1>3. GetSize(a, b) = j - i /\ GetSize(b, a) = SEQ - (j - i)
  BY <1>1, <1>2, Sizes DEF GetSize, Numbers
<1>4. GetSize(a, b) \in 1..HALF /\ GetSize(b, a) \notin 0..HALF
  BY <1>3, Sizes
<1> HIDE DEF a, b
<1>5. CompG(b, a) /\ ~CompGE(a, b)
  BY <1>2, <1>4, GreaterIsAhead
<1> QED BY <1>5 DEF a, b


-----------------------------------------------------------------------------
(***************************************************************************)
(* Positions, counted from an origin in the number space.                  *)
(***************************************************************************)

\* A move by at most the number space, forth or back, as a choice of three.
LEMMA PlusMoves ==
    ASSUME NEW x \in Numbers, NEW n \in (-SEQ)..SEQ
    PROVE  /\ Plus(x, n) \in Numbers
           /\ \/ x + n < 0 /\ Plus(x, n) = x + n + SEQ
              \/ x + n \in 0..(SEQ - 1) /\ Plus(x, n) = x + n
              \/ x + n >= SEQ /\ Plus(x, n) = x + n - SEQ
<1>1. PICK s \in Int : s = x + n /\ -SEQ <= s /\ s < 2 * SEQ
  BY Sizes DEF Numbers
<1>2. CASE s < 0
  <2>1. s % SEQ = s + SEQ
    BY <1>1, <1>2, Sizes
  <2>2. Plus(x, n) = s + SEQ
    BY <1>1, <2>1, Zenon DEF Plus
  <2> QED BY <1>1, <1>2, <2>2, Sizes DEF Numbers
<1>3. CASE s \in 0..(SEQ - 1)
  <2>1. s % SEQ = s
    BY <1>3, Sizes
  <2>2. Plus(x, n) = s
    BY <1>1, <2>1, Zenon DEF Plus
  <2> QED BY <1>1, <1>3, <2>2, Sizes DEF Numbers
<1>4. CASE s >= SEQ
  <2>1. s % SEQ = s - SEQ
    BY <1>1, <1>4, Sizes
  <2>2. Plus(x, n) = s - SEQ
    BY <1>1, <2>1, Zenon DEF Plus
  <2> QED BY <1>1, <1>4, <2>2, Sizes DEF Numbers
<1> QED BY <1>1, <1>2, <1>3, <1>4, Sizes

\* The distance from an origin is a position, and tells the number.
LEMMA Place ==
    ASSUME NEW o \in Numbers, NEW x \in Numbers
    PROVE  /\ GetSize(o, x) \in 0..(SEQ - 1)
           /\ \A y \in Numbers : GetSize(o, x) = GetSize(o, y) => x = y
BY Sizes DEF GetSize, Numbers

\* The distance between two positions.
LEMMA PlaceSize ==
    ASSUME NEW o \in Numbers, NEW x \in Numbers, NEW y \in Numbers,
           GetSize(o, x) <= GetSize(o, y)
    PROVE  GetSize(x, y) = GetSize(o, y) - GetSize(o, x)
BY Sizes DEF GetSize, Numbers

\* Moving on and back moves the position, as long as it stays in range.
LEMMA PlaceMoves ==
    ASSUME NEW o \in Numbers, NEW x \in Numbers, NEW n \in (-SEQ)..SEQ,
           GetSize(o, x) + n \in 0..(SEQ - 1)
    PROVE  Plus(x, n) \in Numbers /\ GetSize(o, Plus(x, n)) = GetSize(o, x) + n
<1>1. PICK y \in Numbers : y = Plus(x, n)
  BY PlusMoves
<1>2. \/ x + n < 0 /\ y = x + n + SEQ
      \/ x + n \in 0..(SEQ - 1) /\ y = x + n
      \/ x + n >= SEQ /\ y = x + n - SEQ
  BY <1>1, PlusMoves
<1>3. GetSize(o, y) = GetSize(o, x) + n
  BY <1>2, Sizes DEF GetSize, Numbers
<1> QED BY <1>1, <1>3

\* The comparisons are those of the positions, when these are not far apart.
LEMMA PlaceOrder ==
    ASSUME NEW o \in Numbers, NEW x \in Numbers, NEW y \in Numbers,
           GetSize(o, x) - GetSize(o, y) \in (-HALF)..HALF
    PROVE  /\ CompG(x, y) <=> GetSize(o, x) > GetSize(o, y)
           /\ CompGE(x, y) <=> GetSize(o, x) >= GetSize(o, y)
<1>1. GetSize(y, x) = IF GetSize(o, x) >= GetSize(o, y)
                      THEN GetSize(o, x) - GetSize(o, y)
                      ELSE SEQ + GetSize(o, x) - GetSize(o, y)
  BY Sizes DEF GetSize, Numbers
<1>2. GetSize(o, x) \in Nat /\ GetSize(o, y) \in Nat
  BY Place
<1>3. /\ GetSize(y, x) \in 1..HALF <=> GetSize(o, x) > GetSize(o, y)
      /\ GetSize(y, x) \in 0..HALF <=> GetSize(o, x) >= GetSize(o, y)
  BY <1>1, <1>2, Sizes
<1> QED BY <1>3, GreaterIsAhead

\* So is the test of an interval.
LEMMA PlaceHit ==
    ASSUME NEW o \in Numbers, NEW x \in Numbers, NEW y \in Numbers, NEW z \in Numbers,
           GetSize(o, x) <= GetSize(o, y), Hit(x, y, z)
    PROVE  GetSize(o, x) <= GetSize(o, z) /\ GetSize(o, z) <= GetSize(o, y)
BY Sizes DEF Hit, GetSize, Numbers

\* The origins of the two streams.
LEMMA Origins == Plus(ISS, 1) \in Numbers /\ Plus(IRS, 1) \in Numbers
<1>1. ISS \in Numbers /\ IRS \in Numbers /\ 1 \in (-SEQ)..SEQ
  BY TcpConstants DEF Numbers
<1> QED BY <1>1, PlusMoves

\* The position of the n-th number after the first.
LEMMA InNumber ==
    ASSUME NEW n \in 0..(SEQ - 2)
    PROVE  Plus(IRS, 1 + n) \in Numbers /\ InAt(Plus(IRS, 1 + n)) = n
<1>1. IRS \in Numbers
  BY TcpConstants DEF Numbers
<1>2. 1 \in (-SEQ)..SEQ /\ 1 + n \in (-SEQ)..SEQ
  BY Sizes
<1>3. PICK o \in Numbers : o = Plus(IRS, 1)
  BY Origins
<1>4. PICK y \in Numbers : y = Plus(IRS, 1 + n)
  BY <1>1, <1>2, PlusMoves
<1>5. \/ IRS + 1 < 0 /\ o = IRS + 1 + SEQ
      \/ IRS + 1 \in 0..(SEQ - 1) /\ o = IRS + 1
      \/ IRS + 1 >= SEQ /\ o = IRS + 1 - SEQ
  BY <1>1, <1>2, <1>3, PlusMoves
<1>6. \/ IRS + (1 + n) < 0 /\ y = IRS + (1 + n) + SEQ
      \/ IRS + (1 + n) \in 0..(SEQ - 1) /\ y = IRS + (1 + n)
      \/ IRS + (1 + n) >= SEQ /\ y = IRS + (1 + n) - SEQ
  BY <1>1, <1>2, <1>4, PlusMoves
<1>7. GetSize(o, y) = n
  BY <1>1, <1>5, <1>6, Sizes DEF GetSize, Numbers
<1> QED BY <1>3, <1>4, <1>7 DEF InAt

\* The same of our stream.
LEMMA OutNumber ==
    ASSUME NEW n \in 0..(SEQ - 2)
    PROVE  Plus(ISS, 1 + n) \in Numbers /\ OutAt(Plus(ISS, 1 + n)) = n
<1>1. ISS \in Numbers
  BY TcpConstants DEF Numbers
<1>2. 1 \in (-SEQ)..SEQ /\ 1 + n \in (-SEQ)..SEQ
  BY Sizes
<1>3. PICK o \in Numbers : o = Plus(ISS, 1)
  BY Origins
<1>4. PICK y \in Numbers : y = Plus(ISS, 1 + n)
  BY <1>1, <1>2, PlusMoves
<1>5. \/ ISS + 1 < 0 /\ o = ISS + 1 + SEQ
      \/ ISS + 1 \in 0..(SEQ - 1) /\ o = ISS + 1
      \/ ISS + 1 >= SEQ /\ o = ISS + 1 - SEQ
  BY <1>1, <1>2, <1>3, PlusMoves
<1>6. \/ ISS + (1 + n) < 0 /\ y = ISS + (1 + n) + SEQ
      \/ ISS + (1 + n) \in 0..(SEQ - 1) /\ y = ISS + (1 + n)
      \/ ISS + (1 + n) >= SEQ /\ y = ISS + (1 + n) - SEQ
  BY <1>1, <1>2, <1>4, PlusMoves
<1>7. GetSize(o, y) = n
  BY <1>1, <1>5, <1>6, Sizes DEF GetSize, Numbers
<1> QED BY <1>3, <1>4, <1>7 DEF OutAt

\* Positions of the peer's stream.
LEMMA InPlace ==
    ASSUME NEW x \in Numbers
    PROVE  /\ InAt(x) \in 0..(SEQ - 1)
           /\ \A y \in Numbers : InAt(x) = InAt(y) => x = y
BY Place, Origins DEF InAt

\* The distance of two of them.
LEMMA InSize ==
    ASSUME NEW x \in Numbers, NEW y \in Numbers, InAt(x) <= InAt(y)
    PROVE  GetSize(x, y) = InAt(y) - InAt(x)
BY PlaceSize, Origins DEF InAt

\* Moving on and back.
LEMMA InMoves ==
    ASSUME NEW x \in Numbers, NEW n \in (-SEQ)..SEQ, InAt(x) + n \in 0..(SEQ - 1)
    PROVE  Plus(x, n) \in Numbers /\ InAt(Plus(x, n)) = InAt(x) + n
BY PlaceMoves, Origins DEF InAt

\* Their order.
LEMMA InOrder ==
    ASSUME NEW x \in Numbers, NEW y \in Numbers, InAt(x) - InAt(y) \in (-HALF)..HALF
    PROVE  /\ CompG(x, y) <=> InAt(x) > InAt(y)
           /\ CompGE(x, y) <=> InAt(x) >= InAt(y)
BY PlaceOrder, Origins DEF InAt

\* Positions of our stream.
LEMMA OutPlace ==
    ASSUME NEW x \in Numbers
    PROVE  /\ OutAt(x) \in 0..(SEQ - 1)
           /\ \A y \in Numbers : OutAt(x) = OutAt(y) => x = y
BY Place, Origins DEF OutAt

\* The distance of two of them.
LEMMA OutSize ==
    ASSUME NEW x \in Numbers, NEW y \in Numbers, OutAt(x) <= OutAt(y)
    PROVE  GetSize(x, y) = OutAt(y) - OutAt(x)
BY PlaceSize, Origins DEF OutAt

\* Moving on and back.
LEMMA OutMoves ==
    ASSUME NEW x \in Numbers, NEW n \in (-SEQ)..SEQ, OutAt(x) + n \in 0..(SEQ - 1)
    PROVE  Plus(x, n) \in Numbers /\ OutAt(Plus(x, n)) = OutAt(x) + n
BY PlaceMoves, Origins DEF OutAt

\* Their order.
LEMMA OutOrder ==
    ASSUME NEW x \in Numbers, NEW y \in Numbers, OutAt(x) - OutAt(y) \in (-HALF)..HALF
    PROVE  /\ CompG(x, y) <=> OutAt(x) > OutAt(y)
           /\ CompGE(x, y) <=> OutAt(x) >= OutAt(y)
BY PlaceOrder, Origins DEF OutAt

\* The test of an interval of them.
LEMMA OutHit ==
    ASSUME NEW x \in Numbers, NEW y \in Numbers, NEW z \in Numbers,
           OutAt(x) <= OutAt(y), Hit(x, y, z)
    PROVE  OutAt(x) <= OutAt(z) /\ OutAt(z) <= OutAt(y)
BY PlaceHit, Origins DEF OutAt

-----------------------------------------------------------------------------
(***************************************************************************)
(* Control blocks, and what the operations on them leave alone.            *)
(***************************************************************************)

Fields == {"state", "sk", "sndseq", "maxrcvack", "rcvack", "sndack", "rcvwnd", "sndwnd",
           "maxwnd", "freed", "finRcvd", "finSent", "insnd", "sendTimeout", "rexmit",
           "persist", "close", "shut", "rshut", "send", "recv", "chain", "count",
           "written", "stream", "out", "acked", "edge"}
Block(k) == DOMAIN k = Fields

\* What came in.
SameIn(e, k) ==
    /\ e.sndack = k.sndack /\ e.finRcvd = k.finRcvd /\ e.recv = k.recv
    /\ e.chain = k.chain /\ e.count = k.count /\ e.stream = k.stream

\* What goes out: the data, the numbers, the timers.
SameData(e, k) ==
    /\ e.send = k.send /\ e.written = k.written /\ e.rcvack = k.rcvack
    /\ e.sndwnd = k.sndwnd /\ e.maxwnd = k.maxwnd
SameMarks(e, k) ==
    e.sndseq = k.sndseq /\ e.maxrcvack = k.maxrcvack /\ e.out = k.out /\ e.finSent = k.finSent
SameTimers(e, k) ==
    e.sendTimeout = k.sendTimeout /\ e.rexmit = k.rexmit /\ e.persist = k.persist

\* The window that the peer was told.
SameWindow(e, k) ==
    e.rcvwnd = k.rcvwnd /\ e.freed = k.freed /\ e.acked = k.acked /\ e.edge = k.edge

\* What the application did.
SameCall(e, k) ==
    e.sk = k.sk /\ e.close = k.close /\ e.shut = k.shut /\ e.rshut = k.rshut

\* A segment leaves.
EmitFacts(e, k, pos, len, fin, flags) ==
    /\ Block(e) /\ SameIn(e, k) /\ SameData(e, k) /\ SameTimers(e, k) /\ SameCall(e, k)
    /\ e.state = k.state /\ e.finSent = k.finSent
    /\ e.rcvwnd = GetRcvwnd(k) /\ e.freed = 0
    /\ e.acked = Greatest(k.acked, InAt(k.sndack))
    /\ e.edge = Greatest(k.edge, InAt(k.sndack) + GetRcvwnd(k))
    /\ e.sndseq = Plus(k.sndseq, len + flags)
    /\ e.maxrcvack = IF CompG(e.sndseq, k.maxrcvack) THEN e.sndseq ELSE k.maxrcvack
    /\ e.out = IF len > 0 \/ fin
               THEN k.out \union {[at |-> OutAt(k.sndseq), pos |-> pos, len |-> len, fin |-> fin]}
               ELSE k.out

\* A segment changes what it should.
LEMMA EmitIs ==
    ASSUME NEW k, Block(k), NEW pos, NEW len, NEW fin, NEW flags,
           NEW e, e = Emit(k, pos, len, fin, flags)
    PROVE  EmitFacts(e, k, pos, len, fin, flags)
<1>1. Block(e) /\ SameIn(e, k)
  BY DEF Block, Fields, Emit, SameIn
<1>2. SameData(e, k) /\ SameTimers(e, k) /\ SameCall(e, k)
  BY DEF Block, Fields, Emit, SameData, SameTimers, SameCall
<1>3. /\ e.state = k.state /\ e.finSent = k.finSent
      /\ e.rcvwnd = GetRcvwnd(k) /\ e.freed = 0
      /\ e.acked = Greatest(k.acked, InAt(k.sndack))
      /\ e.edge = Greatest(k.edge, InAt(k.sndack) + GetRcvwnd(k))
  BY DEF Block, Fields, Emit
<1>4. e.sndseq = Plus(k.sndseq, len + flags)
  BY DEF Block, Fields, Emit
<1>5. e.maxrcvack = IF CompG(e.sndseq, k.maxrcvack) THEN e.sndseq ELSE k.maxrcvack
  BY <1>4, Zenon DEF Block, Fields, Emit
<1>6. e.out = IF len > 0 \/ fin
              THEN k.out \union {[at |-> OutAt(k.sndseq), pos |-> pos, len |-> len, fin |-> fin]}
              ELSE k.out
  BY Zenon DEF Block, Fields, Emit
<1> QED BY <1>1, <1>2, <1>3, <1>4, <1>5, <1>6, Zenon DEF EmitFacts

\* The states that the final segment leads to, once the application is done.
Moved(e, k) ==
    \/ e.state = k.state
    \/ k.shut /\ k.state = "ESTABLISHED" /\ e.state = "FIN_WAIT_1"
    \/ k.shut /\ k.state = "CLOSE_WAIT" /\ e.state = "LAST_ACK"
FinMay(k) == k.shut \/ k.state \in {"FIN_WAIT_1", "LAST_ACK"}

\* The final segment changes the state and its own flag.
LEMMA FinGoesIs ==
    ASSUME NEW k, Block(k), NEW e, e = FinGoes(k)
    PROVE  /\ Block(e) /\ SameIn(e, k) /\ SameData(e, k) /\ SameTimers(e, k)
           /\ SameWindow(e, k) /\ SameCall(e, k) /\ e.finSent
           /\ FinMay(k) => Moved(e, k)
           /\ e.state \notin {"ESTABLISHED", "CLOSE_WAIT"}
           /\ e.sndseq = k.sndseq /\ e.maxrcvack = k.maxrcvack /\ e.out = k.out
<1>1. Block(e) /\ SameIn(e, k) /\ SameData(e, k) /\ SameTimers(e, k)
  BY DEF Block, Fields, FinGoes, SameIn, SameData, SameTimers
<1>2. /\ SameWindow(e, k) /\ SameCall(e, k) /\ e.finSent
      /\ e.sndseq = k.sndseq /\ e.maxrcvack = k.maxrcvack /\ e.out = k.out
  BY DEF Block, Fields, FinGoes, SameWindow, SameCall
<1>3. e.state = CASE k.state = "ESTABLISHED" -> "FIN_WAIT_1"
                  [] k.state = "CLOSE_WAIT"  -> "LAST_ACK"
                  [] OTHER                   -> k.state
  BY Zenon DEF Block, Fields, FinGoes
<1>4. (FinMay(k) => Moved(e, k)) /\ e.state \notin {"ESTABLISHED", "CLOSE_WAIT"}
  BY <1>3 DEF Moved, FinMay
<1> QED BY <1>1, <1>2, <1>4

-----------------------------------------------------------------------------
(***************************************************************************)
(* What goes out, as the receiving side sees it: the window is told to the *)
(* peer, nothing else changes.                                             *)
(***************************************************************************)

\* The position of the peer's stream that is expected next; its FIN takes one.
FinOf(k) == IF k.finRcvd THEN 1 ELSE 0
Awaited(k) == Len(k.stream) + FinOf(k)

\* What the peer was told fits the buffer and is never taken back; all that came is
\* below it.
Window(k) ==
    /\ k.sndack \in Numbers /\ InAt(k.sndack) = Awaited(k) /\ Len(k.stream) \in Nat
    /\ k.recv \in 0..RCVMAX /\ k.rcvwnd \in 0..RCVMAX /\ k.freed \in Nat
    /\ k.acked \in Nat /\ k.edge \in Nat
    /\ k.acked <= Awaited(k) /\ k.acked + k.rcvwnd <= k.edge
    /\ k.edge <= Awaited(k) + k.rcvwnd
    /\ Len(k.stream) <= k.edge
    /\ k.edge + k.recv <= Awaited(k) + RCVMAX

\* Half of the buffer, and what a window that is not opened by a small piece lacks.
Half  == RCVMAX \div 2
Slack == IF Half = 0 THEN 0 ELSE Half - 1

\* The window lacks no more than that, beside what waits to be read and what was
\* read without telling.
Opens(k) ==
    \/ k.close \/ k.finRcvd
    \/ /\ k.edge + k.recv + k.freed + Slack >= Awaited(k) + RCVMAX
       /\ k.freed = 0 \/ k.freed < Half

\* Half of the buffer.
LEMMA HalfIs == RCVMAX \in Nat \ {0} /\ Half \in Nat /\ 2 * Half <= RCVMAX /\ RCVMAX <= 2 * Half + 1
BY TcpConstants DEF Half

\* The window that the next segment tells.
LEMMA RcvwndIs ==
    ASSUME NEW k, k.recv \in 0..RCVMAX, k.rcvwnd \in 0..RCVMAX,
           NEW w, w = GetRcvwnd(k)
    PROVE  /\ w \in 0..RCVMAX
           /\ \/ w = RCVMAX - k.recv
              \/ /\ w = k.rcvwnd /\ w # 0 /\ w <= RCVMAX - k.recv
                 /\ w + Slack >= RCVMAX - k.recv /\ Half > 0
<1>1. Greatest(RCVMAX - k.recv, 0) = RCVMAX - k.recv
  BY HalfIs DEF Greatest
<1>2. w = IF k.rcvwnd < RCVMAX - k.recv /\ RCVMAX - k.recv - k.rcvwnd < RCVMSS
             /\ RCVMAX - k.recv - k.rcvwnd < Half /\ k.rcvwnd # 0
          THEN k.rcvwnd ELSE RCVMAX - k.recv
  BY <1>1 DEF GetRcvwnd, Half
<1> QED BY <1>2, HalfIs DEF Slack

\* What goes out, for the receiving side.
Sent(e, k) ==
    /\ Block(e) /\ SameIn(e, k) /\ SameData(e, k) /\ SameCall(e, k) /\ Moved(e, k)
    /\ k.out \subseteq e.out
    /\ Window(k) => Window(e) /\ e.edge >= k.edge /\ (Opens(k) => Opens(e))

\* It may go out in several steps.
LEMMA SentTwice ==
    ASSUME NEW k, NEW e, NEW f, Sent(e, k), Sent(f, e)
    PROVE  Sent(f, k)
<1>1. Block(f) /\ SameIn(f, k) /\ SameData(f, k) /\ SameCall(f, k)
  BY DEF Sent, SameIn, SameData, SameCall
<1>2. Moved(f, k)
  BY DEF Sent, Moved, SameCall
<1>3. ASSUME Window(k)
      PROVE  Window(f) /\ f.edge >= k.edge /\ (Opens(k) => Opens(f))
  <2>1. Window(e) /\ e.edge >= k.edge /\ (Opens(k) => Opens(e))
    BY <1>3, Zenon DEF Sent
  <2>2. Window(f) /\ f.edge >= e.edge /\ (Opens(e) => Opens(f))
    BY <2>1, Zenon DEF Sent
  <2>3. k.edge \in Nat /\ e.edge \in Nat /\ f.edge \in Nat
    BY <1>3, <2>1, <2>2, Zenon DEF Window
  <2>4. f.edge >= k.edge
    BY <2>1, <2>2, <2>3
  <2> QED BY <2>1, <2>2, <2>4, Zenon
<1>4. k.out \subseteq f.out
  BY DEF Sent
<1> QED BY <1>1, <1>2, <1>3, <1>4, Zenon DEF Sent

\* Steps that leave both the window and what came in.
LEMMA SentSame ==
    ASSUME NEW k, NEW e, Block(e), SameIn(e, k), SameData(e, k), SameCall(e, k), Moved(e, k),
           SameWindow(e, k), e.out = k.out
    PROVE  Sent(e, k)
<1>1. Awaited(e) = Awaited(k)
  BY DEF SameIn, Awaited, FinOf
<1>2. ASSUME Window(k) PROVE Window(e) /\ e.edge >= k.edge
  BY <1>1, <1>2 DEF Window, SameIn, SameWindow
<1>3. Opens(k) => Opens(e)
  BY <1>1 DEF Opens, SameIn, SameWindow, SameCall
<1>4. k.out \subseteq e.out
  OBVIOUS
<1> QED BY <1>2, <1>3, <1>4, Zenon DEF Sent

\* A segment tells the peer as much as fits, and acknowledges all that came.
LEMMA EmitWindow ==
    ASSUME NEW k, Block(k), Window(k), NEW pos, NEW len, NEW fin, NEW flags,
           NEW e, e = Emit(k, pos, len, fin, flags)
    PROVE  Window(e) /\ e.edge >= k.edge /\ Opens(e)
<1> DEFINE w == GetRcvwnd(k)
<1>1. /\ SameIn(e, k) /\ e.rcvwnd = w /\ e.freed = 0
      /\ e.acked = Greatest(k.acked, InAt(k.sndack))
      /\ e.edge = Greatest(k.edge, InAt(k.sndack) + w)
  <2>1. EmitFacts(e, k, pos, len, fin, flags)
    BY EmitIs
  <2> QED BY <2>1, Zenon DEF EmitFacts
<1>2. Awaited(e) = Awaited(k)
  BY <1>1 DEF SameIn, Awaited, FinOf
<1>3. /\ w \in 0..RCVMAX
      /\ \/ w = RCVMAX - k.recv
         \/ /\ w = k.rcvwnd /\ w # 0 /\ w <= RCVMAX - k.recv
            /\ w + Slack >= RCVMAX - k.recv /\ Half > 0
  BY RcvwndIs DEF Window
<1> HIDE DEF w
<1>4. /\ e.sndack \in Numbers /\ InAt(e.sndack) = Awaited(e) /\ Len(e.stream) \in Nat
      /\ e.stream = k.stream /\ e.recv = k.recv /\ e.recv \in 0..RCVMAX
  BY <1>1, <1>2 DEF Window, SameIn
<1> FinOf(k) \in {0, 1} /\ Len(k.stream) \in Nat
  BY DEF FinOf, Window
<1>5. Awaited(k) \in Nat /\ Slack \in Nat
  BY HalfIs DEF Awaited, Slack
<1>6. e.acked = Awaited(k)
  BY <1>1, <1>5 DEF Window, Greatest
<1>7. e.edge = Awaited(k) + w
  <2>1. e.edge = Greatest(k.edge, Awaited(k) + w)
    BY <1>1, Zenon DEF Window
  <2>2. k.edge \in Nat /\ k.edge <= Awaited(k) + w
    <3>1. /\ k.edge \in Nat /\ k.edge <= Awaited(k) + k.rcvwnd
          /\ k.recv \in 0..RCVMAX /\ k.rcvwnd \in 0..RCVMAX
          /\ k.edge + k.recv <= Awaited(k) + RCVMAX
      BY Zenon DEF Window
    <3> QED BY <1>3, <1>5, <3>1, HalfIs
  <2> QED BY <1>3, <1>5, <2>1, <2>2 DEF Greatest
<1>8. Len(e.stream) <= e.edge /\ e.edge >= k.edge
  BY <1>3, <1>4, <1>5, <1>7, HalfIs DEF Window
<1>11. e.rcvwnd = w /\ e.freed = 0
  BY <1>1
<1>9. Window(e)
  BY <1>2, <1>3, <1>4, <1>5, <1>6, <1>7, <1>8, <1>11, HalfIs DEF Window
<1>10. Opens(e)
  BY <1>1, <1>2, <1>3, <1>4, <1>5, <1>7, HalfIs DEF Opens, Slack
<1> QED BY <1>8, <1>9, <1>10

\* Nothing else changes for the receiving side.
LEMMA EmitSent ==
    ASSUME NEW k, Block(k), NEW pos, NEW len, NEW fin, NEW flags,
           NEW e, e = Emit(k, pos, len, fin, flags)
    PROVE  Sent(e, k)
<1>1. EmitFacts(e, k, pos, len, fin, flags)
  BY EmitIs
<1>2. /\ Block(e) /\ SameIn(e, k) /\ SameData(e, k) /\ SameCall(e, k) /\ Moved(e, k)
  BY <1>1, Zenon DEF EmitFacts, Moved
<1>3. Window(k) => Window(e) /\ e.edge >= k.edge /\ Opens(e)
  BY EmitWindow
<1>4. k.out \subseteq e.out
  BY <1>1 DEF EmitFacts
<1> QED BY <1>2, <1>3, <1>4, Zenon DEF Sent

\* So does the final segment.
LEMMA FinEmitSent ==
    ASSUME NEW k, Block(k), FinMay(k), NEW pos, NEW len, NEW fin, NEW flags,
           NEW e, e = Emit(FinGoes(k), pos, len, fin, flags)
    PROVE  Sent(e, k)
<1>1. PICK f : f = FinGoes(k)
  OBVIOUS
<1>2. Block(f) /\ Sent(f, k)
  BY <1>1, FinGoesIs, SentSame, Zenon
<1>3. Sent(e, f)
  BY <1>1, <1>2, EmitSent, Zenon
<1> QED BY <1>2, <1>3, SentTwice, Zenon

\* A segment without data.
LEMMA HeadsegSent ==
    ASSUME NEW k, Block(k), NEW flag, flag = "FIN" => FinMay(k),
           NEW e, e = SendHeadseg(k, flag)
    PROVE  Sent(e, k)
BY FinEmitSent, EmitSent, Zenon DEF SendHeadseg

\* One with data.
LEMMA DatasegSent ==
    ASSUME NEW k, Block(k), NEW size, NEW e, e = SendDataseg(k, size)
    PROVE  Sent(e, k)
BY FinEmitSent, EmitSent, Zenon DEF SendDataseg, FinMay

\* Taking the next number back before a segment.
LEMMA AgainIs ==
    ASSUME NEW k, Block(k), NEW x, NEW e, e = [k EXCEPT !.sndseq = x]
    PROVE  /\ Block(e) /\ SameIn(e, k) /\ SameData(e, k) /\ SameTimers(e, k) /\ SameWindow(e, k)
           /\ SameCall(e, k) /\ e.state = k.state /\ e.sndseq = x
           /\ e.maxrcvack = k.maxrcvack /\ e.out = k.out /\ e.finSent = k.finSent
<1>1. Block(e) /\ SameIn(e, k) /\ SameData(e, k) /\ SameTimers(e, k)
  BY DEF Block, Fields, SameIn, SameData, SameTimers
<1> QED BY <1>1 DEF Block, Fields, SameWindow, SameCall

\* That tells the peer nothing.
LEMMA AgainSent ==
    ASSUME NEW k, Block(k), NEW x, NEW e, e = [k EXCEPT !.sndseq = x]
    PROVE  Block(e) /\ Sent(e, k)
<1>1. /\ Block(e) /\ SameIn(e, k) /\ SameData(e, k) /\ SameWindow(e, k)
      /\ SameCall(e, k) /\ e.state = k.state /\ e.out = k.out
  BY AgainIs
<1> QED BY <1>1, SentSame, Zenon DEF Moved

\* An acknowledgement.
LEMMA AckSent ==
    ASSUME NEW k, Block(k), NEW e, e = SendAck(k)
    PROVE  Sent(e, k)
<1>1. PICK again : again = [k EXCEPT !.sndseq = Plus(@, -1)]
  OBVIOUS
<1>2. again = [k EXCEPT !.sndseq = Plus(k.sndseq, -1)]
  BY <1>1 DEF Block, Fields
<1>3. Block(again) /\ Sent(again, k)
  BY <1>2, AgainSent, Zenon
<1>4. again.state = k.state
  BY <1>2, AgainIs
<1>5. \/ e = SendHeadseg(again, "SYN")
      \/ e = SendHeadseg(again, "FIN") /\ FinMay(again)
      \/ e = SendHeadseg(k, "ACK")
  BY <1>1, <1>4 DEF SendAck, FinMay
<1>6. Sent(e, again) \/ Sent(e, k)
  BY <1>3, <1>5, HeadsegSent
<1> QED BY <1>3, <1>6, SentTwice, Zenon

\* After it the window lacks no more than it may.
LEMMA AckOpens ==
    ASSUME NEW k, Block(k), Window(k), NEW e, e = SendAck(k)
    PROVE  Opens(e)
<1>1. PICK again : again = [k EXCEPT !.sndseq = Plus(@, -1)]
  OBVIOUS
<1>2. again = [k EXCEPT !.sndseq = Plus(k.sndseq, -1)]
  BY <1>1 DEF Block, Fields
<1>3. Block(again) /\ Window(again) /\ again.state = k.state
  <2>1. Block(again) /\ Sent(again, k)
    BY <1>2, AgainSent
  <2>2. again.state = k.state
    BY <1>2, AgainIs
  <2> QED BY <2>1, <2>2, Zenon DEF Sent
<1>4. PICK f : f = FinGoes(again)
  OBVIOUS
<1>5. CASE e = SendHeadseg(again, "SYN")
  BY <1>3, <1>5, EmitWindow DEF SendHeadseg
<1>6. CASE e = SendHeadseg(again, "FIN") /\ FinMay(again)
  <2>1. Block(f) /\ Window(f)
    <3>1. Block(f) /\ Sent(f, again)
      BY <1>3, <1>4, <1>6, FinGoesIs, SentSame, Zenon
    <3> QED BY <1>3, <3>1, Zenon DEF Sent
  <2>2. e = Emit(f, 0, 0, TRUE, 1)
    BY <1>4, <1>6 DEF SendHeadseg
  <2> QED BY <2>1, <2>2, EmitWindow
<1>7. CASE e = SendHeadseg(k, "ACK")
  BY <1>7, EmitWindow DEF SendHeadseg
<1>8. \/ e = SendHeadseg(again, "SYN")
      \/ e = SendHeadseg(again, "FIN") /\ FinMay(again)
      \/ e = SendHeadseg(k, "ACK")
  BY <1>1, <1>3 DEF SendAck, FinMay
<1> QED BY <1>5, <1>6, <1>7, <1>8

-----------------------------------------------------------------------------
(***************************************************************************)
(* What goes out, as the sending side sees it.                             *)
(***************************************************************************)

\* Positions of our stream: what the peer has acknowledged, what goes out next,
\* and how far it has ever gone out.
AckedTo(k) == OutAt(k.rcvack)
NextAt(k)  == OutAt(k.sndseq)
SentTo(k)  == OutAt(k.maxrcvack)

\* A segment that went out: its bytes are those of its number.  One without any is
\* our FIN, which an acknowledgement repeats under the last number.
SegOK(s, written) ==
    /\ s.len \in 0..SNDMSS
    /\ s.len > 0 => s.pos = s.at /\ s.at \in Nat /\ s.at + s.len <= written
    /\ s.len = 0 => s.at \in 0..(written + 1) \/ s.at = SEQ - 1
OutOK(k) == \A s \in k.out : SegOK(s, k.written)

\* The numbers of the sending side, which the three positions stand for.
OutNumbers(k) == k.rcvack \in Numbers /\ k.sndseq \in Numbers /\ k.maxrcvack \in Numbers

\* The send buffer has what was written and not acknowledged; our FIN is behind it.
Positions(k) ==
    /\ AckedTo(k) <= k.written + 1
    /\ k.send = IF AckedTo(k) <= k.written THEN k.written - AckedTo(k) ELSE 0
    /\ AckedTo(k) <= NextAt(k) /\ NextAt(k) <= SentTo(k) /\ SentTo(k) <= k.written + 2
    /\ AckedTo(k) <= k.written => SentTo(k) <= k.written + 1
    /\ SentTo(k) > k.written => k.shut

Sender(k) ==
    /\ k.written \in Nat /\ k.written + 1 < HALF
    /\ k.sndwnd \in Nat /\ k.maxwnd \in Nat
    /\ OutNumbers(k) /\ Positions(k) /\ OutOK(k)

\* The three positions are natural numbers.
LEMMA OutPlaces ==
    ASSUME NEW k, OutNumbers(k)
    PROVE  AckedTo(k) \in Nat /\ NextAt(k) \in Nat /\ SentTo(k) \in Nat
<1>1. \A x \in Numbers : OutAt(x) \in 0..(SEQ - 1)
  BY OutPlace
<1> QED BY <1>1, Sizes DEF OutNumbers, AckedTo, NextAt, SentTo

\* They are those of a block with the same numbers.
LEMMA SamePlaces ==
    ASSUME NEW k, NEW e, e.rcvack = k.rcvack, e.sndseq = k.sndseq, e.maxrcvack = k.maxrcvack
    PROVE  AckedTo(e) = AckedTo(k) /\ NextAt(e) = NextAt(k) /\ SentTo(e) = SentTo(k)
           /\ (OutNumbers(k) => OutNumbers(e))
BY DEF AckedTo, NextAt, SentTo, OutNumbers

\* What the sending side reads decides whether it is right.
LEMMA SenderSame ==
    ASSUME NEW k, Sender(k), NEW e, SameData(e, k), e.shut = k.shut,
           e.sndseq = k.sndseq, e.maxrcvack = k.maxrcvack, e.out = k.out
    PROVE  Sender(e)
<1>1. /\ e.written = k.written /\ e.send = k.send /\ e.rcvack = k.rcvack
      /\ e.sndwnd = k.sndwnd /\ e.maxwnd = k.maxwnd
  BY DEF SameData
<1>2. AckedTo(e) = AckedTo(k) /\ NextAt(e) = NextAt(k) /\ SentTo(e) = SentTo(k) /\ OutNumbers(e)
  BY <1>1, SamePlaces DEF Sender
<1>3. Positions(e)
  BY <1>1, <1>2, Zenon DEF Sender, Positions
<1>4. OutOK(e)
  BY <1>1, Zenon DEF Sender, OutOK
<1> QED BY <1>1, <1>2, <1>3, <1>4, Zenon DEF Sender

\* A segment that may go out: its bytes are those at the next position, and no
\* number is used that is neither a byte's nor the FIN's.
MayGo(k, pos, len, fin, flags) ==
    /\ len \in 0..SNDMSS /\ flags \in {0, 1} /\ (fin => flags = 1)
    /\ len > 0 => pos = NextAt(k) /\ NextAt(k) + len <= k.written
    /\ NextAt(k) + len + flags <= k.written + 2
    /\ AckedTo(k) <= k.written => NextAt(k) + len + flags <= k.written + 1
    /\ NextAt(k) + len + flags > k.written => k.shut \/ len + flags = 0

\* The next position moves on by the numbers that a segment takes.
Advances(e, k, len, flags) == NextAt(e) = NextAt(k) + len + flags /\ SentTo(e) >= SentTo(k)

\* A segment leaves the sending side as it should be, and moves its position.
LEMMA EmitSender ==
    ASSUME NEW k, Block(k), Sender(k), NEW pos, NEW len, NEW fin, NEW flags,
           MayGo(k, pos, len, fin, flags), NEW e, e = Emit(k, pos, len, fin, flags)
    PROVE  Sender(e) /\ Advances(e, k, len, flags)
<1>1. EmitFacts(e, k, pos, len, fin, flags)
  BY EmitIs
<1>2. /\ e.written = k.written /\ e.send = k.send /\ e.rcvack = k.rcvack
      /\ e.sndwnd = k.sndwnd /\ e.maxwnd = k.maxwnd /\ e.shut = k.shut
  BY <1>1 DEF EmitFacts, SameData, SameCall
<1>3. /\ e.sndseq = Plus(k.sndseq, len + flags)
      /\ e.maxrcvack = IF CompG(e.sndseq, k.maxrcvack) THEN e.sndseq ELSE k.maxrcvack
  BY <1>1, Zenon DEF EmitFacts
<1>4. /\ k.written \in Nat /\ k.written + 1 < HALF /\ OutNumbers(k)
      /\ k.rcvack \in Numbers /\ k.sndseq \in Numbers /\ k.maxrcvack \in Numbers
      /\ AckedTo(k) \in Nat /\ NextAt(k) \in Nat /\ SentTo(k) \in Nat
      /\ AckedTo(k) <= NextAt(k) /\ NextAt(k) <= SentTo(k) /\ SentTo(k) <= k.written + 2
  BY OutPlaces DEF Sender, OutNumbers, Positions
<1>5. /\ len \in Nat /\ flags \in Nat /\ SNDMSS \in Nat
      /\ NextAt(k) + len + flags <= k.written + 2
  BY TcpConstants DEF MayGo
<1>6. e.sndseq \in Numbers /\ NextAt(e) = NextAt(k) + len + flags
  <2>1. len + flags \in (-SEQ)..SEQ /\ NextAt(k) + (len + flags) \in 0..(SEQ - 1)
    BY <1>4, <1>5, Sizes
  <2>2. Plus(k.sndseq, len + flags) \in Numbers
        /\ OutAt(Plus(k.sndseq, len + flags)) = OutAt(k.sndseq) + (len + flags)
    BY <1>4, <2>1, OutMoves DEF NextAt
  <2> QED BY <1>3, <1>4, <1>5, <2>2 DEF NextAt
<1>7. e.maxrcvack \in Numbers
      /\ SentTo(e) = IF NextAt(e) > SentTo(k) THEN NextAt(e) ELSE SentTo(k)
  <2>1. OutAt(e.sndseq) - OutAt(k.maxrcvack) \in (-HALF)..HALF
    BY <1>4, <1>5, <1>6, Sizes DEF NextAt, SentTo
  <2>2. CompG(e.sndseq, k.maxrcvack) <=> NextAt(e) > SentTo(k)
    BY <1>4, <1>6, <2>1, OutOrder DEF NextAt, SentTo
  <2> QED BY <1>3, <1>4, <1>6, <2>2 DEF NextAt, SentTo
<1>8. AckedTo(e) = AckedTo(k)
  BY <1>2 DEF AckedTo
<1>9. Positions(e)
  BY <1>2, <1>4, <1>5, <1>6, <1>7, <1>8 DEF Sender, Positions, MayGo
<1>10. OutOK(e)
  <2> DEFINE s == [at |-> OutAt(k.sndseq), pos |-> pos, len |-> len, fin |-> fin]
  <2>1. e.out = IF len > 0 \/ fin THEN k.out \union {s} ELSE k.out
    BY <1>1, Zenon DEF EmitFacts
  <2>2. len > 0 \/ fin => SegOK(s, k.written)
    <3>1. s.at = NextAt(k) /\ s.pos = pos /\ s.len = len
      BY DEF NextAt
    <3>2. /\ len \in 0..SNDMSS /\ (fin => flags = 1)
          /\ len > 0 => pos = NextAt(k) /\ NextAt(k) + len <= k.written
      BY DEF MayGo
    <3> HIDE DEF s
    <3> QED BY <1>4, <1>5, <3>1, <3>2 DEF SegOK
  <2>3. \A t \in k.out : SegOK(t, k.written)
    BY DEF Sender, OutOK
  <2>4. \A t \in e.out : t \in k.out \/ (t = s /\ (len > 0 \/ fin))
    BY <2>1
  <2> HIDE DEF s
  <2> QED BY <1>2, <2>2, <2>3, <2>4, Zenon DEF OutOK
<1>11. OutNumbers(e)
  BY <1>2, <1>4, <1>6, <1>7 DEF OutNumbers
<1>12. SentTo(e) >= SentTo(k)
  <2>1. NextAt(e) \in Nat
    BY <1>4, <1>5, <1>6
  <2> QED BY <1>4, <1>7, <2>1
<1> QED BY <1>2, <1>6, <1>9, <1>10, <1>11, <1>12 DEF Sender, Advances

\* The final segment's own changes are none of the data.
LEMMA FinGoesSender ==
    ASSUME NEW k, Block(k), Sender(k), NEW e, e = FinGoes(k)
    PROVE  Block(e) /\ Sender(e) /\ NextAt(e) = NextAt(k) /\ AckedTo(e) = AckedTo(k)
           /\ SentTo(e) = SentTo(k) /\ SameData(e, k) /\ SameTimers(e, k) /\ SameCall(e, k) /\ e.finSent
<1>1. /\ Block(e) /\ SameData(e, k) /\ SameTimers(e, k) /\ SameCall(e, k) /\ e.finSent
      /\ e.sndseq = k.sndseq /\ e.maxrcvack = k.maxrcvack /\ e.out = k.out
  BY FinGoesIs
<1>2. e.shut = k.shut /\ e.rcvack = k.rcvack
  BY <1>1 DEF SameCall, SameData
<1>3. Sender(e)
  BY <1>1, <1>2, SenderSame, Zenon
<1> QED BY <1>1, <1>2, <1>3, SamePlaces, Zenon

\* What was sent and not acknowledged, and what was not sent.
LEMMA RestIs ==
    ASSUME NEW k, Sender(k)
    PROVE  /\ GetSize(k.rcvack, k.sndseq) = NextAt(k) - AckedTo(k)
           /\ Rest(k) = k.send - (NextAt(k) - AckedTo(k))
           /\ AckedTo(k) <= k.written => Rest(k) = k.written - NextAt(k)
           /\ k.send \in Nat /\ k.send <= k.written
           /\ k.send > 0 => AckedTo(k) < k.written /\ k.send = k.written - AckedTo(k)
<1>1. /\ k.written \in Nat /\ OutNumbers(k)
      /\ k.rcvack \in Numbers /\ k.sndseq \in Numbers
      /\ AckedTo(k) \in Nat /\ NextAt(k) \in Nat
      /\ AckedTo(k) <= NextAt(k)
      /\ k.send = IF AckedTo(k) <= k.written THEN k.written - AckedTo(k) ELSE 0
  BY OutPlaces DEF Sender, OutNumbers, Positions
<1>2. GetSize(k.rcvack, k.sndseq) = NextAt(k) - AckedTo(k)
  BY <1>1, OutSize, Zenon DEF NextAt, AckedTo
<1>3. Rest(k) = k.send - (NextAt(k) - AckedTo(k))
  BY <1>2 DEF Rest
<1> QED BY <1>1, <1>2, <1>3

\* What every segment leaves: the data, the timers, what the application did.
Leaves(e, k) == Block(e) /\ SameData(e, k) /\ SameTimers(e, k) /\ SameCall(e, k)

\* Leaving them is transitive.
LEMMA LeavesTwice ==
    ASSUME NEW k, NEW e, NEW f, Leaves(e, k), Leaves(f, e)
    PROVE  Leaves(f, k)
BY DEF Leaves, SameData, SameTimers, SameCall

\* A data segment takes the bytes at the next position, and our FIN only behind
\* the last of them.
LEMMA DatasegSender ==
    ASSUME NEW k, Block(k), Sender(k), NEW size \in 1..SNDMSS,
           AckedTo(k) <= k.written, NextAt(k) <= k.written,
           NEW e, e = SendDataseg(k, size)
    PROVE  /\ Sender(e) /\ Leaves(e, k) /\ SentTo(e) >= SentTo(k)
           /\ LET len == Least(size, k.written - NextAt(k))
              IN  \/ /\ k.shut /\ NextAt(k) + len = k.written
                     /\ NextAt(e) = k.written + 1 /\ e.finSent
                  \/ /\ ~(k.shut /\ NextAt(k) + len = k.written)
                     /\ NextAt(e) = NextAt(k) + len /\ e.finSent = k.finSent
<1> DEFINE rest == k.written - NextAt(k)
           len == Least(size, rest)
<1>1. /\ k.written \in Nat /\ NextAt(k) \in Nat /\ AckedTo(k) \in Nat /\ SNDMSS \in Nat
      /\ Rest(k) = rest /\ size \in Nat
  BY RestIs, OutPlaces, TcpConstants DEF Sender
<1>2. /\ rest \in Nat /\ len \in 0..SNDMSS /\ len <= rest
      /\ k.written - Rest(k) = NextAt(k)
      /\ len = rest <=> NextAt(k) + len = k.written
  <2>1. rest \in Nat /\ k.written - rest = NextAt(k) /\ Rest(k) = rest
    BY <1>1
  <2>2. len = IF size < rest THEN size ELSE rest
    BY DEF Least
  <2>3. rest = k.written - NextAt(k)
    OBVIOUS
  <2> HIDE DEF rest, len
  <2> QED BY <1>1, <2>1, <2>2, <2>3
<1>3. /\ Least(size, Rest(k)) = len
      /\ e = IF k.shut /\ len = rest
             THEN Emit(FinGoes(k), NextAt(k), len, TRUE, 1)
             ELSE Emit(k, NextAt(k), len, FALSE, 0)
  <2>1. Least(size, Rest(k)) = len
    BY <1>1
  <2> HIDE DEF rest, len
  <2> QED BY <1>1, <1>2, <2>1, Zenon DEF SendDataseg
<1> HIDE DEF rest, len
<1>4. CASE k.shut /\ len = rest
  <2>1. PICK f : f = FinGoes(k)
    OBVIOUS
  <2>2. /\ Block(f) /\ Sender(f) /\ NextAt(f) = NextAt(k) /\ AckedTo(f) = AckedTo(k)
        /\ SentTo(f) = SentTo(k) /\ Leaves(f, k) /\ f.finSent /\ f.written = k.written /\ f.shut = k.shut
    BY <2>1, FinGoesSender DEF Leaves, SameData, SameCall
  <2>3. MayGo(f, NextAt(k), len, TRUE, 1)
    BY <1>1, <1>2, <1>4, <2>2 DEF MayGo
  <2>4. e = Emit(f, NextAt(k), len, TRUE, 1)
    BY <1>3, <1>4, <2>1
  <2>5. Sender(e) /\ NextAt(e) = NextAt(k) + len + 1 /\ SentTo(e) >= SentTo(k)
    <3>1. Sender(e) /\ Advances(e, f, len, 1)
      BY <2>2, <2>3, <2>4, EmitSender
    <3> QED BY <3>1, <2>2 DEF Advances
  <2>6. Leaves(e, f) /\ e.finSent = f.finSent
    <3>1. EmitFacts(e, f, NextAt(k), len, TRUE, 1)
      BY <2>2, <2>4, EmitIs
    <3> QED BY <3>1 DEF EmitFacts, Leaves
  <2>7. NextAt(k) + len = k.written /\ NextAt(e) = k.written + 1
    BY <1>1, <1>2, <1>4, <2>5
  <2> QED BY <1>4, <2>2, <2>5, <2>6, <2>7, LeavesTwice, Zenon DEF len, rest
<1>5. CASE ~(k.shut /\ len = rest)
  <2>1. MayGo(k, NextAt(k), len, FALSE, 0)
    BY <1>1, <1>2 DEF MayGo
  <2>2. e = Emit(k, NextAt(k), len, FALSE, 0)
    BY <1>3, <1>5
  <2>3. Sender(e) /\ NextAt(e) = NextAt(k) + len + 0 /\ SentTo(e) >= SentTo(k)
    <3>1. Sender(e) /\ Advances(e, k, len, 0)
      BY <2>1, <2>2, EmitSender
    <3> QED BY <3>1 DEF Advances
  <2>4. Leaves(e, k) /\ e.finSent = k.finSent
    <3>1. EmitFacts(e, k, NextAt(k), len, FALSE, 0)
      BY <2>2, EmitIs
    <3> QED BY <3>1 DEF EmitFacts, Leaves
  <2>5. ~(k.shut /\ NextAt(k) + len = k.written) /\ NextAt(e) = NextAt(k) + len
    BY <1>1, <1>2, <1>5, <2>3
  <2> QED BY <2>3, <2>4, <2>5, Zenon DEF len, rest
<1> QED BY <1>4, <1>5

\* The final segment alone takes the next number, behind all that was written.
LEMMA FinSender ==
    ASSUME NEW k, Block(k), Sender(k), k.shut,
           AckedTo(k) <= k.written => NextAt(k) <= k.written, NextAt(k) <= k.written + 1,
           NEW e, e = SendHeadseg(k, "FIN")
    PROVE  Sender(e) /\ Leaves(e, k) /\ NextAt(e) = NextAt(k) + 1
<1>1. PICK f : f = FinGoes(k)
  OBVIOUS
<1>2. /\ Block(f) /\ Sender(f) /\ NextAt(f) = NextAt(k) /\ AckedTo(f) = AckedTo(k)
      /\ Leaves(f, k) /\ f.written = k.written /\ f.shut = k.shut
  BY <1>1, FinGoesSender DEF Leaves, SameData, SameCall
<1>3. k.written \in Nat /\ NextAt(k) \in Nat /\ AckedTo(k) \in Nat /\ SNDMSS \in Nat
  BY OutPlaces, TcpConstants DEF Sender
<1>4. MayGo(f, 0, 0, TRUE, 1)
  BY <1>2, <1>3 DEF MayGo
<1>5. e = Emit(f, 0, 0, TRUE, 1)
  BY <1>1 DEF SendHeadseg
<1>6. Sender(e) /\ NextAt(e) = NextAt(k) + 0 + 1
  <2>1. Sender(e) /\ Advances(e, f, 0, 1)
    BY <1>2, <1>4, <1>5, EmitSender
  <2> QED BY <2>1, <1>2 DEF Advances
<1>7. Leaves(e, f)
  <2>1. EmitFacts(e, f, 0, 0, TRUE, 1)
    BY <1>2, <1>5, EmitIs
  <2> QED BY <2>1 DEF EmitFacts, Leaves
<1> QED BY <1>2, <1>3, <1>6, <1>7, LeavesTwice

-----------------------------------------------------------------------------
\* Forth by one undoes back by one.
LEMMA BackAndForth ==
    ASSUME NEW x \in Numbers
    PROVE  /\ Plus(x, -1) \in Numbers /\ Plus(x, 0) = x /\ Plus(Plus(x, -1), 1) = x
           /\ OutAt(Plus(x, -1)) = IF OutAt(x) = 0 THEN SEQ - 1 ELSE OutAt(x) - 1
<1>1. {-1, 0, 1, SEQ - 1} \subseteq (-SEQ)..SEQ
  BY Sizes
<1>2. PICK y \in Numbers : y = Plus(x, -1)
  BY <1>1, PlusMoves
<1>3. \/ x + (-1) < 0 /\ y = x + (-1) + SEQ
      \/ x + (-1) \in 0..(SEQ - 1) /\ y = x + (-1)
      \/ x + (-1) >= SEQ /\ y = x + (-1) - SEQ
  BY <1>1, <1>2, PlusMoves
<1>4. PICK z \in Numbers : z = Plus(y, 1)
  BY <1>1, PlusMoves
<1>5. \/ y + 1 < 0 /\ z = y + 1 + SEQ
      \/ y + 1 \in 0..(SEQ - 1) /\ z = y + 1
      \/ y + 1 >= SEQ /\ z = y + 1 - SEQ
  BY <1>1, <1>4, PlusMoves
<1>6. Plus(x, 0) = x
  <2>1. Plus(x, 0) \in Numbers
        /\ \/ x + 0 < 0 /\ Plus(x, 0) = x + 0 + SEQ
           \/ x + 0 \in 0..(SEQ - 1) /\ Plus(x, 0) = x + 0
           \/ x + 0 >= SEQ /\ Plus(x, 0) = x + 0 - SEQ
    BY <1>1, PlusMoves
  <2> QED BY <2>1, Sizes DEF Numbers
<1>7. z = x
  BY <1>3, <1>5, Sizes DEF Numbers
<1>8. PICK o \in Numbers : o = Plus(ISS, 1)
  BY Origins
<1>9. GetSize(o, y) = IF GetSize(o, x) = 0 THEN SEQ - 1 ELSE GetSize(o, x) - 1
  BY <1>3, Sizes DEF GetSize, Numbers
<1> QED BY <1>2, <1>4, <1>6, <1>7, <1>8, <1>9 DEF OutAt

\* An acknowledgement leaves the numbers; with it goes our FIN again, if it was sent,
\* under the last number that was used.
AckFacts(e, k) ==
    /\ Leaves(e, k) /\ (k.finSent => e.finSent)
    /\ e.sndseq = k.sndseq /\ e.maxrcvack = k.maxrcvack
    /\ \/ e.out = k.out
       \/ k.state # "SYN_RCVD"
          /\ e.out = k.out \union
                  {[at |-> OutAt(Plus(k.sndseq, -1)), pos |-> 0, len |-> 0, fin |-> TRUE]}

\* So it does.
LEMMA AckIs ==
    ASSUME NEW k, Block(k), k.sndseq \in Numbers, k.maxrcvack \in Numbers,
           ~CompG(k.sndseq, k.maxrcvack), NEW e, e = SendAck(k)
    PROVE  AckFacts(e, k)
<1>1. PICK again : again = [k EXCEPT !.sndseq = Plus(@, -1)]
  OBVIOUS
<1>2. again = [k EXCEPT !.sndseq = Plus(k.sndseq, -1)]
  BY <1>1 DEF Block, Fields
<1>3. /\ Block(again) /\ Leaves(again, k) /\ again.sndseq = Plus(k.sndseq, -1)
      /\ again.maxrcvack = k.maxrcvack /\ again.out = k.out /\ again.finSent = k.finSent
  BY <1>2, AgainIs DEF Leaves
<1>4. Plus(again.sndseq, 0 + 1) = k.sndseq /\ Plus(k.sndseq, 0 + 0) = k.sndseq
  BY <1>3, BackAndForth
<1>5. CASE k.state = "SYN_RCVD"
  <2>1. e = Emit(again, 0, 0, FALSE, 1)
    BY <1>1, <1>5 DEF SendAck, SendHeadseg
  <2>2. EmitFacts(e, again, 0, 0, FALSE, 1)
    BY <1>3, <2>1, EmitIs
  <2>3. e.out = again.out
    BY <2>2 DEF EmitFacts
  <2>4. e.sndseq = k.sndseq /\ e.maxrcvack = k.maxrcvack
    BY <1>3, <1>4, <2>2, Zenon DEF EmitFacts
  <2>5. Leaves(e, again) /\ e.finSent = again.finSent
    BY <2>2 DEF EmitFacts, Leaves
  <2> QED BY <1>3, <2>3, <2>4, <2>5, LeavesTwice, Zenon DEF AckFacts
<1>6. CASE k.state \in {"FIN_WAIT_1", "LAST_ACK"}
  <2>1. PICK f : f = FinGoes(again)
    OBVIOUS
  <2>2. e = Emit(f, 0, 0, TRUE, 1)
    BY <1>1, <1>6, <2>1 DEF SendAck, SendHeadseg
  <2>3. /\ Block(f) /\ Leaves(f, again) /\ f.finSent
        /\ f.sndseq = again.sndseq /\ f.maxrcvack = again.maxrcvack /\ f.out = again.out
    BY <1>3, <2>1, FinGoesIs DEF Leaves
  <2>4. EmitFacts(e, f, 0, 0, TRUE, 1)
    BY <2>2, <2>3, EmitIs
  <2>5. e.out = f.out \union {[at |-> OutAt(f.sndseq), pos |-> 0, len |-> 0, fin |-> TRUE]}
    BY <2>4 DEF EmitFacts
  <2>6. e.sndseq = k.sndseq /\ e.maxrcvack = k.maxrcvack
    BY <1>3, <1>4, <2>3, <2>4, Zenon DEF EmitFacts
  <2>7. Leaves(e, f) /\ e.finSent = f.finSent
    BY <2>4 DEF EmitFacts, Leaves
  <2>8. Leaves(e, k)
    BY <1>3, <2>3, <2>7, LeavesTwice, Zenon
  <2>9. k.state # "SYN_RCVD"
    BY <1>6
  <2> QED BY <1>3, <2>3, <2>5, <2>6, <2>7, <2>8, <2>9, Zenon DEF AckFacts
<1>7. CASE k.state # "SYN_RCVD" /\ k.state \notin {"FIN_WAIT_1", "LAST_ACK"}
  <2>1. e = Emit(k, 0, 0, FALSE, 0)
    BY <1>7 DEF SendAck, SendHeadseg
  <2>2. EmitFacts(e, k, 0, 0, FALSE, 0)
    BY <2>1, EmitIs
  <2>3. e.out = k.out
    BY <2>2 DEF EmitFacts
  <2>4. e.sndseq = k.sndseq /\ e.maxrcvack = k.maxrcvack
    BY <1>4, <2>2, Zenon DEF EmitFacts
  <2>5. Leaves(e, k) /\ e.finSent = k.finSent
    BY <2>2 DEF EmitFacts, Leaves
  <2> QED BY <2>3, <2>4, <2>5, Zenon DEF AckFacts
<1> QED BY <1>5, <1>6, <1>7

\* The timers of the sending side: the persist timer runs for bytes that were not
\* sent, or for a FIN behind them; and for what was sent and not acknowledged
\* the retransmission timer does.
Timers(k) ==
    /\ k.persist => /\ k.send > 0 /\ NextAt(k) <= k.written
                    /\ NextAt(k) = k.written => k.finSent
    /\ ~k.close /\ AckedTo(k) # NextAt(k) => k.rexmit

\* Bytes that wait have a timer that runs.
Waits(k) == ~k.close /\ k.send > 0 => k.rexmit \/ k.persist

\* An acknowledgement disturbs none of this.
LEMMA AckSender ==
    ASSUME NEW k, Block(k), Sender(k), NEW e, e = SendAck(k)
    PROVE  /\ Sender(e) /\ AckFacts(e, k)
           /\ AckedTo(e) = AckedTo(k) /\ NextAt(e) = NextAt(k) /\ SentTo(e) = SentTo(k)
           /\ Timers(k) => Timers(e)
           /\ Waits(k) => Waits(e)
<1>1. /\ k.written \in Nat /\ k.written + 1 < HALF /\ OutNumbers(k)
      /\ k.rcvack \in Numbers /\ k.sndseq \in Numbers /\ k.maxrcvack \in Numbers
      /\ AckedTo(k) \in Nat /\ NextAt(k) \in Nat /\ SentTo(k) \in Nat
      /\ AckedTo(k) <= NextAt(k) /\ NextAt(k) <= SentTo(k) /\ SentTo(k) <= k.written + 2
      /\ AckedTo(k) <= k.written => SentTo(k) <= k.written + 1
  BY OutPlaces DEF Sender, OutNumbers, Positions
<1>2. ~CompG(k.sndseq, k.maxrcvack)
  <2>1. OutAt(k.sndseq) - OutAt(k.maxrcvack) \in (-HALF)..HALF
    BY <1>1, Sizes DEF NextAt, SentTo
  <2>2. CompG(k.sndseq, k.maxrcvack) <=> NextAt(k) > SentTo(k)
    BY <1>1, <2>1, OutOrder DEF NextAt, SentTo
  <2> QED BY <1>1, <2>2
<1>3. AckFacts(e, k)
  BY <1>1, <1>2, AckIs
<1>4. /\ SameData(e, k) /\ e.shut = k.shut /\ e.sndseq = k.sndseq /\ e.maxrcvack = k.maxrcvack
      /\ e.written = k.written /\ e.send = k.send /\ e.rcvack = k.rcvack
      /\ e.sndwnd = k.sndwnd /\ e.maxwnd = k.maxwnd /\ e.close = k.close
      /\ e.persist = k.persist /\ e.rexmit = k.rexmit /\ (k.finSent => e.finSent)
  BY <1>3 DEF AckFacts, Leaves, SameData, SameCall, SameTimers
<1>5. /\ AckedTo(e) = AckedTo(k) /\ NextAt(e) = NextAt(k) /\ SentTo(e) = SentTo(k)
      /\ OutNumbers(e)
  BY <1>1, <1>4, SamePlaces
<1>6. Positions(e)
  BY <1>4, <1>5, Zenon DEF Sender, Positions
<1>7. OutOK(e)
  <2> DEFINE s == [at |-> OutAt(Plus(k.sndseq, -1)), pos |-> 0, len |-> 0, fin |-> TRUE]
  <2>1. \A t \in e.out : t \in k.out \/ t = s
    BY <1>3 DEF AckFacts
  <2>2. SegOK(s, k.written)
    <3>1. OutAt(Plus(k.sndseq, -1)) = IF NextAt(k) = 0 THEN SEQ - 1 ELSE NextAt(k) - 1
      BY <1>1, BackAndForth DEF NextAt
    <3>2. s.len = 0 /\ s.at = OutAt(Plus(k.sndseq, -1))
      OBVIOUS
    <3> HIDE DEF s
    <3> QED BY <1>1, <3>1, <3>2, TcpConstants DEF SegOK
  <2>3. \A t \in k.out : SegOK(t, k.written)
    BY DEF Sender, OutOK
  <2> HIDE DEF s
  <2> QED BY <1>4, <2>1, <2>2, <2>3, Zenon DEF OutOK
<1>8. Sender(e)
  BY <1>4, <1>5, <1>6, <1>7, Zenon DEF Sender
<1>9. Timers(k) => Timers(e)
  BY <1>4, <1>5, Zenon DEF Timers
<1>10. Waits(k) => Waits(e)
  BY <1>4, Zenon DEF Waits
<1> QED BY <1>3, <1>5, <1>8, <1>9, <1>10

-----------------------------------------------------------------------------
(***************************************************************************)
(* The loops, whose turns are counted.                                     *)
(***************************************************************************)

\* A set of naturals that is not empty has a least element.
LEMMA LeastNatural ==
    ASSUME NEW S \in SUBSET Nat, S # {}
    PROVE  \E x \in S : \A y \in S : x <= y
<1>1. PICK x \in S : \A y \in S : <<y, x>> \notin OpToRel(<, Nat)
  BY NatLessThanWellFounded, WFMin, Zenon
<1>2. ASSUME NEW y \in S PROVE x <= y
  <2>1. x \in Nat /\ y \in Nat
    OBVIOUS
  <2>2. ~(y < x)
    BY <1>1, <2>1, Zenon DEF OpToRel
  <2> QED BY <2>1, <2>2
<1> QED BY <1>2

\* What holds of the first turn and from one turn to the next holds of the last.
LEMMA Climbs ==
    ASSUME NEW n \in Nat, NEW S \in SUBSET (0..n), 0 \in S,
           \A i \in 0..n : i > 0 /\ i - 1 \in S => i \in S
    PROVE  n \in S
<1> SUFFICES ASSUME n \notin S PROVE FALSE
  OBVIOUS
<1> DEFINE T == (0..n) \ S
<1>1. n \in T /\ T \in SUBSET Nat
  OBVIOUS
<1> HIDE DEF T
<1>2. PICK i \in T : \A j \in T : i <= j
  BY <1>1, LeastNatural
<1>3. i \in 0..n /\ i \notin S /\ i \in Nat /\ i # 0
  BY <1>2 DEF T
<1>4. i - 1 \in 0..n /\ ~(i <= i - 1) /\ i > 0
  BY <1>3
<1>5. i - 1 \notin T
  BY <1>2, <1>4
<1>6. i - 1 \in S
  BY <1>4, <1>5 DEF T
<1> QED BY <1>3, <1>4, <1>6

\* The turns of send_anydata's loop.
SendRun(f, n, k, room, datasize, oneexec, force) ==
    f = [i \in 0..n |-> IF i = 0 THEN [k |-> k, sent |-> 0, left |-> room]
                        ELSE SendTurn(f[i - 1], datasize, oneexec, force)]

\* There are as many as one likes.
LEMMA SendRuns ==
    ASSUME NEW n \in Nat, NEW k, NEW room, NEW datasize, NEW oneexec, NEW force
    PROVE  \E f : SendRun(f, n, k, room, datasize, oneexec, force)
<1> DEFINE Run(f, m) == SendRun(f, m, k, room, datasize, oneexec, force)
           S == {m \in 0..n : \E f : Run(f, m)}
<1>1. 0 \in S
  <2> DEFINE f == [i \in 0..0 |-> [k |-> k, sent |-> 0, left |-> room]]
  <2>1. f = [i \in 0..0 |-> IF i = 0 THEN [k |-> k, sent |-> 0, left |-> room]
                            ELSE SendTurn(f[i - 1], datasize, oneexec, force)]
    OBVIOUS
  <2> HIDE DEF f
  <2>2. Run(f, 0)
    BY <2>1 DEF SendRun
  <2> QED BY <2>2
<1>2. ASSUME NEW m \in 0..n, m > 0, m - 1 \in S
      PROVE  m \in S
  <2>1. PICK f : Run(f, m - 1)
    BY <1>2
  <2> DEFINE g == [i \in 0..m |-> IF i = m THEN SendTurn(f[m - 1], datasize, oneexec, force)
                                  ELSE f[i]]
  <2>2. \A i \in 0..(m - 1) : g[i] = f[i]
    OBVIOUS
  <2>3. \A i \in 0..m :
           g[i] = IF i = 0 THEN [k |-> k, sent |-> 0, left |-> room]
                  ELSE SendTurn(g[i - 1], datasize, oneexec, force)
    <3> SUFFICES ASSUME NEW i \in 0..m
                 PROVE  g[i] = IF i = 0 THEN [k |-> k, sent |-> 0, left |-> room]
                               ELSE SendTurn(g[i - 1], datasize, oneexec, force)
      OBVIOUS
    <3>1. CASE i = m
      <4>1. g[i] = SendTurn(f[i - 1], datasize, oneexec, force) /\ i # 0 /\ i - 1 \in 0..(m - 1)
        BY <1>2, <3>1
      <4>2. g[i - 1] = f[i - 1]
        BY <2>2, <4>1
      <4> HIDE DEF g
      <4> QED BY <4>1, <4>2
    <3>2. CASE i # m
      <4>1. i \in 0..(m - 1) /\ (i # 0 => i - 1 \in 0..(m - 1))
        BY <3>2
      <4>2. g[i] = f[i] /\ (i # 0 => g[i - 1] = f[i - 1])
        BY <2>2, <4>1
      <4>3. f[i] = IF i = 0 THEN [k |-> k, sent |-> 0, left |-> room]
                   ELSE SendTurn(f[i - 1], datasize, oneexec, force)
        BY <2>1, <4>1, Zenon DEF SendRun
      <4> HIDE DEF g
      <4> QED BY <4>2, <4>3
    <3> QED BY <3>1, <3>2
  <2>4. g = [i \in 0..m |-> g[i]]
    OBVIOUS
  <2> HIDE DEF g
  <2>5. Run(g, m)
    BY <2>3, <2>4 DEF SendRun
  <2> QED BY <2>5
<1> HIDE DEF Run
<1>3. S \in SUBSET (0..n) /\ \A i \in 0..n : i > 0 /\ i - 1 \in S => i \in S
  BY <1>2
<1> HIDE DEF S
<1>4. n \in S
  BY <1>1, <1>3, Climbs
<1> QED BY <1>4 DEF S, Run

\* The loop ends with the last of them.
LEMMA SendSegmentsIs ==
    ASSUME NEW k, k.send \in Nat, NEW room, NEW datasize, NEW oneexec, NEW force
    PROVE  \E f : /\ SendRun(f, k.send, k, room, datasize, oneexec, force)
                  /\ SendSegments(k, room, datasize, oneexec, force) = f[k.send]
<1> DEFINE f == CHOOSE f : SendRun(f, k.send, k, room, datasize, oneexec, force)
<1>1. SendRun(f, k.send, k, room, datasize, oneexec, force)
  BY SendRuns, Zenon
<1>2. SendSegments(k, room, datasize, oneexec, force) = f[k.send]
  BY Zenon DEF SendSegments, SendRun
<1> QED BY <1>1, <1>2

\* Each turn follows from the one before.
LEMMA SendRunTurns ==
    ASSUME NEW n \in Nat, NEW f, NEW k, NEW room, NEW datasize, NEW oneexec, NEW force,
           SendRun(f, n, k, room, datasize, oneexec, force)
    PROVE  /\ f[0] = [k |-> k, sent |-> 0, left |-> room]
           /\ \A i \in 0..n : i > 0 => f[i] = SendTurn(f[i - 1], datasize, oneexec, force)
<1>1. \A i \in 0..n : f[i] = IF i = 0 THEN [k |-> k, sent |-> 0, left |-> room]
                             ELSE SendTurn(f[i - 1], datasize, oneexec, force)
  BY Zenon DEF SendRun
<1>2. 0 \in 0..n
  OBVIOUS
<1>3. f[0] = [k |-> k, sent |-> 0, left |-> room]
  BY <1>1, <1>2
<1>4. ASSUME NEW i \in 0..n, i > 0
      PROVE  f[i] = SendTurn(f[i - 1], datasize, oneexec, force)
  <2>1. i # 0
    BY <1>4
  <2> QED BY <1>1, <2>1, Zenon
<1> QED BY <1>3, <1>4

-----------------------------------------------------------------------------
\* A turn that does not send asks for the persist timer.
LEMMA WaitIs ==
    ASSUME NEW k, Block(k), NEW e, e = [k EXCEPT !.persist = TRUE, !.sendTimeout = TRUE]
    PROVE  /\ Block(e) /\ SameIn(e, k) /\ SameData(e, k) /\ SameMarks(e, k) /\ SameWindow(e, k)
           /\ SameCall(e, k) /\ e.state = k.state /\ e.rexmit = k.rexmit
           /\ e.persist /\ e.sendTimeout
<1>1. Block(e) /\ SameIn(e, k) /\ SameData(e, k) /\ SameMarks(e, k)
  BY DEF Block, Fields, SameIn, SameData, SameMarks
<1> QED BY <1>1 DEF Block, Fields, SameWindow, SameCall

\* What a turn may send, and its parts.
TurnLen(r) == IF SNDMSS <= r.left THEN SNDMSS ELSE r.left
TurnFacts(t, r, force) ==
    \/ /\ t.k = SendDataseg(r.k, TurnLen(r)) /\ t.sent = r.sent + TurnLen(r)
       /\ \/ SNDMSS <= r.left /\ t.left = r.left - SNDMSS
          \/ t.left = 0
    \/ /\ t.k = [r.k EXCEPT !.persist = TRUE, !.sendTimeout = TRUE]
       /\ t.sent = r.sent /\ t.left = 0 /\ ~force /\ ~(SNDMSS <= r.left)

\* A turn sends, or it does not and is the last.
LEMMA SendTurnIs ==
    ASSUME NEW r, r.left \in Nat, r.left > 0, NEW datasize, NEW oneexec, NEW force,
           NEW t, t = SendTurn(r, datasize, oneexec, force)
    PROVE  TurnFacts(t, r, force)
<1> DEFINE len   == TurnLen(r)
           full  == SNDMSS <= r.left
           sends == full \/ r.left > r.k.maxwnd \div 2 \/ force \/ r.sent + r.left = datasize
<1>1. ~(r.left <= 0)
  OBVIOUS
<1>2. t = [k    |-> IF sends THEN SendDataseg(r.k, len)
                    ELSE [r.k EXCEPT !.persist = TRUE, !.sendTimeout = TRUE],
           sent |-> IF sends THEN r.sent + len ELSE r.sent,
           left |-> IF full /\ ~oneexec THEN r.left - SNDMSS ELSE 0]
  BY <1>1, Zenon DEF SendTurn, TurnLen
<1> HIDE DEF full, sends
<1>3. /\ t.k = IF sends THEN SendDataseg(r.k, len)
               ELSE [r.k EXCEPT !.persist = TRUE, !.sendTimeout = TRUE]
      /\ t.sent = IF sends THEN r.sent + len ELSE r.sent
      /\ t.left = IF full /\ ~oneexec THEN r.left - SNDMSS ELSE 0
  BY <1>2
<1>4. CASE sends
  BY <1>3, <1>4, Zenon DEF full, TurnFacts
<1>5. CASE ~sends
  <2>1. ~force /\ ~full
    BY <1>5 DEF sends
  <2> QED BY <1>3, <1>5, <2>1, Zenon DEF full, TurnFacts
<1> QED BY <1>4, <1>5

\* What goes out in a turn, for the receiving side.
LEMMA SendTurnSent ==
    ASSUME NEW r, Block(r.k), r.left \in Int, NEW k, Sent(r.k, k),
           NEW datasize, NEW oneexec, NEW force, NEW t, t = SendTurn(r, datasize, oneexec, force)
    PROVE  Sent(t.k, k)
<1>1. CASE r.left <= 0
  BY <1>1 DEF SendTurn
<1>2. CASE ~(r.left <= 0)
  <2>1. r.left \in Nat /\ r.left > 0
    BY <1>2
  <2>2. TurnFacts(t, r, force)
    BY <2>1, SendTurnIs
  <2>3. \/ t.k = SendDataseg(r.k, TurnLen(r))
        \/ t.k = [r.k EXCEPT !.persist = TRUE, !.sendTimeout = TRUE]
    BY <2>2 DEF TurnFacts
  <2>4. Sent(t.k, r.k)
    <3>1. CASE t.k = SendDataseg(r.k, TurnLen(r))
      BY <3>1, DatasegSent
    <3>2. CASE t.k = [r.k EXCEPT !.persist = TRUE, !.sendTimeout = TRUE]
      <4>1. /\ Block(t.k) /\ SameIn(t.k, r.k) /\ SameData(t.k, r.k) /\ SameWindow(t.k, r.k)
            /\ SameCall(t.k, r.k) /\ Moved(t.k, r.k) /\ t.k.out = r.k.out
        BY <3>2, WaitIs DEF Moved, SameMarks
      <4> QED BY <4>1, SentSame
    <3> QED BY <2>3, <3>1, <3>2
  <2> QED BY <2>4, SentTwice
<1> QED BY <1>1, <1>2

\* What a turn has done, and what is left to it: no more than was written.  As long
\* as nothing was sent, nothing has changed but the persist timer.
Turned(r, k) ==
    /\ Block(r.k) /\ Sender(r.k) /\ SameData(r.k, k) /\ SameCall(r.k, k)
    /\ r.sent \in Nat /\ r.left \in Int
    /\ r.left > 0 => r.left <= k.written - NextAt(r.k)
    /\ r.sent > 0 => NextAt(r.k) > NextAt(k)
    /\ r.sent = 0 => /\ SameMarks(r.k, k) /\ r.k.rexmit = k.rexmit
                     /\ r.left > 0 \/ (r.k.persist /\ r.k.sendTimeout)

\* A turn keeps that, and is the first one to send if it is forced to.
LEMMA SendTurnSender ==
    ASSUME NEW r, NEW k, Sender(k), AckedTo(k) <= k.written, Turned(r, k), NEW datasize, NEW oneexec, NEW force,
           NEW t, t = SendTurn(r, datasize, oneexec, force)
    PROVE  /\ Turned(t, k)
           /\ t.sent > 0 \/ t.left <= 0
           /\ force /\ r.left > 0 => t.sent > 0
           /\ r.sent > 0 => t.sent > 0
<1>1. CASE r.left <= 0
  <2>1. t = r
    BY <1>1 DEF SendTurn
  <2> QED BY <1>1, <2>1 DEF Turned
<1>2. CASE ~(r.left <= 0)
  <2> DEFINE len == TurnLen(r)
  <2>1. /\ r.left \in Nat /\ r.left > 0 /\ r.left <= k.written - NextAt(r.k)
        /\ r.sent \in Nat /\ Block(r.k) /\ Sender(r.k) /\ SNDMSS \in Nat /\ SNDMSS > 0
        /\ k.written \in Nat /\ NextAt(r.k) \in Nat /\ NextAt(k) \in Nat
        /\ SameData(r.k, k) /\ SameCall(r.k, k)
    BY <1>2, OutPlaces, TcpConstants DEF Turned, Sender
  <2>2. r.k.written = k.written /\ AckedTo(r.k) = AckedTo(k)
    BY <2>1 DEF SameData, AckedTo
  <2>3. len \in 1..SNDMSS /\ len <= r.left
    BY <2>1 DEF TurnLen
  <2>4. \/ /\ t.k = SendDataseg(r.k, len) /\ t.sent = r.sent + len
           /\ \/ SNDMSS <= r.left /\ t.left = r.left - SNDMSS
              \/ t.left = 0
        \/ /\ t.k = [r.k EXCEPT !.persist = TRUE, !.sendTimeout = TRUE]
           /\ t.sent = r.sent /\ t.left = 0 /\ ~force /\ ~(SNDMSS <= r.left)
    <3>1. TurnFacts(t, r, force)
      BY <2>1, SendTurnIs
    <3> QED BY <3>1, Zenon DEF TurnFacts
  <2>5. SNDMSS <= r.left => len = SNDMSS
    BY DEF TurnLen
  <2> HIDE DEF len
  <2>6. CASE /\ t.k = SendDataseg(r.k, len) /\ t.sent = r.sent + len
             /\ \/ SNDMSS <= r.left /\ t.left = r.left - SNDMSS
                \/ t.left = 0
    <3>1. /\ Sender(t.k) /\ Leaves(t.k, r.k)
          /\ \/ NextAt(r.k) + Least(len, r.k.written - NextAt(r.k)) = r.k.written
                /\ NextAt(t.k) = r.k.written + 1
             \/ NextAt(t.k) = NextAt(r.k) + Least(len, r.k.written - NextAt(r.k))
      <4>1. NextAt(r.k) <= r.k.written /\ AckedTo(r.k) <= r.k.written
        BY <2>1, <2>2
      <4> QED BY <2>1, <2>3, <2>6, <4>1, DatasegSender
    <3>2. Least(len, r.k.written - NextAt(r.k)) = len
      BY <2>1, <2>2, <2>3 DEF Least
    <3>3. \/ NextAt(r.k) + len = k.written /\ NextAt(t.k) = k.written + 1
          \/ NextAt(t.k) = NextAt(r.k) + len
      BY <2>2, <3>1, <3>2
    <3>4. t.sent \in Nat /\ t.sent > 0 /\ t.left \in Int /\ NextAt(t.k) > NextAt(r.k)
      BY <2>1, <2>3, <2>6, <3>3
    <3>5. t.left > 0 => t.left <= k.written - NextAt(t.k)
      BY <2>1, <2>3, <2>5, <2>6, <3>3
    <3>6. NextAt(r.k) >= NextAt(k)
      BY <2>1 DEF Turned, SameMarks, NextAt
    <3>7. NextAt(t.k) > NextAt(k)
      BY <2>1, <2>3, <3>3, <3>6
    <3>8. SameData(t.k, k) /\ SameCall(t.k, k) /\ Block(t.k)
      BY <2>1, <3>1 DEF Leaves, SameData, SameCall
    <3> QED BY <3>1, <3>4, <3>5, <3>7, <3>8 DEF Turned
  <2>7. CASE /\ t.k = [r.k EXCEPT !.persist = TRUE, !.sendTimeout = TRUE]
             /\ t.sent = r.sent /\ t.left = 0 /\ ~force /\ ~(SNDMSS <= r.left)
    <3>1. /\ Block(t.k) /\ SameData(t.k, r.k) /\ SameMarks(t.k, r.k) /\ SameCall(t.k, r.k)
          /\ t.k.rexmit = r.k.rexmit /\ t.k.persist /\ t.k.sendTimeout
      BY <2>1, <2>7, WaitIs
    <3>2. Sender(t.k)
      BY <2>1, <3>1, SenderSame DEF SameMarks, SameCall
    <3>3. NextAt(t.k) = NextAt(r.k)
      BY <3>1 DEF SameMarks, NextAt
    <3>4. SameData(t.k, k) /\ SameCall(t.k, k)
      BY <2>1, <3>1 DEF SameData, SameCall
    <3>5. r.sent = 0 => SameMarks(t.k, k) /\ t.k.rexmit = k.rexmit
      BY <3>1 DEF Turned, SameMarks
    <3>6. r.sent > 0 => NextAt(r.k) > NextAt(k)
      BY DEF Turned
    <3> QED BY <2>1, <2>7, <3>1, <3>2, <3>3, <3>4, <3>5, <3>6 DEF Turned
  <2> QED BY <2>4, <2>6, <2>7
<1> QED BY <1>1, <1>2 DEF Turned

\* The loop, from as much as the window leaves room for.
LEMMA SegmentsSender ==
    ASSUME NEW k, Block(k), Sender(k), NEW room \in Nat, room > 0,
           AckedTo(k) <= k.written, room <= k.written - NextAt(k),
           NEW datasize, NEW oneexec, NEW force,
           NEW r, r = SendSegments(k, room, datasize, oneexec, force)
    PROVE  /\ Turned(r, k) /\ Sent(r.k, k)
           /\ r.sent > 0 \/ r.left <= 0
           /\ force => r.sent > 0
<1>1. /\ k.written \in Nat /\ AckedTo(k) \in Nat /\ NextAt(k) \in Nat /\ AckedTo(k) <= NextAt(k)
      /\ k.send = k.written - AckedTo(k)
  BY OutPlaces DEF Sender, Positions
<1>2. k.send \in Nat /\ k.send > 0
  BY <1>1
<1>3. PICK f : /\ SendRun(f, k.send, k, room, datasize, oneexec, force)
               /\ r = f[k.send]
  BY <1>2, SendSegmentsIs
<1>4. /\ f[0] = [k |-> k, sent |-> 0, left |-> room]
      /\ \A i \in 0..k.send : i > 0 => f[i] = SendTurn(f[i - 1], datasize, oneexec, force)
  BY <1>2, <1>3, SendRunTurns
<1> DEFINE Good(i) == /\ Turned(f[i], k) /\ Sent(f[i].k, k)
                      /\ i > 0 => f[i].sent > 0 \/ f[i].left <= 0
                      /\ i > 0 /\ force => f[i].sent > 0
           S == {i \in 0..k.send : Good(i)}
<1>5. 0 \in S
  <2>1. f[0].k = k /\ f[0].sent = 0 /\ f[0].left = room
    BY <1>4
  <2>2. Turned(f[0], k)
    <3>1. SameData(k, k) /\ SameCall(k, k) /\ SameMarks(k, k)
      BY DEF SameData, SameCall, SameMarks
    <3>2. Turned(f[0], k)
      BY <2>1, <3>1 DEF Turned
    <3> QED BY <3>2
  <2>3. Sent(k, k)
    BY SentSame DEF SameIn, SameData, SameCall, Moved, SameWindow
  <2> QED BY <1>2, <2>1, <2>2, <2>3
<1>6. ASSUME NEW i \in 0..k.send, i > 0, i - 1 \in S
      PROVE  i \in S
  <2>1. /\ Turned(f[i - 1], k) /\ Sent(f[i - 1].k, k)
        /\ i - 1 > 0 /\ force => f[i - 1].sent > 0
    BY <1>6
  <2>2. f[i] = SendTurn(f[i - 1], datasize, oneexec, force)
    BY <1>4, <1>6
  <2>3. /\ Turned(f[i], k)
        /\ f[i].sent > 0 \/ f[i].left <= 0
        /\ force /\ f[i - 1].left > 0 => f[i].sent > 0
        /\ f[i - 1].sent > 0 => f[i].sent > 0
    BY <2>1, <2>2, SendTurnSender
  <2>4. Sent(f[i].k, k)
    BY <2>1, <2>2, SendTurnSent DEF Turned
  <2>5. i - 1 = 0 => f[i - 1].left > 0
    BY <1>4
  <2>6. i - 1 = 0 \/ i - 1 > 0
    BY <1>6, <1>2
  <2> QED BY <2>1, <2>3, <2>4, <2>5, <2>6
<1>7. S \in SUBSET (0..k.send) /\ \A i \in 0..k.send : i > 0 /\ i - 1 \in S => i \in S
  BY <1>6
<1> HIDE DEF S
<1>8. k.send \in S
  BY <1>2, <1>5, <1>7, Climbs
<1>9. Good(k.send)
  BY <1>8 DEF S
<1> QED BY <1>2, <1>3, <1>9

\* What of the data sent the peer's window still has.
Cut(k) == Least(NextAt(k) - AckedTo(k), k.sndwnd)

\* The start of an attempt to send: sndseq is taken back into the window.
LEMMA CutSender ==
    ASSUME NEW k, Block(k), Sender(k), NEW e,
           e = [k EXCEPT !.sendTimeout = FALSE,
                         !.sndseq = Plus(k.sndseq, Cut(k) - (NextAt(k) - AckedTo(k)))]
    PROVE  /\ Block(e) /\ Sent(e, k) /\ Sender(e) /\ SameIn(e, k) /\ SameData(e, k) /\ SameCall(e, k)
           /\ e.state = k.state /\ e.finSent = k.finSent
           /\ ~e.sendTimeout /\ e.rexmit = k.rexmit /\ e.persist = k.persist
           /\ NextAt(e) = AckedTo(k) + Cut(k) /\ AckedTo(e) = AckedTo(k)
           /\ Cut(k) \in Nat /\ Cut(k) <= NextAt(k) - AckedTo(k) /\ Cut(k) <= k.sndwnd
<1>1. /\ Block(e) /\ SameIn(e, k) /\ SameData(e, k) /\ SameWindow(e, k)
  BY DEF Block, Fields, SameIn, SameData, SameWindow
<1>2. /\ SameCall(e, k) /\ e.state = k.state /\ e.finSent = k.finSent
      /\ ~e.sendTimeout /\ e.rexmit = k.rexmit /\ e.persist = k.persist
      /\ e.maxrcvack = k.maxrcvack /\ e.out = k.out
      /\ e.sndseq = Plus(k.sndseq, Cut(k) - (NextAt(k) - AckedTo(k)))
  BY DEF Block, Fields, SameCall
<1>3. Sent(e, k)
  BY <1>1, <1>2, SentSame DEF Moved
<1>4. /\ k.written \in Nat /\ k.written + 1 < HALF /\ k.sndwnd \in Nat
      /\ k.rcvack \in Numbers /\ k.sndseq \in Numbers /\ k.maxrcvack \in Numbers
      /\ AckedTo(k) \in Nat /\ NextAt(k) \in Nat /\ SentTo(k) \in Nat
      /\ AckedTo(k) <= NextAt(k) /\ NextAt(k) <= SentTo(k) /\ SentTo(k) <= k.written + 2
  BY OutPlaces DEF Sender, OutNumbers, Positions
<1>5. Cut(k) \in Nat /\ Cut(k) <= NextAt(k) - AckedTo(k) /\ Cut(k) <= k.sndwnd
  BY <1>4 DEF Cut, Least
<1>6. e.sndseq \in Numbers /\ NextAt(e) = AckedTo(k) + Cut(k)
  <2> DEFINE n == Cut(k) - (NextAt(k) - AckedTo(k))
  <2>1. n \in (-SEQ)..SEQ /\ NextAt(k) + n \in 0..(SEQ - 1) /\ NextAt(k) + n = AckedTo(k) + Cut(k)
    BY <1>4, <1>5, Sizes
  <2> HIDE DEF n
  <2>2. Plus(k.sndseq, n) \in Numbers /\ OutAt(Plus(k.sndseq, n)) = OutAt(k.sndseq) + n
    BY <1>4, <2>1, OutMoves DEF NextAt
  <2>3. e.sndseq = Plus(k.sndseq, n)
    BY <1>2 DEF n
  <2> QED BY <2>1, <2>2, <2>3 DEF NextAt
<1>7. /\ e.written = k.written /\ e.send = k.send /\ e.rcvack = k.rcvack
      /\ e.sndwnd = k.sndwnd /\ e.maxwnd = k.maxwnd /\ e.shut = k.shut
  BY <1>1, <1>2 DEF SameData, SameCall
<1>8. AckedTo(e) = AckedTo(k) /\ SentTo(e) = SentTo(k)
  BY <1>2, <1>7 DEF AckedTo, SentTo
<1>9. Positions(e)
  BY <1>4, <1>5, <1>6, <1>7, <1>8 DEF Sender, Positions
<1>10. OutNumbers(e)
  BY <1>2, <1>4, <1>6, <1>7 DEF OutNumbers
<1>11. OutOK(e)
  BY <1>2, <1>7, Zenon DEF Sender, OutOK
<1>12. Sender(e)
  BY <1>7, <1>9, <1>10, <1>11 DEF Sender
<1> QED BY <1>1, <1>2, <1>3, <1>5, <1>6, <1>8, <1>12

\* The congestion windows leave room for a segment.
LEMMA CwndRoom ==
    ASSUME NEW cwnd \in Nat, cwnd >= SNDMSS, NEW sent \in Nat
    PROVE  LET free == IF cwnd < sent THEN 0 ELSE ((cwnd - sent) \div SNDMSS) * SNDMSS
           IN  free \in Int /\ (sent = 0 => free > 0)
<1>1. SNDMSS \in Nat /\ SNDMSS > 0
  BY TcpConstants
<1>2. CASE cwnd < sent
  BY <1>1, <1>2
<1>3. CASE ~(cwnd < sent)
  <2>1. PICK m \in Nat : m = cwnd - sent
    BY <1>3
  <2>2. PICK d \in Int : d = m \div SNDMSS
    BY <1>1, <2>1
  <2>3. sent = 0 => d >= 1
    BY <1>1, <2>1, <2>2
  <2>4. d * SNDMSS \in Int /\ (d >= 1 => d * SNDMSS > 0)
    BY <1>1, <2>2
  <2> QED BY <1>3, <2>1, <2>2, <2>3, <2>4
<1> QED BY <1>2, <1>3

\* How an attempt to send ends: data has gone out, or our FIN alone, or nothing.
DataSent(e, k) ==
    /\ k.sndwnd > 0 /\ k.send > 0 /\ e.rexmit /\ ~e.persist /\ NextAt(e) > AckedTo(k)
FinAlone(e, k) ==
    /\ k.shut /\ ~k.finSent /\ k.send = Cut(k)
    /\ e.rexmit /\ e.persist = k.persist /\ ~e.sendTimeout /\ NextAt(e) > AckedTo(k)
NothingSent(e, k) ==
    /\ e.rexmit = k.rexmit /\ e.finSent = k.finSent /\ NextAt(e) = AckedTo(k) + Cut(k)
    /\ \/ e.persist /\ e.sendTimeout /\ k.send > 0 /\ NextAt(e) < k.written
       \/ /\ e.persist = k.persist /\ ~e.sendTimeout
          /\ NextAt(k) = AckedTo(k) => k.sndwnd = 0 \/ k.send = 0

\* An attempt to send is one of these, and keeps the sending side in order.
LEMMA AnydataSender ==
    ASSUME NEW k, Block(k), Sender(k), NEW cwnd \in Nat, cwnd >= SNDMSS,
           NEW oneexec, NEW force, NEW s, s = SendAnydata(k, oneexec, force, cwnd)
    PROVE  /\ Block(s.k) /\ Sent(s.k, k) /\ Sender(s.k)
           /\ \/ s.sends /\ DataSent(s.k, k)
              \/ s.sends /\ FinAlone(s.k, k)
              \/ ~s.sends /\ NothingSent(s.k, k)
<1> DEFINE sent0 == GetSize(k.rcvack, k.sndseq)
           wnd   == Greatest(k.sndwnd - sent0, 0)
           sent  == Least(sent0, k.sndwnd)
           datasize == k.send - sent
           free  == IF cwnd < sent THEN 0 ELSE ((cwnd - sent) \div SNDMSS) * SNDMSS
           room  == Least(Least(wnd, free), datasize)
           k1    == [k EXCEPT !.sendTimeout = FALSE, !.sndseq = Plus(@, sent - sent0)]
           r     == SendSegments(k1, room, datasize, oneexec, force)
<1>1. s = IF room > 0
          THEN [k |-> IF r.sent > 0 THEN [r.k EXCEPT !.persist = FALSE, !.rexmit = TRUE] ELSE r.k,
                sends |-> r.sent > 0]
          ELSE IF k.shut /\ datasize = 0 /\ ~k.finSent
          THEN [k |-> [SendHeadseg(k1, "FIN") EXCEPT !.rexmit = TRUE], sends |-> TRUE]
          ELSE [k |-> k1, sends |-> FALSE]
  BY Zenon DEF SendAnydata
<1>2. sent0 = NextAt(k) - AckedTo(k) /\ sent = Cut(k)
  BY RestIs DEF Cut
<1>3. k1 = [k EXCEPT !.sendTimeout = FALSE,
                     !.sndseq = Plus(k.sndseq, Cut(k) - (NextAt(k) - AckedTo(k)))]
  BY <1>2 DEF Block, Fields
<1> HIDE DEF k1
<1>4. /\ Block(k1) /\ Sent(k1, k) /\ Sender(k1) /\ SameIn(k1, k) /\ SameData(k1, k) /\ SameCall(k1, k)
      /\ k1.state = k.state /\ k1.finSent = k.finSent
      /\ ~k1.sendTimeout /\ k1.rexmit = k.rexmit /\ k1.persist = k.persist
      /\ NextAt(k1) = AckedTo(k) + Cut(k) /\ AckedTo(k1) = AckedTo(k)
      /\ Cut(k) \in Nat /\ Cut(k) <= NextAt(k) - AckedTo(k) /\ Cut(k) <= k.sndwnd
  BY <1>3, CutSender
<1>5. /\ k.written \in Nat /\ k.sndwnd \in Nat
      /\ AckedTo(k) \in Nat /\ NextAt(k) \in Nat /\ AckedTo(k) <= NextAt(k)
      /\ NextAt(k) <= k.written + 2 /\ AckedTo(k) <= k.written + 1
      /\ AckedTo(k) <= k.written => NextAt(k) <= k.written + 1
      /\ k.send = IF AckedTo(k) <= k.written THEN k.written - AckedTo(k) ELSE 0
      /\ k1.written = k.written /\ k1.send = k.send /\ k1.shut = k.shut
  BY <1>4, OutPlaces DEF Sender, Positions, SameData, SameCall
<1>6. free \in Int /\ (sent = 0 => free > 0)
  <2>1. sent \in Nat
    BY <1>2, <1>4
  <2> HIDE DEF sent
  <2> QED BY <2>1, CwndRoom
<1>7. /\ room \in Int /\ room <= k.send - Cut(k) /\ room <= wnd /\ datasize = k.send - Cut(k)
      /\ datasize \in Int /\ wnd \in Nat /\ k.send \in Nat
      /\ room > 0 => k.sndwnd > 0
      /\ ~(room > 0) /\ NextAt(k) = AckedTo(k) => k.sndwnd = 0 \/ k.send = 0
  <2>1. wnd = IF k.sndwnd - sent0 < 0 THEN 0 ELSE k.sndwnd - sent0
    BY DEF Greatest
  <2>2. room = IF (IF wnd < free THEN wnd ELSE free) < datasize
               THEN (IF wnd < free THEN wnd ELSE free) ELSE datasize
    BY DEF Least
  <2>3. sent = Cut(k) /\ sent0 = NextAt(k) - AckedTo(k) /\ datasize = k.send - Cut(k)
    BY <1>2
  <2> HIDE DEF sent0, sent, wnd, free, room, datasize
  <2>4. /\ sent0 \in Nat /\ datasize \in Int /\ k.send \in Nat /\ k.sndwnd \in Nat
        /\ Cut(k) \in Nat /\ Cut(k) <= NextAt(k) - AckedTo(k) /\ Cut(k) <= k.sndwnd
    BY <1>4, <1>5, <2>3
  <2>5. wnd \in Nat /\ (wnd > 0 => k.sndwnd > 0) /\ (sent0 = 0 => wnd = k.sndwnd)
    BY <2>1, <2>4
  <2>6. /\ room \in Int /\ room <= datasize /\ room <= wnd
        /\ wnd > 0 /\ free > 0 /\ datasize > 0 => room > 0
    BY <1>6, <2>2, <2>4, <2>5
  <2>7. NextAt(k) = AckedTo(k) => sent0 = 0 /\ sent = 0 /\ Cut(k) = 0
    BY <1>5, <2>3, <2>4
  <2>8. ~(room > 0) /\ NextAt(k) = AckedTo(k) => k.sndwnd = 0 \/ k.send = 0
    BY <1>6, <2>3, <2>4, <2>5, <2>6, <2>7
  <2> QED BY <2>3, <2>4, <2>5, <2>6, <2>8
<1> HIDE DEF sent0, sent, wnd, free, room, datasize, r
<1>8. CASE room > 0
  <2>1. AckedTo(k1) <= k1.written /\ room <= k1.written - NextAt(k1) /\ room \in Nat /\ k.send > 0
    BY <1>4, <1>5, <1>7, <1>8
  <2>2. /\ Turned(r, k1) /\ Sent(r.k, k1)
        /\ r.sent > 0 \/ r.left <= 0
        /\ force => r.sent > 0
    BY <1>4, <1>8, <2>1, SegmentsSender DEF r
  <2>3. /\ Block(r.k) /\ Sender(r.k) /\ SameData(r.k, k1) /\ SameCall(r.k, k1) /\ r.sent \in Nat
        /\ r.sent > 0 => NextAt(r.k) > NextAt(k1)
    BY <2>2 DEF Turned
  <2>4. Sent(r.k, k)
    BY <1>4, <2>2, SentTwice
  <2>5. CASE r.sent > 0
    <3>1. s.k = [r.k EXCEPT !.persist = FALSE, !.rexmit = TRUE] /\ s.sends
      <4>1. s = [k |-> [r.k EXCEPT !.persist = FALSE, !.rexmit = TRUE], sends |-> r.sent > 0]
        BY <1>1, <1>8, <2>5, Zenon
      <4>2. s.k = [r.k EXCEPT !.persist = FALSE, !.rexmit = TRUE]
        BY <4>1
      <4>3. s.sends = (r.sent > 0)
        BY <4>1
      <4> QED BY <2>5, <4>2, <4>3
    <3>2. PICK e : e = s.k
      OBVIOUS
    <3>3. /\ Block(e) /\ SameIn(e, r.k) /\ SameData(e, r.k) /\ SameMarks(e, r.k)
      BY <2>3, <3>1, <3>2 DEF Block, Fields, SameIn, SameData, SameMarks
    <3>4. /\ SameWindow(e, r.k) /\ SameCall(e, r.k) /\ e.state = r.k.state
          /\ e.rexmit /\ ~e.persist
      BY <2>3, <3>1, <3>2 DEF Block, Fields, SameWindow, SameCall
    <3>5. Sent(e, r.k)
      BY <3>3, <3>4, SentSame DEF Moved, SameMarks
    <3>6. Sent(e, k)
      BY <2>4, <3>5, SentTwice
    <3>7. Sender(e)
      BY <2>3, <3>3, <3>4, SenderSame DEF SameMarks, SameCall
    <3>8. NextAt(e) = NextAt(r.k)
      BY <3>3 DEF SameMarks, NextAt
    <3>9. NextAt(e) > AckedTo(k)
      <4>1. NextAt(r.k) \in Nat /\ NextAt(r.k) > AckedTo(k) + Cut(k)
        BY <1>4, <2>3, <2>5, OutPlaces DEF Sender
      <4> QED BY <1>4, <1>5, <3>8, <4>1
    <3>10. DataSent(e, k)
      BY <1>7, <1>8, <2>1, <3>4, <3>9 DEF DataSent
    <3> QED BY <3>1, <3>2, <3>3, <3>6, <3>7, <3>10
  <2>6. CASE ~(r.sent > 0)
    <3>1. s.k = r.k /\ ~s.sends
      <4>1. s = [k |-> r.k, sends |-> r.sent > 0]
        BY <1>1, <1>8, <2>6, Zenon
      <4>2. s.k = r.k
        BY <4>1
      <4>3. s.sends = (r.sent > 0)
        BY <4>1
      <4> QED BY <2>6, <4>2, <4>3
    <3>2. /\ SameMarks(r.k, k1) /\ r.k.rexmit = k1.rexmit
          /\ r.k.persist /\ r.k.sendTimeout
      BY <2>2, <2>3, <2>6 DEF Turned
    <3>3. NextAt(r.k) = NextAt(k1) /\ r.k.finSent = k.finSent
      BY <1>4, <3>2 DEF SameMarks, NextAt
    <3>4. NextAt(r.k) < k.written
      BY <1>4, <1>5, <1>7, <1>8, <2>1, <3>3
    <3>5. NothingSent(s.k, k)
      BY <1>4, <2>1, <3>1, <3>2, <3>3, <3>4 DEF NothingSent
    <3> QED BY <2>3, <2>4, <3>1, <3>5
  <2> QED BY <2>5, <2>6
<1>9. CASE ~(room > 0) /\ k.shut /\ datasize = 0 /\ ~k.finSent
  <2>1. PICK h : h = SendHeadseg(k1, "FIN")
    OBVIOUS
  <2>2. s.k = [h EXCEPT !.rexmit = TRUE] /\ s.sends = TRUE
    BY <1>1, <1>9, <2>1
  <2>3. /\ AckedTo(k1) <= k1.written => NextAt(k1) <= k1.written
        /\ NextAt(k1) <= k1.written + 1
    BY <1>4, <1>5, <1>7, <1>9
  <2>4. /\ Sender(h) /\ Leaves(h, k1) /\ NextAt(h) = NextAt(k1) + 1
    BY <1>4, <1>5, <1>9, <2>1, <2>3, FinSender
  <2>5. Sent(h, k1)
    BY <1>4, <1>5, <1>9, <2>1, HeadsegSent DEF FinMay
  <2>6. Sent(h, k) /\ Block(h)
    BY <1>4, <2>5, SentTwice DEF Sent
  <2>7. PICK e : e = s.k
    OBVIOUS
  <2>8. /\ Block(e) /\ SameIn(e, h) /\ SameData(e, h) /\ SameMarks(e, h)
    BY <2>2, <2>6, <2>7 DEF Block, Fields, SameIn, SameData, SameMarks
  <2>9. /\ SameWindow(e, h) /\ SameCall(e, h) /\ e.state = h.state
        /\ e.rexmit /\ e.persist = h.persist /\ e.sendTimeout = h.sendTimeout
    BY <2>2, <2>6, <2>7 DEF Block, Fields, SameWindow, SameCall
  <2>10. Sent(e, h)
    BY <2>8, <2>9, SentSame DEF Moved, SameMarks
  <2>11. Sent(e, k)
    BY <2>6, <2>10, SentTwice
  <2>12. Sender(e)
    BY <2>4, <2>8, <2>9, SenderSame DEF SameMarks, SameCall
  <2>13. NextAt(e) = AckedTo(k) + Cut(k) + 1
    BY <1>4, <2>4, <2>8 DEF SameMarks, NextAt
  <2>14. e.persist = k.persist /\ ~e.sendTimeout
    BY <1>4, <2>4, <2>9 DEF Leaves, SameTimers
  <2>15. k.send = Cut(k) /\ NextAt(e) > AckedTo(k)
    BY <1>4, <1>5, <1>7, <1>9, <2>13
  <2>16. FinAlone(e, k)
    BY <1>9, <2>9, <2>14, <2>15 DEF FinAlone
  <2> QED BY <2>2, <2>7, <2>8, <2>11, <2>12, <2>16
<1>10. CASE ~(room > 0) /\ ~(k.shut /\ datasize = 0 /\ ~k.finSent)
  <2>1. s.k = k1 /\ s.sends = FALSE
    BY <1>1, <1>10
  <2>2. NothingSent(k1, k)
    BY <1>4, <1>7, <1>10 DEF NothingSent
  <2> QED BY <1>4, <2>1, <2>2
<1> QED BY <1>8, <1>9, <1>10

\* An attempt to send leaves the timers in order; into an open window it leaves none
\* of the bytes that wait without one.
LEMMA AnydataTimers ==
    ASSUME NEW k, Sender(k), Timers(k), NEW e, Sent(e, k), Sender(e),
           DataSent(e, k) \/ FinAlone(e, k) \/ NothingSent(e, k)
    PROVE  Timers(e) /\ (k.sndwnd > 0 => Waits(e))
<1>1. /\ k.written \in Nat /\ k.sndwnd \in Nat
      /\ AckedTo(k) \in Nat /\ NextAt(k) \in Nat /\ AckedTo(k) <= NextAt(k) /\ NextAt(e) \in Nat
      /\ k.send = IF AckedTo(k) <= k.written THEN k.written - AckedTo(k) ELSE 0
  BY OutPlaces DEF Sender, Positions
<1>2. e.send = k.send /\ e.written = k.written /\ AckedTo(e) = AckedTo(k) /\ e.close = k.close
  BY DEF Sent, SameData, SameCall, AckedTo
<1>3. Cut(k) \in Nat /\ Cut(k) <= NextAt(k) - AckedTo(k) /\ Cut(k) <= k.sndwnd
      /\ (Cut(k) = 0 => NextAt(k) = AckedTo(k) \/ k.sndwnd = 0)
  BY <1>1 DEF Cut, Least
<1>4. CASE DataSent(e, k)
  <2>1. e.rexmit /\ ~e.persist
    BY <1>4 DEF DataSent
  <2> QED BY <2>1 DEF Timers, Waits
<1>5. CASE FinAlone(e, k)
  <2>1. e.rexmit /\ e.persist = k.persist /\ ~k.finSent /\ k.send = Cut(k)
    BY <1>5 DEF FinAlone
  <2>2. k.persist => k.send > 0 /\ NextAt(k) <= k.written /\ NextAt(k) # k.written
    BY <2>1 DEF Timers
  <2>3. ~k.persist
    BY <1>1, <1>3, <2>1, <2>2
  <2> QED BY <2>1, <2>3 DEF Timers, Waits
<1>6. CASE NothingSent(e, k)
  <2>1. /\ e.rexmit = k.rexmit /\ e.finSent = k.finSent /\ NextAt(e) = AckedTo(k) + Cut(k)
        /\ \/ e.persist /\ k.send > 0 /\ NextAt(e) < k.written
           \/ /\ e.persist = k.persist
              /\ NextAt(k) = AckedTo(k) => k.sndwnd = 0 \/ k.send = 0
    BY <1>6 DEF NothingSent
  <2>2. k.persist => k.send > 0 /\ NextAt(k) <= k.written /\ (NextAt(k) = k.written => k.finSent)
    BY DEF Timers
  <2>3. ~k.close /\ AckedTo(k) # NextAt(k) => k.rexmit
    BY DEF Timers
  <2>4. e.persist => /\ e.send > 0 /\ NextAt(e) <= e.written
                     /\ NextAt(e) = e.written => e.finSent
    <3>1. CASE e.persist /\ k.send > 0 /\ NextAt(e) < k.written
      BY <1>1, <1>2, <3>1
    <3>2. CASE e.persist = k.persist
      <4>1. ASSUME k.persist
            PROVE  /\ k.send > 0 /\ NextAt(e) <= k.written
                   /\ NextAt(e) = k.written => k.finSent
        BY <1>1, <1>3, <2>1, <2>2, <4>1
      <4> QED BY <1>2, <2>1, <3>2, <4>1, Zenon
    <3> QED BY <2>1, <3>1, <3>2
  <2>5. ~e.close /\ AckedTo(e) # NextAt(e) => e.rexmit
    BY <1>1, <1>2, <1>3, <2>1, <2>3
  <2>6. k.sndwnd > 0 /\ ~e.close /\ e.send > 0 => e.rexmit \/ e.persist
    BY <1>1, <1>2, <1>3, <2>1, <2>3
  <2> QED BY <2>4, <2>5, <2>6, Zenon DEF Timers, Waits
<1> QED BY <1>4, <1>5, <1>6

-----------------------------------------------------------------------------
(***************************************************************************)
(* What comes in.                                                          *)
(***************************************************************************)

\* A segment that the temporary buffer may keep: bytes of the peer's stream below what
\* it was told, under their number, and the FIN only behind the last one.
KeptSegs(in, edge) ==
    {g \in [seq : Numbers, pos : Nat, len : Nat, fin : BOOLEAN, ack : Numbers] :
        /\ InAt(g.seq) = g.pos /\ g.pos + g.len <= in /\ g.pos + g.len <= edge
        /\ g.fin => g.pos + g.len = in}

\* The application is handed the peer's bytes from the first one on, all of them
\* before its FIN.
Stream(k, in) ==
    /\ k.stream \in Seq(Nat) /\ \A i \in 1..Len(k.stream) : k.stream[i] = i
    /\ Len(k.stream) <= in
    /\ k.finRcvd => Len(k.stream) = in
    /\ k.chain \in Seq(KeptSegs(in, k.edge))

\* The state of a connection follows from the two directions' ends.
Phase(k) ==
    /\ k.state \in {"SYN_RCVD", "ESTABLISHED", "CLOSE_WAIT", "FIN_WAIT_1", "FIN_WAIT_2",
                    "CLOSING", "LAST_ACK", "TIME_WAIT"}
    /\ k.sk \in {"CONNECTING", "CONNECTED", "CLOSING"}
    /\ k.sk = "CONNECTING" <=> k.state = "SYN_RCVD"
    /\ ~k.finRcvd => k.state \in {"SYN_RCVD", "ESTABLISHED", "FIN_WAIT_1", "FIN_WAIT_2"}
    /\ ~k.shut => k.state \in {"SYN_RCVD", "ESTABLISHED", "CLOSE_WAIT"}
    /\ k.sk = "CLOSING" => k.finRcvd
    /\ k.finRcvd /\ ~k.shut => k.sk = "CLOSING"
    /\ k.finRcvd => k.state # "SYN_RCVD"

\* The receiving side as a whole.
Receiver(k, in) ==
    Block(k) /\ Window(k) /\ Opens(k) /\ Stream(k, in) /\ Phase(k)

\* A load that the comparisons reach over.
Reach(in) == in \in Nat /\ in + RCVMAX < HALF

\* What goes out and opens the window leaves the receiving side in order.
LEMMA SentOpened ==
    ASSUME NEW k, NEW in, Reach(in), Window(k), Stream(k, in), Phase(k),
           NEW e, Sent(e, k), Opens(e)
    PROVE  Receiver(e, in)
<1>1. /\ Block(e) /\ Window(e) /\ e.edge >= k.edge
      /\ SameIn(e, k) /\ SameCall(e, k) /\ Moved(e, k)
  BY Zenon DEF Sent
<1>2. k.edge \in Nat /\ e.edge \in Nat
  BY <1>1 DEF Window
<1>3. KeptSegs(in, k.edge) \subseteq KeptSegs(in, e.edge)
  BY <1>1, <1>2 DEF KeptSegs, Reach
<1>4. k.chain \in Seq(KeptSegs(in, e.edge))
  <2>1. k.chain \in Seq(KeptSegs(in, k.edge))
    BY DEF Stream
  <2> QED BY <1>3, <2>1
<1>5. Stream(e, in)
  BY <1>1, <1>4 DEF Stream, SameIn
<1>6. Phase(e)
  BY <1>1 DEF Phase, SameIn, SameCall, Moved
<1> QED BY <1>1, <1>5, <1>6 DEF Receiver

\* An open window stays open.
LEMMA SentReceiver ==
    ASSUME NEW k, NEW in, Reach(in), Receiver(k, in), NEW e, Sent(e, k)
    PROVE  Receiver(e, in)
<1>1. Window(k) /\ Stream(k, in) /\ Phase(k) /\ Opens(k)
  BY DEF Receiver
<1>2. Opens(e)
  BY <1>1, Zenon DEF Sent
<1> QED BY <1>1, <1>2, SentOpened

\* What comes in leaves what goes out alone.
SameOut(e, k) ==
    /\ SameData(e, k) /\ SameMarks(e, k) /\ SameTimers(e, k) /\ SameWindow(e, k)
    /\ e.close = k.close /\ e.shut = k.shut /\ e.rshut = k.rshut

\* That is transitive.
LEMMA SameOutTwice ==
    ASSUME NEW k, NEW e, NEW f, SameOut(e, k), SameOut(f, e)
    PROVE  SameOut(f, k)
BY DEF SameOut, SameData, SameMarks, SameTimers, SameWindow

\* The peer's FIN is taken down.
TakeDown(k, state, sk) == [k EXCEPT !.state = state, !.sk = sk, !.finRcvd = TRUE]

\* That changes no more than it says.
LEMMA TakenDown ==
    ASSUME NEW k, Block(k), NEW state, NEW sk, NEW e, e = TakeDown(k, state, sk)
    PROVE  /\ Block(e) /\ SameOut(e, k) /\ e.sndack = k.sndack
           /\ e.recv = k.recv /\ e.chain = k.chain /\ e.count = k.count /\ e.stream = k.stream
           /\ e.state = state /\ e.sk = sk /\ e.finRcvd
<1>1. Block(e) /\ SameData(e, k) /\ SameMarks(e, k) /\ SameTimers(e, k) /\ SameWindow(e, k)
  BY DEF Block, Fields, SameData, SameMarks, SameTimers, SameWindow, TakeDown
<1>2. /\ e.close = k.close /\ e.shut = k.shut /\ e.rshut = k.rshut /\ e.sndack = k.sndack
      /\ e.recv = k.recv /\ e.chain = k.chain /\ e.count = k.count /\ e.stream = k.stream
      /\ e.state = state /\ e.sk = sk /\ e.finRcvd
  BY DEF Block, Fields, TakeDown
<1> QED BY <1>1, <1>2 DEF SameOut

\* It is, in the states that wait for it.
LEMMA ProcessFinIs ==
    ASSUME NEW k, Block(k), Phase(k), ~k.finRcvd, k.state # "SYN_RCVD",
           NEW ack, NEW e, e = ProcessFin(k, ack)
    PROVE  /\ Block(e) /\ SameOut(e, k) /\ e.sndack = k.sndack
           /\ e.recv = k.recv /\ e.chain = k.chain /\ e.count = k.count /\ e.stream = k.stream
           /\ e.finRcvd /\ Phase(e)
<1>1. k.state \in {"ESTABLISHED", "FIN_WAIT_1", "FIN_WAIT_2"}
  BY DEF Phase
<1>2. PICK state, sk :
        /\ e = TakeDown(k, state, sk)
        /\ \/ k.state = "ESTABLISHED" /\ state = "CLOSE_WAIT" /\ sk = "CLOSING"
           \/ k.state = "FIN_WAIT_1" /\ state = "CLOSING" /\ sk = k.sk
           \/ k.state \in {"FIN_WAIT_1", "FIN_WAIT_2"} /\ state = "TIME_WAIT" /\ sk = "CLOSING"
  <2>1. CASE k.state = "ESTABLISHED"
    <3>1. e = [k EXCEPT !.state = "CLOSE_WAIT", !.sk = "CLOSING", !.finRcvd = TRUE]
      BY <2>1 DEF ProcessFin
    <3> QED BY <2>1, <3>1 DEF TakeDown
  <2>2. CASE k.state = "FIN_WAIT_1" /\ ack # k.sndseq
    <3>1. e = [k EXCEPT !.state = "CLOSING", !.finRcvd = TRUE]
          \/ e = [k EXCEPT !.state = "TIME_WAIT", !.sk = "CLOSING", !.finRcvd = TRUE]
      BY <2>2 DEF ProcessFin
    <3>2. [k EXCEPT !.state = "CLOSING", !.finRcvd = TRUE]
          = [k EXCEPT !.state = "CLOSING", !.sk = k.sk, !.finRcvd = TRUE]
      BY DEF Block, Fields
    <3> QED BY <2>2, <3>1, <3>2 DEF TakeDown
  <2>3. CASE k.state \in {"FIN_WAIT_1", "FIN_WAIT_2"} /\ ~(k.state = "FIN_WAIT_1" /\ ack # k.sndseq)
    <3>1. e = [k EXCEPT !.state = "TIME_WAIT", !.sk = "CLOSING", !.finRcvd = TRUE]
      BY <2>3 DEF ProcessFin
    <3> QED BY <2>3, <3>1 DEF TakeDown
  <2> QED BY <1>1, <2>1, <2>2, <2>3
<1>3. /\ Block(e) /\ SameOut(e, k) /\ e.sndack = k.sndack
      /\ e.recv = k.recv /\ e.chain = k.chain /\ e.count = k.count /\ e.stream = k.stream
      /\ e.state = state /\ e.sk = sk /\ e.finRcvd
  BY <1>2, TakenDown
<1>4. e.shut = k.shut
  BY <1>3 DEF SameOut
<1>5. Phase(e)
  BY <1>2, <1>3, <1>4 DEF Phase
<1> QED BY <1>3, <1>5

\* A stream counts its bytes.
Counts(t, n) == t \in Seq(Nat) /\ Len(t) = n /\ \A i \in 1..n : t[i] = i

\* The bytes of a segment from position from on continue what was received.
LEMMA BytesContinue ==
    ASSUME NEW m \in Nat, NEW s, Counts(s, m),
           NEW seg, seg.pos \in Nat, seg.len \in Nat,
           NEW from \in Nat, from <= seg.len, seg.pos + from = m
    PROVE  Counts(s \o Bytes(seg, from), seg.pos + seg.len)
<1> DEFINE b == Bytes(seg, from)
<1>1. PICK n \in Nat : n = seg.len - from /\ m + n = seg.pos + seg.len
  OBVIOUS
<1>2. b = [i \in 1..n |-> seg.pos + from + i]
  BY <1>1 DEF Bytes
<1>3. b = [i \in 1..n |-> m + i]
  BY <1>2
<1> HIDE DEF b
<1>4. b \in Seq(Nat) /\ Len(b) = n /\ \A i \in 1..n : b[i] = m + i
  <2>1. \A i \in 1..n : m + i \in Nat
    OBVIOUS
  <2>2. b \in [1..n -> Nat]
    BY <1>3, <2>1
  <2>3. b \in Seq(Nat)
    BY <1>1, <2>2, SeqDef
  <2>4. DOMAIN b = 1..n /\ DOMAIN b = 1..Len(b) /\ Len(b) \in Nat
    BY <2>2, <2>3, LenProperties
  <2>5. Len(b) = n
    BY <1>1, <2>4
  <2> QED BY <1>3, <2>3, <2>5
<1>5. s \in Seq(Nat) /\ Len(s) = m /\ \A i \in 1..m : s[i] = i
  BY DEF Counts
<1> DEFINE t == s \o b
<1>6. /\ t \in Seq(Nat) /\ Len(t) = m + n
      /\ \A i \in 1..(m + n) : t[i] = IF i <= m THEN s[i] ELSE b[i - m]
  <2>1. /\ t \in Seq(Nat) /\ Len(t) = Len(s) + Len(b)
        /\ \A i \in 1..(Len(s) + Len(b)) : t[i] = IF i <= Len(s) THEN s[i] ELSE b[i - Len(s)]
    BY <1>4, <1>5, ConcatProperties, Zenon
  <2> HIDE DEF t
  <2> QED BY <2>1, <1>4, <1>5
<1> HIDE DEF t
<1>7. ASSUME NEW i \in 1..(m + n) PROVE t[i] = i
  <2>1. CASE i <= m
    BY <1>5, <1>6, <2>1
  <2>2. CASE ~(i <= m)
    <3>1. i - m \in 1..n /\ m + (i - m) = i
      BY <2>2
    <3> QED BY <1>4, <1>6, <2>2, <3>1
  <2> QED BY <2>1, <2>2
<1>8. Counts(t, m + n)
  BY <1>6, <1>7 DEF Counts
<1> QED BY <1>1, <1>8 DEF t, b

\* A segment, or what is new of it, is handed to the input buffer, with its FIN, and
\* acknowledged up to x.
Takes(k, seg, from, x) ==
    [Receives(IF seg.fin THEN ProcessFin(k, seg.ack) ELSE k, seg, from) EXCEPT !.sndack = x]

HandOver(k, seg, from, x) == [Receives(k, seg, from) EXCEPT !.sndack = x]

HandFacts(e, k, seg, from, x) ==
    /\ Block(e) /\ SameOut(e, k) /\ e.sndack = x
    /\ e.recv = k.recv + seg.len - from /\ e.stream = k.stream \o Bytes(seg, from)
    /\ e.chain = k.chain /\ e.count = k.count
    /\ e.state = k.state /\ e.sk = k.sk /\ e.finRcvd = k.finRcvd

\* Handing over touches the buffer and the acknowledgement.
LEMMA HandedOver ==
    ASSUME NEW k, Block(k), NEW seg, NEW from, NEW x,
           NEW e, e = HandOver(k, seg, from, x)
    PROVE  HandFacts(e, k, seg, from, x)
<1>1. PICK f : f = Receives(k, seg, from)
  OBVIOUS
<1>2. /\ Block(f) /\ SameData(f, k) /\ SameMarks(f, k) /\ SameTimers(f, k) /\ SameWindow(f, k)
  BY <1>1 DEF Receives, Block, Fields, SameData, SameMarks, SameTimers, SameWindow
<1>3. /\ f.recv = k.recv + seg.len - from /\ f.stream = k.stream \o Bytes(seg, from)
      /\ f.chain = k.chain /\ f.count = k.count
      /\ f.state = k.state /\ f.sk = k.sk /\ f.finRcvd = k.finRcvd
      /\ f.close = k.close /\ f.shut = k.shut /\ f.rshut = k.rshut
  BY <1>1 DEF Receives, Block, Fields
<1>4. e = [f EXCEPT !.sndack = x]
  BY <1>1 DEF HandOver
<1>5. /\ Block(e) /\ SameData(e, f) /\ SameMarks(e, f) /\ SameTimers(e, f) /\ SameWindow(e, f)
  BY <1>2, <1>4 DEF Block, Fields, SameData, SameMarks, SameTimers, SameWindow
<1>6. /\ e.recv = f.recv /\ e.stream = f.stream /\ e.sndack = x
      /\ e.chain = f.chain /\ e.count = f.count
      /\ e.state = f.state /\ e.sk = f.sk /\ e.finRcvd = f.finRcvd
      /\ e.close = f.close /\ e.shut = f.shut /\ e.rshut = f.rshut
  BY <1>2, <1>4 DEF Block, Fields
<1>7. SameOut(f, k) /\ SameOut(e, f)
  BY <1>2, <1>3, <1>5, <1>6 DEF SameOut
<1>8. SameOut(e, k)
  BY <1>7, SameOutTwice
<1> QED BY <1>3, <1>5, <1>6, <1>8 DEF HandFacts

\* The window has room for n bytes more, and is what it was behind them.
RoomFor(len, n, fin, recv, rcvwnd, freed, acked, edge) ==
    /\ {len, n, rcvwnd, freed, acked, edge} \subseteq Nat /\ fin \in {0, 1} /\ recv \in 0..RCVMAX
    /\ acked <= len /\ acked + rcvwnd <= edge /\ edge <= len + rcvwnd /\ len + n <= edge
    /\ edge + recv <= len + RCVMAX
RoomLeft(len, n, fin, recv, rcvwnd, freed, acked, edge) ==
    /\ recv + n \in 0..RCVMAX
    /\ acked <= len + n + fin /\ edge <= len + n + fin + rcvwnd
    /\ edge + (recv + n) <= len + n + fin + RCVMAX
    /\ edge + recv + freed + Slack >= len + RCVMAX
       => edge + (recv + n) + freed + Slack >= len + n + RCVMAX

\* Bytes that fit leave it so.
LEMMA WindowArithmetic ==
    ASSUME NEW len, NEW n, NEW fin, NEW recv, NEW rcvwnd, NEW freed, NEW acked, NEW edge,
           RoomFor(len, n, fin, recv, rcvwnd, freed, acked, edge)
    PROVE  RoomLeft(len, n, fin, recv, rcvwnd, freed, acked, edge)
<1>1. RCVMAX \in Nat /\ Slack \in Nat
  BY HalfIs DEF Slack
<1> QED BY <1>1 DEF RoomFor, RoomLeft

\* The next segment in order is taken: the window that the peer was told has room.
LEMMA TakesReceiver ==
    ASSUME NEW k, NEW in, Reach(in), Receiver(k, in), ~k.finRcvd, k.state # "SYN_RCVD",
           NEW seg, seg.pos \in Nat, seg.len \in Nat, seg.fin \in BOOLEAN,
           seg.pos + seg.len <= in, seg.pos + seg.len <= k.edge,
           seg.fin => seg.pos + seg.len = in,
           NEW from \in Nat, from <= seg.len, seg.pos + from = Len(k.stream),
           NEW x \in Numbers, InAt(x) = seg.pos + seg.len + (IF seg.fin THEN 1 ELSE 0),
           NEW e, e = Takes(k, seg, from, x)
    PROVE  /\ Receiver(e, in) /\ SameOut(e, k) /\ e.sndack = x
           /\ e.chain = k.chain /\ e.count = k.count /\ e.state # "SYN_RCVD"
<1>1. PICK f : f = IF seg.fin THEN ProcessFin(k, seg.ack) ELSE k
  OBVIOUS
<1>2. /\ Block(f) /\ SameOut(f, k) /\ f.sndack = k.sndack
      /\ f.recv = k.recv /\ f.chain = k.chain /\ f.count = k.count /\ f.stream = k.stream
      /\ f.finRcvd <=> seg.fin
      /\ Phase(f)
  <2>1. CASE seg.fin
    <3>1. f = ProcessFin(k, seg.ack)
      BY <1>1, <2>1
    <3>2. Block(k) /\ Phase(k)
      BY DEF Receiver
    <3> QED BY <2>1, <3>1, <3>2, ProcessFinIs
  <2>2. CASE ~seg.fin
    <3>1. f = k
      BY <1>1, <2>2
    <3>2. SameOut(k, k)
      BY DEF SameOut, SameData, SameMarks, SameTimers, SameWindow
    <3> QED BY <2>2, <3>1, <3>2 DEF Receiver
  <2> QED BY <2>1, <2>2
<1>3. e = HandOver(f, seg, from, x)
  BY <1>1 DEF Takes, HandOver
<1>4. /\ Block(e) /\ SameOut(e, f) /\ e.sndack = x
      /\ e.recv = f.recv + seg.len - from /\ e.stream = f.stream \o Bytes(seg, from)
      /\ e.chain = f.chain /\ e.count = f.count
      /\ e.state = f.state /\ e.sk = f.sk /\ e.finRcvd = f.finRcvd
  <2>1. HandFacts(e, f, seg, from, x)
    BY <1>2, <1>3, HandedOver
  <2> QED BY <2>1 DEF HandFacts
<1>5. SameOut(e, k)
  BY <1>2, <1>4, SameOutTwice
<1>6. /\ e.rcvwnd = k.rcvwnd /\ e.freed = k.freed /\ e.acked = k.acked /\ e.edge = k.edge
      /\ e.close = k.close /\ e.shut = k.shut
  BY <1>5 DEF SameOut, SameWindow
<1>7. /\ e.stream \in Seq(Nat) /\ Len(e.stream) = seg.pos + seg.len
      /\ \A i \in 1..Len(e.stream) : e.stream[i] = i
  <2>1. Counts(k.stream, Len(k.stream)) /\ Len(k.stream) \in Nat
    BY DEF Receiver, Stream, Window, Counts
  <2>2. e.stream = k.stream \o Bytes(seg, from)
    BY <1>2, <1>4
  <2>3. Counts(k.stream \o Bytes(seg, from), seg.pos + seg.len)
    BY <2>1, BytesContinue
  <2> QED BY <2>2, <2>3 DEF Counts
<1>8. e.finRcvd <=> seg.fin
  BY <1>2, <1>4
<1>9. Stream(e, in)
  <2>1. k.chain \in Seq(KeptSegs(in, k.edge))
    BY DEF Receiver, Stream
  <2>2. e.chain \in Seq(KeptSegs(in, e.edge))
    BY <1>2, <1>4, <1>6, <2>1
  <2> QED BY <1>7, <1>8, <2>2 DEF Stream
<1>10. Phase(e)
  <2>1. e.shut = f.shut
    BY <1>2, <1>6 DEF SameOut
  <2> QED BY <1>2, <1>4, <2>1 DEF Phase
<1>11. /\ FinOf(k) = 0 /\ Awaited(k) = Len(k.stream) /\ Len(k.stream) \in Nat
       /\ FinOf(e) = (IF seg.fin THEN 1 ELSE 0) /\ Awaited(e) = Len(e.stream) + FinOf(e)
  BY <1>8 DEF FinOf, Awaited, Receiver, Window
<1>12. /\ k.recv \in 0..RCVMAX /\ k.rcvwnd \in 0..RCVMAX /\ k.freed \in Nat
       /\ k.acked \in Nat /\ k.edge \in Nat
       /\ k.acked <= Len(k.stream) /\ k.acked + k.rcvwnd <= k.edge
       /\ k.edge <= Len(k.stream) + k.rcvwnd
       /\ Len(k.stream) <= k.edge
       /\ k.edge + k.recv <= Len(k.stream) + RCVMAX
  BY <1>11 DEF Receiver, Window
<1>13. PICK n \in Nat : /\ n = seg.len - from /\ Len(e.stream) = Len(k.stream) + n
                        /\ e.recv = k.recv + n
  <2>1. /\ e.recv = k.recv + seg.len - from /\ Len(e.stream) = seg.pos + seg.len
        /\ Len(k.stream) = seg.pos + from /\ k.recv \in Nat
    BY <1>2, <1>4, <1>7, <1>12
  <2> QED BY <2>1
<1>14. FinOf(e) \in {0, 1} /\ Awaited(e) = Len(k.stream) + n + FinOf(e)
  BY <1>11, <1>13
<1>17. /\ k.recv + n \in 0..RCVMAX
       /\ k.acked <= Awaited(e) /\ k.edge <= Awaited(e) + k.rcvwnd
       /\ k.edge + (k.recv + n) <= Awaited(e) + RCVMAX
       /\ k.edge + k.recv + k.freed + Slack >= Len(k.stream) + RCVMAX
          => k.edge + (k.recv + n) + k.freed + Slack >= Len(k.stream) + n + RCVMAX
  <2>1. Len(k.stream) + n <= k.edge /\ Len(k.stream) \in Nat
    BY <1>7, <1>11, <1>13
  <2>2. k.rcvwnd \in Nat
    BY <1>12, HalfIs
  <2>3. RoomFor(Len(k.stream), n, FinOf(e), k.recv, k.rcvwnd, k.freed, k.acked, k.edge)
    BY <1>12, <1>14, <2>1, <2>2 DEF RoomFor
  <2>4. RoomLeft(Len(k.stream), n, FinOf(e), k.recv, k.rcvwnd, k.freed, k.acked, k.edge)
    BY <2>3, WindowArithmetic
  <2> QED BY <1>14, <2>4 DEF RoomLeft
<1>15. Window(e)
  <2>1. e.sndack \in Numbers /\ InAt(e.sndack) = Awaited(e) /\ Len(e.stream) \in Nat
    BY <1>4, <1>7, <1>11
  <2>2. Len(e.stream) <= e.edge /\ e.acked + e.rcvwnd <= e.edge
    BY <1>6, <1>7, <1>12
  <2>3. /\ k.recv + n \in 0..RCVMAX
        /\ k.acked <= Awaited(e) /\ k.edge <= Awaited(e) + k.rcvwnd
        /\ k.edge + (k.recv + n) <= Awaited(e) + RCVMAX
    BY <1>17
  <2>4. k.rcvwnd \in 0..RCVMAX /\ k.freed \in Nat /\ k.acked \in Nat /\ k.edge \in Nat
    BY <1>12
  <2> QED BY <1>6, <1>13, <2>1, <2>2, <2>3, <2>4 DEF Window
<1>16. Opens(e)
  <2>1. \/ k.close
        \/ /\ k.edge + k.recv + k.freed + Slack >= Len(k.stream) + RCVMAX
           /\ k.freed = 0 \/ k.freed < Half
    BY <1>11 DEF Receiver, Opens
  <2>2. CASE seg.fin
    BY <1>8, <2>2 DEF Opens
  <2>3. CASE ~seg.fin
    <3>1. Awaited(e) = Len(k.stream) + n
      BY <1>11, <1>14, <2>3
    <3>3. k.edge + k.recv + k.freed + Slack >= Len(k.stream) + RCVMAX
          => e.edge + e.recv + e.freed + Slack >= Awaited(e) + RCVMAX
      BY <1>6, <1>13, <1>17, <3>1
    <3> QED BY <1>6, <2>1, <3>3 DEF Opens
  <2> QED BY <2>2, <2>3
<1>18. e.state # "SYN_RCVD"
  <2>1. f.state # "SYN_RCVD"
    BY <1>1, <1>2 DEF Phase
  <2> QED BY <1>4, <2>1
<1> QED BY <1>2, <1>4, <1>5, <1>9, <1>10, <1>15, <1>16, <1>18 DEF Receiver

-----------------------------------------------------------------------------
(***************************************************************************)
(* The temporary buffer.                                                   *)
(***************************************************************************)

\* A set of numbers up to a bound has a greatest element.
LEMMA GreatestNatural ==
    ASSUME NEW n \in Nat, NEW S \in SUBSET (1..n), S # {}
    PROVE  \E x \in S : \A y \in S : y <= x
<1> DEFINE B == {m \in Nat : \A y \in S : y <= m}
<1>1. B \in SUBSET Nat /\ n \in B
  OBVIOUS
<1>2. PICK m \in B : \A j \in B : m <= j
  <2> HIDE DEF B
  <2> QED BY <1>1, LeastNatural
<1>3. m \in Nat /\ \A y \in S : y <= m
  BY <1>2
<1>4. m > 0
  <2>1. PICK z \in S : z \in 1..n
    OBVIOUS
  <2> QED BY <1>3, <2>1
<1>5. ~(m <= m - 1) /\ m - 1 \in Nat
  BY <1>3, <1>4
<1>6. m - 1 \notin B
  BY <1>2, <1>5
<1>7. PICK y \in S : ~(y <= m - 1)
  BY <1>5, <1>6
<1>8. y = m
  BY <1>3, <1>4, <1>7
<1> QED BY <1>3, <1>7, <1>8

\* An element put into a sequence leaves a sequence.
LEMMA InsertIsSeq ==
    ASSUME NEW S, NEW s \in Seq(S), NEW i \in 1..(Len(s) + 1), NEW e \in S
    PROVE  InsertAt(s, i, e) \in Seq(S)
<1>1. Len(s) \in Nat /\ \A j \in 1..Len(s) : s[j] \in S
  BY LenProperties, ElementOfSeq
<1>2. PICK t1 : t1 = SubSeq(s, 1, i - 1)
  OBVIOUS
<1>3. PICK t2 : t2 = SubSeq(s, i, Len(s))
  OBVIOUS
<1>4. t1 \in Seq(S) /\ t2 \in Seq(S)
  <2>1. /\ i - 1 \in Int /\ i \in Int /\ Len(s) \in Int /\ 1 \in Int
        /\ \A j \in 1..(i - 1) : s[j] \in S
        /\ \A j \in i..Len(s) : s[j] \in S
    BY <1>1
  <2> QED BY <1>2, <1>3, <2>1, SubSeqProperties
<1>5. <<e>> \in Seq(S)
  OBVIOUS
<1>6. InsertAt(s, i, e) = t1 \o <<e>> \o t2
  BY <1>2, <1>3 DEF InsertAt
<1>7. t1 \o <<e>> \in Seq(S)
  BY <1>4, <1>5, ConcatProperties
<1>8. (t1 \o <<e>>) \o t2 \in Seq(S)
  BY <1>4, <1>7, ConcatProperties
<1> QED BY <1>6, <1>8

\* A segment sorted in leaves a sequence of such segments.
LEMMA SortedIsSeq ==
    ASSUME NEW S, NEW chain \in Seq(S), NEW seg \in S
    PROVE  Sorted(chain, seg) \in Seq(S)
<1> DEFINE before == {i \in DOMAIN chain : ~CompG(chain[i].seq, seg.seq)}
           n == IF before = {} THEN 0 ELSE CHOOSE i \in before : \A j \in before : j <= i
<1>1. Len(chain) \in Nat /\ DOMAIN chain = 1..Len(chain) /\ \A i \in 1..Len(chain) : chain[i] \in S
  BY LenProperties, ElementOfSeq
<1>2. n = 0 \/ n \in 1..Len(chain)
  <2>1. before \in SUBSET (1..Len(chain))
    BY <1>1
  <2>2. CASE before = {}
    BY <2>2, Zenon
  <2>3. CASE before # {}
    <3> HIDE DEF before
    <3>1. \E i \in before : \A j \in before : j <= i
      BY <1>1, <2>1, <2>3, GreatestNatural
    <3>2. n \in before
      BY <2>3, <3>1
    <3> HIDE DEF n
    <3> QED BY <2>1, <3>2, Zenon
  <2> QED BY <2>2, <2>3
<1>3. Sorted(chain, seg) = InsertAt(chain, n + 1, seg)
  BY DEF Sorted
<1> HIDE DEF n
<1>4. n + 1 \in 1..(Len(chain) + 1)
  BY <1>1, <1>2
<1> QED BY <1>3, <1>4, InsertIsSeq

\* The temporary buffer changes alone.
Rebuffered(k, chain, count) == [k EXCEPT !.chain = chain, !.count = count]

\* With segments it may keep, that leaves the receiving side in order.
LEMMA RebufferedReceiver ==
    ASSUME NEW k, NEW in, Receiver(k, in), NEW chain \in Seq(KeptSegs(in, k.edge)), NEW count,
           NEW e, e = Rebuffered(k, chain, count)
    PROVE  /\ Receiver(e, in) /\ SameOut(e, k) /\ e.chain = chain
           /\ e.sndack = k.sndack /\ e.stream = k.stream /\ e.finRcvd = k.finRcvd
           /\ e.state = k.state /\ e.edge = k.edge
<1>1. /\ Block(e) /\ SameData(e, k) /\ SameMarks(e, k) /\ SameTimers(e, k) /\ SameWindow(e, k)
  BY DEF Receiver, Rebuffered, Block, Fields, SameData, SameMarks, SameTimers, SameWindow
<1>2. /\ e.state = k.state /\ e.sk = k.sk /\ e.sndack = k.sndack /\ e.stream = k.stream
      /\ e.finRcvd = k.finRcvd /\ e.chain = chain /\ e.recv = k.recv
      /\ e.close = k.close /\ e.shut = k.shut /\ e.rshut = k.rshut
  BY DEF Receiver, Rebuffered, Block, Fields
<1>3. SameOut(e, k)
  BY <1>1, <1>2 DEF SameOut
<1>4. /\ e.rcvwnd = k.rcvwnd /\ e.freed = k.freed /\ e.acked = k.acked /\ e.edge = k.edge
  BY <1>1 DEF SameWindow
<1>5. FinOf(e) = FinOf(k) /\ Awaited(e) = Awaited(k)
  BY <1>2 DEF FinOf, Awaited
<1>6. Window(e)
  BY <1>2, <1>4, <1>5 DEF Receiver, Window
<1>7. Opens(e)
  BY <1>2, <1>4, <1>5 DEF Receiver, Opens
<1>8. Stream(e, in)
  BY <1>2, <1>4 DEF Receiver, Stream
<1>9. Phase(e)
  BY <1>2 DEF Receiver, Phase
<1> QED BY <1>1, <1>2, <1>3, <1>4, <1>6, <1>7, <1>8, <1>9 DEF Receiver

\* Reading in the temporary buffer: what is read is in order, and the number is the
\* one that is expected next.
Reading(r) == \E k, seq, more, ap : r = [k |-> k, seq |-> seq, more |-> more, ap |-> ap]
Moving(r, k, in) ==
    /\ Reading(r)
    /\ r.seq = r.k.sndack /\ Receiver(r.k, in) /\ SameOut(r.k, k) /\ r.k.state # "SYN_RCVD"

\* What a turn makes of a segment that brings something new.
Moved1(t, r, seg, rest) ==
    /\ t.k = Takes(Rebuffered(r.k, rest, Counted(r.k, -Total(seg))), seg, GetSize(seg.seq, r.seq),
                   IF seg.fin THEN Plus(Plus(seg.seq, seg.len), 1) ELSE Plus(seg.seq, seg.len))
    /\ t.seq = IF seg.fin THEN Plus(Plus(seg.seq, seg.len), 1) ELSE Plus(seg.seq, seg.len)

\* What it makes of one that does not.
Dropped1(t, r, rest) == t.seq = r.seq /\ \E n : t.k = Rebuffered(r.k, rest, n)

\* A turn is one of three.
LEMMA MoveOneIs ==
    ASSUME NEW r, Block(r.k), Reading(r), NEW t, t = MoveOne(r)
    PROVE  /\ Reading(t)
           /\ \/ ~CompGE(r.seq, Head(r.k.chain).seq) /\ t.k = r.k /\ t.seq = r.seq
              \/ /\ CompGE(r.seq, Head(r.k.chain).seq)
                 /\ CompGE(Plus(Head(r.k.chain).seq, Head(r.k.chain).len), r.seq)
                 /\ Moved1(t, r, Head(r.k.chain), Tail(r.k.chain))
              \/ CompGE(r.seq, Head(r.k.chain).seq) /\ Dropped1(t, r, Tail(r.k.chain))
<1>0. PICK k, seq, more, ap : r = [k |-> k, seq |-> seq, more |-> more, ap |-> ap]
  BY DEF Reading
<1> DEFINE seg  == Head(r.k.chain)
           rest == Tail(r.k.chain)
           end  == Plus(seg.seq, seg.len)
           old  == GetSize(seg.seq, r.seq)
           nxt  == IF seg.fin THEN Plus(end, 1) ELSE end
           k1   == [r.k EXCEPT !.chain = rest, !.count = Counted(r.k, -Total(seg))]
           k2   == IF seg.fin THEN ProcessFin(k1, seg.ack) ELSE k1
           n    == IF rest = << >> THEN UNKNOWN ELSE Counted(r.k, -Total(Head(rest)))
<1>1. t = IF ~CompGE(r.seq, seg.seq) THEN [r EXCEPT !.more = FALSE]
          ELSE IF CompGE(end, r.seq)
          THEN [k |-> [Receives(k2, seg, old) EXCEPT !.sndack = nxt], seq |-> nxt, more |-> TRUE,
                ap |-> IF seg.fin THEN r.ap \union {"FIN_ACK"} ELSE r.ap]
          ELSE [r EXCEPT !.k.chain = rest, !.k.count = n]
  BY Zenon DEF MoveOne
<1>2. [Receives(k2, seg, old) EXCEPT !.sndack = nxt]
      = Takes(Rebuffered(r.k, rest, Counted(r.k, -Total(seg))), seg, old, nxt)
  BY Zenon DEF Takes, Rebuffered
<1> HIDE DEF k2, k1
<1>3. CASE ~CompGE(r.seq, seg.seq)
  <2>1. t = [r EXCEPT !.more = FALSE]
    BY <1>1, <1>3, Zenon
  <2>2. t = [k |-> r.k, seq |-> r.seq, more |-> FALSE, ap |-> r.ap]
    BY <1>0, <2>1
  <2>3. t.k = r.k /\ t.seq = r.seq
    BY <2>2
  <2> QED BY <1>3, <2>2, <2>3, Zenon DEF Reading
<1>4. CASE CompGE(r.seq, seg.seq) /\ CompGE(end, r.seq)
  <2> DEFINE e == Takes(Rebuffered(r.k, rest, Counted(r.k, -Total(seg))), seg, old, nxt)
             a == IF seg.fin THEN r.ap \union {"FIN_ACK"} ELSE r.ap
  <2>1. t = [k |-> e, seq |-> nxt, more |-> TRUE, ap |-> a]
    BY <1>1, <1>2, <1>4, Zenon
  <2> HIDE DEF e, a, nxt
  <2>2. t.k = e /\ t.seq = nxt
    BY <2>1
  <2>3. Moved1(t, r, seg, rest)
    BY <2>2, Zenon DEF Moved1, e, nxt
  <2> QED BY <1>4, <2>1, <2>3, Zenon DEF Reading
<1>5. CASE CompGE(r.seq, seg.seq) /\ ~CompGE(end, r.seq)
  <2>1. t = [r EXCEPT !.k.chain = rest, !.k.count = n]
    BY <1>1, <1>5, Zenon
  <2> HIDE DEF rest, n
  <2>2. t = [r EXCEPT !.k = Rebuffered(r.k, rest, n)]
    BY <1>0, <2>1 DEF Rebuffered
  <2>3. t = [k |-> Rebuffered(r.k, rest, n), seq |-> r.seq, more |-> r.more, ap |-> r.ap]
    BY <1>0, <2>2
  <2>4. t.k = Rebuffered(r.k, rest, n) /\ t.seq = r.seq
    BY <2>3
  <2>5. Dropped1(t, r, rest)
    BY <2>4, Zenon DEF Dropped1
  <2> QED BY <1>5, <2>3, <2>5, Zenon DEF rest, Reading
<1> QED BY <1>3, <1>4, <1>5, Zenon

\* A turn keeps all that is read in order.
LEMMA MoveOneReceiver ==
    ASSUME NEW k, NEW in, Reach(in), NEW r, Moving(r, k, in), r.k.chain # << >>,
           NEW t, t = MoveOne(r)
    PROVE  Moving(t, k, in)
<1> DEFINE seg  == Head(r.k.chain)
           rest == Tail(r.k.chain)
<1>1. /\ Reading(r) /\ r.seq = r.k.sndack /\ Receiver(r.k, in) /\ SameOut(r.k, k)
      /\ r.k.state # "SYN_RCVD" /\ Block(r.k)
  BY DEF Moving, Receiver
<1>2. seg \in KeptSegs(in, r.k.edge) /\ rest \in Seq(KeptSegs(in, r.k.edge))
  <2>1. r.k.chain \in Seq(KeptSegs(in, r.k.edge))
    BY <1>1 DEF Receiver, Stream
  <2> QED BY <2>1, HeadTailProperties
<1>3. /\ seg.seq \in Numbers /\ seg.pos \in Nat /\ seg.len \in Nat /\ seg.fin \in BOOLEAN
      /\ InAt(seg.seq) = seg.pos /\ seg.pos + seg.len <= in /\ seg.pos + seg.len <= r.k.edge
      /\ seg.fin => seg.pos + seg.len = in
  BY <1>2 DEF KeptSegs
<1>4. /\ Reading(t)
      /\ \/ ~CompGE(r.seq, seg.seq) /\ t.k = r.k /\ t.seq = r.seq
         \/ /\ CompGE(r.seq, seg.seq) /\ CompGE(Plus(seg.seq, seg.len), r.seq)
            /\ Moved1(t, r, seg, rest)
         \/ CompGE(r.seq, seg.seq) /\ Dropped1(t, r, rest)
  BY <1>1, MoveOneIs
<1> HIDE DEF seg, rest
<1>5. CASE t.k = r.k /\ t.seq = r.seq
  BY <1>1, <1>4, <1>5 DEF Moving
<1>6. CASE Dropped1(t, r, rest)
  <2>1. PICK n : t.seq = r.seq /\ t.k = Rebuffered(r.k, rest, n)
    BY <1>6 DEF Dropped1
  <2>2. /\ Receiver(t.k, in) /\ SameOut(t.k, r.k) /\ t.k.sndack = r.k.sndack
        /\ t.k.state = r.k.state
    BY <1>1, <1>2, <2>1, RebufferedReceiver
  <2>3. SameOut(t.k, k)
    BY <1>1, <2>2, SameOutTwice
  <2> QED BY <1>1, <1>4, <2>1, <2>2, <2>3 DEF Moving
<1>7. CASE /\ CompGE(r.seq, seg.seq) /\ CompGE(Plus(seg.seq, seg.len), r.seq)
           /\ Moved1(t, r, seg, rest)
  <2> DEFINE f == Rebuffered(r.k, rest, Counted(r.k, -Total(seg)))
             x == IF seg.fin THEN Plus(Plus(seg.seq, seg.len), 1) ELSE Plus(seg.seq, seg.len)
             fin == IF seg.fin THEN 1 ELSE 0
             from == GetSize(seg.seq, r.seq)
  <2>1. /\ Receiver(f, in) /\ SameOut(f, r.k) /\ f.sndack = r.k.sndack /\ f.stream = r.k.stream
        /\ f.finRcvd = r.k.finRcvd /\ f.state = r.k.state /\ f.edge = r.k.edge
    BY <1>1, <1>2, RebufferedReceiver
  <2>2. t.k = Takes(f, seg, from, x) /\ t.seq = x
    BY <1>7, Zenon DEF Moved1
  <2> HIDE DEF f
  <2>3. /\ in \in Nat /\ in + 1 < HALF /\ in + 1 < SEQ - 1 /\ HALF \in Nat /\ SEQ \in Nat
    BY Sizes, HalfIs DEF Reach
  <2>4. /\ r.seq \in Numbers /\ InAt(r.seq) = Len(f.stream) + FinOf(f)
        /\ Len(f.stream) \in Nat /\ Len(f.stream) <= in
        /\ FinOf(f) \in {0, 1} /\ (FinOf(f) = 1 => Len(f.stream) = in)
        /\ FinOf(f) = 0 => ~f.finRcvd
    BY <1>1, <2>1 DEF Receiver, Window, Stream, Awaited, FinOf
  <2>5. Plus(seg.seq, seg.len) \in Numbers /\ InAt(Plus(seg.seq, seg.len)) = seg.pos + seg.len
    <3>1. seg.len \in (-SEQ)..SEQ /\ InAt(seg.seq) + seg.len \in 0..(SEQ - 1)
      BY <1>3, <2>3
    <3> QED BY <1>3, <3>1, InMoves
  <2>6. x \in Numbers /\ InAt(x) = seg.pos + seg.len + fin
    <3>1. CASE seg.fin
      <4>1. PICK y \in Numbers : y = Plus(seg.seq, seg.len)
        BY <2>5
      <4>2. 1 \in (-SEQ)..SEQ /\ InAt(y) + 1 \in 0..(SEQ - 1)
        BY <1>3, <2>3, <2>5, <4>1
      <4>3. Plus(y, 1) \in Numbers /\ InAt(Plus(y, 1)) = InAt(y) + 1
        BY <4>2, InMoves
      <4> QED BY <2>5, <3>1, <4>1, <4>3
    <3>2. CASE ~seg.fin
      BY <1>3, <2>5, <3>2
    <3> QED BY <3>1, <3>2
  <2>7. InAt(r.seq) >= seg.pos /\ seg.pos + seg.len >= InAt(r.seq)
    <3>1. InAt(r.seq) - InAt(seg.seq) \in (-HALF)..HALF
      BY <1>3, <2>3, <2>4
    <3>2. PICK y \in Numbers : y = Plus(seg.seq, seg.len)
      BY <2>5
    <3>3. InAt(y) - InAt(r.seq) \in (-HALF)..HALF
      BY <1>3, <2>3, <2>4, <2>5, <3>2
    <3>4. CompGE(r.seq, seg.seq) <=> InAt(r.seq) >= InAt(seg.seq)
      BY <1>3, <2>4, <3>1, InOrder
    <3>5. CompGE(y, r.seq) <=> InAt(y) >= InAt(r.seq)
      BY <2>4, <3>3, InOrder
    <3> QED BY <1>3, <1>7, <2>5, <3>2, <3>4, <3>5
  <2>8. from = InAt(r.seq) - seg.pos
    <3>1. InAt(seg.seq) <= InAt(r.seq)
      BY <1>3, <2>4, <2>7
    <3> QED BY <1>3, <2>4, <3>1, InSize
  <2> HIDE DEF from, x
  <2>9. /\ ~f.finRcvd /\ from \in Nat /\ from <= seg.len /\ seg.pos + from = Len(f.stream)
    BY <1>3, <2>3, <2>4, <2>7, <2>8
  <2>10. /\ Receiver(t.k, in) /\ SameOut(t.k, f) /\ t.k.sndack = x /\ t.k.state # "SYN_RCVD"
    <3>1. /\ seg.pos \in Nat /\ seg.len \in Nat /\ seg.fin \in BOOLEAN
          /\ seg.pos + seg.len <= in /\ seg.pos + seg.len <= f.edge
          /\ seg.fin => seg.pos + seg.len = in
      BY <1>3, <2>1
    <3>2. x \in Numbers /\ InAt(x) = seg.pos + seg.len + (IF seg.fin THEN 1 ELSE 0)
      BY <2>6
    <3>3. f.state # "SYN_RCVD"
      BY <1>1, <2>1
    <3> QED BY <2>1, <2>2, <2>9, <3>1, <3>2, <3>3, TakesReceiver
  <2>11. SameOut(t.k, k)
    <3>1. SameOut(t.k, r.k)
      BY <2>1, <2>10, SameOutTwice
    <3> QED BY <1>1, <3>1, SameOutTwice
  <2> QED BY <1>4, <2>2, <2>10, <2>11 DEF Moving
<1> QED BY <1>4, <1>5, <1>6, <1>7

\* The turns of the loop that reads in the temporary buffer.
MoveRun(f, n, k, ap) ==
    f = [i \in 0..n |-> IF i = 0 THEN [k |-> k, seq |-> k.sndack, more |-> TRUE, ap |-> ap]
                        ELSE MoveTurn(f[i - 1])]

\* There are as many as one likes.
LEMMA MoveRuns ==
    ASSUME NEW n \in Nat, NEW k, NEW ap
    PROVE  \E f : MoveRun(f, n, k, ap)
<1> DEFINE first == [k |-> k, seq |-> k.sndack, more |-> TRUE, ap |-> ap]
           Run(f, m) == MoveRun(f, m, k, ap)
           S == {m \in 0..n : \E f : Run(f, m)}
<1>1. 0 \in S
  <2> DEFINE f == [i \in 0..0 |-> first]
  <2> HIDE DEF first
  <2>1. f = [i \in 0..0 |-> IF i = 0 THEN first ELSE MoveTurn(f[i - 1])]
    OBVIOUS
  <2> HIDE DEF f
  <2>2. Run(f, 0)
    BY <2>1 DEF MoveRun, first
  <2> QED BY <2>2
<1>2. ASSUME NEW m \in 0..n, m > 0, m - 1 \in S
      PROVE  m \in S
  <2>1. PICK f : Run(f, m - 1)
    BY <1>2
  <2> DEFINE g == [i \in 0..m |-> IF i = m THEN MoveTurn(f[m - 1]) ELSE f[i]]
  <2>2. \A i \in 0..(m - 1) : g[i] = f[i]
    OBVIOUS
  <2>3. \A i \in 0..m : g[i] = IF i = 0 THEN first ELSE MoveTurn(g[i - 1])
    <3> HIDE DEF first
    <3> SUFFICES ASSUME NEW i \in 0..m
                 PROVE  g[i] = IF i = 0 THEN first ELSE MoveTurn(g[i - 1])
      OBVIOUS
    <3>1. CASE i = m
      <4>1. g[i] = MoveTurn(f[i - 1]) /\ i # 0 /\ i - 1 \in 0..(m - 1)
        BY <1>2, <3>1
      <4>2. g[i - 1] = f[i - 1]
        BY <2>2, <4>1
      <4> HIDE DEF g
      <4> QED BY <4>1, <4>2
    <3>2. CASE i # m
      <4>1. i \in 0..(m - 1) /\ (i # 0 => i - 1 \in 0..(m - 1))
        BY <3>2
      <4>2. g[i] = f[i] /\ (i # 0 => g[i - 1] = f[i - 1])
        BY <2>2, <4>1
      <4>3. f[i] = IF i = 0 THEN first ELSE MoveTurn(f[i - 1])
        BY <2>1, <4>1, Zenon DEF MoveRun, first
      <4> HIDE DEF g
      <4> QED BY <4>2, <4>3
    <3> QED BY <3>1, <3>2
  <2>4. g = [i \in 0..m |-> g[i]]
    OBVIOUS
  <2> HIDE DEF g
  <2>5. Run(g, m)
    BY <2>3, <2>4 DEF MoveRun
  <2> QED BY <2>5
<1> HIDE DEF Run
<1>3. S \in SUBSET (0..n) /\ \A i \in 0..n : i > 0 /\ i - 1 \in S => i \in S
  BY <1>2
<1> HIDE DEF S
<1>4. n \in S
  BY <1>1, <1>3, Climbs
<1> QED BY <1>4 DEF S, Run

\* The loop ends with the last of them.
LEMMA MoveChainIs ==
    ASSUME NEW k, Len(k.chain) \in Nat, NEW ap
    PROVE  \E f : MoveRun(f, Len(k.chain), k, ap) /\ MoveChain(k, ap) = f[Len(k.chain)]
<1> DEFINE f == CHOOSE f : MoveRun(f, Len(k.chain), k, ap)
<1>1. MoveRun(f, Len(k.chain), k, ap)
  BY MoveRuns, Zenon
<1>2. MoveChain(k, ap) = f[Len(k.chain)]
  BY Zenon DEF MoveChain, MoveRun
<1> QED BY <1>1, <1>2

\* The loop keeps what it moves in order.
LEMMA MoveChainReceiver ==
    ASSUME NEW k, NEW in, Reach(in), Receiver(k, in), k.state # "SYN_RCVD", NEW ap,
           NEW r, r = MoveChain(k, ap)
    PROVE  Receiver(r.k, in) /\ SameOut(r.k, k) /\ r.k.state # "SYN_RCVD"
<1> DEFINE n == Len(k.chain)
<1>1. n \in Nat
  BY LenProperties DEF Receiver, Stream
<1>2. PICK f : MoveRun(f, n, k, ap) /\ r = f[n]
  BY <1>1, MoveChainIs
<1> HIDE DEF n
<1>3. /\ f[0] = [k |-> k, seq |-> k.sndack, more |-> TRUE, ap |-> ap]
      /\ \A i \in 0..n : i > 0 => f[i] = MoveTurn(f[i - 1])
  <2>1. \A i \in 0..n : f[i] = IF i = 0 THEN [k |-> k, seq |-> k.sndack, more |-> TRUE, ap |-> ap]
                               ELSE MoveTurn(f[i - 1])
    BY <1>2, Zenon DEF MoveRun
  <2>2. 0 \in 0..n
    BY <1>1
  <2>3. f[0] = [k |-> k, seq |-> k.sndack, more |-> TRUE, ap |-> ap]
    BY <2>1, <2>2
  <2>4. ASSUME NEW i \in 0..n, i > 0 PROVE f[i] = MoveTurn(f[i - 1])
    <3>1. i # 0
      BY <1>1, <2>4
    <3> QED BY <2>1, <3>1, Zenon
  <2> QED BY <2>3, <2>4
<1> DEFINE S == {i \in 0..n : Moving(f[i], k, in)}
<1>4. 0 \in S
  <2>1. f[0].k = k /\ f[0].seq = k.sndack /\ Reading(f[0])
    <3>1. f[0] = [k |-> k, seq |-> k.sndack, more |-> TRUE, ap |-> ap]
      BY <1>3
    <3>2. Reading(f[0])
      BY <3>1, Zenon DEF Reading
    <3> QED BY <3>1, <3>2
  <2>2. SameOut(k, k)
    BY DEF SameOut, SameData, SameMarks, SameTimers, SameWindow
  <2>3. Moving(f[0], k, in)
    BY <2>1, <2>2 DEF Moving
  <2> QED BY <1>1, <2>3
<1>5. ASSUME NEW i \in 0..n, i > 0, i - 1 \in S
      PROVE  i \in S
  <2>1. Moving(f[i - 1], k, in) /\ f[i] = MoveTurn(f[i - 1])
    BY <1>3, <1>5
  <2>2. CASE f[i - 1].k.chain = << >> \/ ~f[i - 1].more
    <3>1. f[i] = f[i - 1]
      BY <2>1, <2>2 DEF MoveTurn
    <3> QED BY <2>1, <3>1
  <2>3. CASE ~(f[i - 1].k.chain = << >> \/ ~f[i - 1].more)
    <3>1. f[i] = MoveOne(f[i - 1]) /\ f[i - 1].k.chain # << >>
      BY <2>1, <2>3 DEF MoveTurn
    <3>2. Moving(f[i], k, in)
      BY <2>1, <3>1, MoveOneReceiver
    <3> QED BY <3>2
  <2> QED BY <2>2, <2>3
<1>6. S \in SUBSET (0..n) /\ \A i \in 0..n : i > 0 /\ i - 1 \in S => i \in S
  BY <1>5
<1> HIDE DEF S
<1>7. n \in S
  BY <1>1, <1>4, <1>6, Climbs
<1> QED BY <1>2, <1>7 DEF S, Moving

\* A segment of the peer's stream, below what the peer was told.
Arrives(seg, k, in) ==
    /\ seg.seq \in Numbers /\ seg.pos \in Nat /\ seg.len \in Nat /\ seg.fin \in BOOLEAN
    /\ seg.ack \in Numbers
    /\ InAt(seg.seq) = seg.pos /\ seg.pos + seg.len <= in /\ seg.pos + seg.len <= k.edge
    /\ seg.fin => seg.pos + seg.len = in

\* What the buffers make of it.
AddFacts(r, k, seg) ==
    \/ r.k = k
    \/ /\ seg.seq = k.sndack
       /\ r.k = Takes(k, seg, 0, Plus(k.sndack, seg.len + (IF seg.fin THEN 1 ELSE 0)))
    \/ \E n, ap : r.k = Rebuffered(k, Sorted(k.chain, Kept(seg)), n)
                  \/ r.k = MoveChain(Rebuffered(k, Sorted(k.chain, Kept(seg)), n), ap).k

\* One of these.
LEMMA AddInpbufIs ==
    ASSUME NEW k, Block(k), NEW seg, NEW ap, NEW ch, NEW r, r = AddInpbuf(k, seg, ap, ch)
    PROVE  AddFacts(r, k, seg)
<1> DEFINE f   == IF seg.fin THEN ProcessFin(k, seg.ack) ELSE k
           g   == Receives(f, seg, 0)
           m   == seg.len + (IF seg.fin THEN 1 ELSE 0)
           e   == [g EXCEPT !.sndack = Plus(@, m)]
           n   == Counted(k, Total(seg))
           k1  == Rebuffered(k, Sorted(k.chain, Kept(seg)), n)
           ap1 == ap \union {"SEND_IMMEDIATELY"}
<1>1. r = IF seg.len = 0 /\ ~seg.fin THEN [k |-> k, ap |-> ap]
          ELSE IF seg.seq = k.sndack /\ CountIsZero(k, ch)
          THEN [k |-> e, ap |-> IF seg.fin THEN ap \union {"FIN_ACK"} ELSE ap]
          ELSE IF seg.seq = k.sndack \/ Fits(k, seg, ch)
          THEN IF seg.seq = k.sndack THEN MoveChain(k1, ap1) ELSE [k |-> k1, ap |-> ap1]
          ELSE [k |-> k, ap |-> ap]
  <2>1. k1 = [k EXCEPT !.chain = Sorted(@, Kept(seg)), !.count = n]
    BY DEF Rebuffered, Block, Fields
  <2> HIDE DEF k1
  <2> QED BY <2>1, Zenon DEF AddInpbuf
<1>2. CASE r = [k |-> k, ap |-> ap]
  BY <1>2 DEF AddFacts
<1>3. CASE seg.seq = k.sndack
           /\ r = [k |-> e, ap |-> IF seg.fin THEN ap \union {"FIN_ACK"} ELSE ap]
  <2>1. r.k = e
    <3> HIDE DEF e
    <3> QED BY <1>3
  <2>2. Block(f) /\ f.sndack = k.sndack
    BY DEF ProcessFin, Block, Fields
  <2> HIDE DEF f
  <2>3. Block(g) /\ g.sndack = k.sndack
    BY <2>2 DEF Receives, Block, Fields
  <2>4. e = [g EXCEPT !.sndack = Plus(k.sndack, m)]
    <3> HIDE DEF g, m
    <3> QED BY <2>3 DEF Block, Fields
  <2>5. e = Takes(k, seg, 0, Plus(k.sndack, m))
    <3> HIDE DEF e
    <3> QED BY <2>4 DEF Takes, g, f
  <2> QED BY <1>3, <2>1, <2>5, Zenon DEF AddFacts
<1>4. CASE r = MoveChain(k1, ap1)
  BY <1>4, Zenon DEF AddFacts
<1>5. CASE r = [k |-> k1, ap |-> ap1]
  <2>1. r.k = k1
    <3> HIDE DEF k1
    <3> QED BY <1>5
  <2> QED BY <2>1, Zenon DEF AddFacts
<1> HIDE DEF k1, e, ap1
<1> QED BY <1>1, <1>2, <1>3, <1>4, <1>5

\* All of it leaves the receiving side in order.
LEMMA AddInpbufReceiver ==
    ASSUME NEW k, NEW in, Reach(in), Receiver(k, in), ~k.finRcvd, k.state # "SYN_RCVD",
           NEW seg, Arrives(seg, k, in), NEW ap, NEW ch, NEW r, r = AddInpbuf(k, seg, ap, ch)
    PROVE  Receiver(r.k, in) /\ SameOut(r.k, k) /\ r.k.state # "SYN_RCVD"
<1>1. AddFacts(r, k, seg)
  BY AddInpbufIs DEF Receiver
<1>2. CASE r.k = k
  <2>1. SameOut(k, k)
    BY DEF SameOut, SameData, SameMarks, SameTimers, SameWindow
  <2> QED BY <1>2, <2>1
<1>3. CASE /\ seg.seq = k.sndack
           /\ r.k = Takes(k, seg, 0, Plus(k.sndack, seg.len + (IF seg.fin THEN 1 ELSE 0)))
  <2> DEFINE m == seg.len + (IF seg.fin THEN 1 ELSE 0)
             x == Plus(k.sndack, m)
  <2>1. /\ k.sndack \in Numbers /\ InAt(k.sndack) = Len(k.stream) /\ Len(k.stream) \in Nat
    BY DEF Receiver, Window, Awaited, FinOf
  <2>2. /\ seg.pos \in Nat /\ seg.len \in Nat /\ seg.fin \in BOOLEAN
        /\ seg.pos + seg.len <= in /\ seg.pos + seg.len <= k.edge
        /\ seg.fin => seg.pos + seg.len = in
        /\ InAt(seg.seq) = seg.pos
    BY DEF Arrives
  <2>3. seg.pos + 0 = Len(k.stream) /\ 0 <= seg.len
    BY <1>3, <2>1, <2>2
  <2>4. m \in Nat /\ m <= seg.len + 1
    BY <2>2
  <2>5. x \in Numbers /\ InAt(x) = Len(k.stream) + m
    <3> HIDE DEF m
    <3>1. in \in Nat /\ in + 1 < SEQ - 1
      BY Sizes, HalfIs DEF Reach
    <3>2. m \in (-SEQ)..SEQ /\ InAt(k.sndack) + m \in 0..(SEQ - 1)
      BY <2>1, <2>2, <2>3, <2>4, <3>1, Sizes
    <3> QED BY <2>1, <3>2, InMoves
  <2>6. InAt(x) = seg.pos + seg.len + (IF seg.fin THEN 1 ELSE 0)
    BY <2>2, <2>3, <2>5
  <2>7. r.k = Takes(k, seg, 0, x)
    BY <1>3, Zenon
  <2> HIDE DEF x
  <2> QED BY <2>2, <2>3, <2>5, <2>6, <2>7, TakesReceiver
<1>4. CASE \E n, a : r.k = Rebuffered(k, Sorted(k.chain, Kept(seg)), n)
                     \/ r.k = MoveChain(Rebuffered(k, Sorted(k.chain, Kept(seg)), n), a).k
  <2>1. PICK n, a : r.k = Rebuffered(k, Sorted(k.chain, Kept(seg)), n)
                     \/ r.k = MoveChain(Rebuffered(k, Sorted(k.chain, Kept(seg)), n), a).k
    BY <1>4
  <2>2. Kept(seg) \in KeptSegs(in, k.edge)
    <3>1. 0 \in Numbers
      BY Sizes DEF Numbers
    <3> QED BY <3>1 DEF Kept, KeptSegs, Arrives
  <2>3. Sorted(k.chain, Kept(seg)) \in Seq(KeptSegs(in, k.edge))
    BY <2>2, SortedIsSeq DEF Receiver, Stream
  <2>4. PICK f : f = Rebuffered(k, Sorted(k.chain, Kept(seg)), n)
    OBVIOUS
  <2>5. Receiver(f, in) /\ SameOut(f, k) /\ f.state = k.state
    BY <2>3, <2>4, RebufferedReceiver
  <2>6. CASE r.k = f
    BY <2>5, <2>6
  <2>7. CASE r.k = MoveChain(f, a).k
    <3>1. PICK g : g = MoveChain(f, a)
      OBVIOUS
    <3>2. Receiver(g.k, in) /\ SameOut(g.k, f) /\ g.k.state # "SYN_RCVD"
      BY <2>5, <3>1, MoveChainReceiver
    <3>3. r.k = g.k
      BY <2>7, <3>1
    <3> QED BY <2>5, <3>2, <3>3, SameOutTwice
  <2> QED BY <2>1, <2>4, <2>6, <2>7
<1> QED BY <1>1, <1>2, <1>3, <1>4 DEF AddFacts

-----------------------------------------------------------------------------
(***************************************************************************)
(* What an incoming segment does to the sending side.                      *)
(***************************************************************************)

\* The receiving side does not depend on the sending side's data and timers.
LEMMA ReceiverSame ==
    ASSUME NEW k, NEW in, Receiver(k, in), NEW e, Block(e), SameIn(e, k), SameWindow(e, k),
           SameCall(e, k), e.state = k.state
    PROVE  Receiver(e, in)
<1>1. FinOf(e) = FinOf(k) /\ Awaited(e) = Awaited(k)
  BY DEF SameIn, FinOf, Awaited
<1>2. Window(e) /\ Opens(e)
  BY <1>1 DEF Receiver, Window, Opens, SameIn, SameWindow, SameCall
<1>3. Stream(e, in)
  BY DEF Receiver, Stream, SameIn, SameWindow
<1>4. Phase(e)
  BY DEF Receiver, Phase, SameIn, SameCall
<1> QED BY <1>2, <1>3, <1>4 DEF Receiver

\* An acknowledgement that the peer may send: of what was sent, our FIN included.
Acknowledges(ack, k) ==
    /\ ack \in Numbers /\ AckedTo(k) <= OutAt(ack) /\ OutAt(ack) <= SentTo(k)
    /\ OutAt(ack) <= k.written + 1

\* What an acknowledgement changes, and what it leaves.
AckedFacts(e, k, ack) ==
    /\ Block(e) /\ SameIn(e, k) /\ SameWindow(e, k) /\ SameCall(e, k) /\ SameTimers(e, k)
    /\ e.state = k.state /\ e.out = k.out /\ e.written = k.written /\ e.maxrcvack = k.maxrcvack
    /\ e.sndwnd = k.sndwnd /\ e.maxwnd = k.maxwnd /\ e.rcvack = ack
    /\ e.sndseq = IF CompG(ack, k.sndseq) THEN ack ELSE k.sndseq
    /\ e.send = k.send - Least(GetSize(k.rcvack, ack), k.send)

\* So it is.
LEMMA AcknowledgedIs ==
    ASSUME NEW k, Block(k), NEW ack, NEW e, e = Acknowledged(k, ack)
    PROVE  AckedFacts(e, k, ack)
<1> DEFINE s == IF CompG(ack, k.sndseq) THEN ack ELSE k.sndseq
           n == k.send - Least(GetSize(k.rcvack, ack), k.send)
<1>1. e = [k EXCEPT !.send = n, !.rcvack = ack, !.sndseq = s]
  BY DEF Acknowledged, Block, Fields
<1> HIDE DEF s, n
<1>2. Block(e) /\ SameIn(e, k) /\ SameWindow(e, k) /\ SameTimers(e, k)
  BY <1>1 DEF Block, Fields, SameIn, SameWindow, SameTimers
<1>3. /\ SameCall(e, k)
      /\ e.state = k.state /\ e.out = k.out /\ e.written = k.written /\ e.maxrcvack = k.maxrcvack
      /\ e.sndwnd = k.sndwnd /\ e.maxwnd = k.maxwnd /\ e.rcvack = ack
      /\ e.sndseq = s /\ e.send = n
  BY <1>1 DEF Block, Fields, SameCall
<1> QED BY <1>2, <1>3, Zenon DEF AckedFacts, s, n

\* What is acknowledged leaves the send buffer, and nothing else does.
LEMMA AcknowledgedSender ==
    ASSUME NEW k, Block(k), Sender(k), NEW ack, Acknowledges(ack, k),
           NEW e, AckedFacts(e, k, ack)
    PROVE  Sender(e) /\ AckedTo(e) = OutAt(ack)
<1>1. /\ k.written \in Nat /\ k.written + 1 < HALF /\ OutNumbers(k)
      /\ k.rcvack \in Numbers /\ k.sndseq \in Numbers /\ k.maxrcvack \in Numbers
      /\ AckedTo(k) \in Nat /\ NextAt(k) \in Nat /\ SentTo(k) \in Nat
      /\ AckedTo(k) <= NextAt(k) /\ NextAt(k) <= SentTo(k) /\ SentTo(k) <= k.written + 2
      /\ AckedTo(k) <= k.written => SentTo(k) <= k.written + 1
      /\ k.send = IF AckedTo(k) <= k.written THEN k.written - AckedTo(k) ELSE 0
      /\ AckedTo(k) <= k.written + 1
      /\ SentTo(k) > k.written => k.shut
  BY OutPlaces DEF Sender, OutNumbers, Positions
<1>2. /\ ack \in Numbers /\ AckedTo(k) <= OutAt(ack) /\ OutAt(ack) <= SentTo(k)
      /\ OutAt(ack) <= k.written + 1 /\ OutAt(ack) \in Nat
  BY <1>1, OutPlace DEF Acknowledges
<1>3. /\ e.written = k.written /\ e.maxrcvack = k.maxrcvack /\ e.out = k.out
      /\ e.sndwnd = k.sndwnd /\ e.maxwnd = k.maxwnd /\ e.rcvack = ack /\ e.shut = k.shut
      /\ e.sndseq = IF CompG(ack, k.sndseq) THEN ack ELSE k.sndseq
      /\ e.send = k.send - Least(GetSize(k.rcvack, ack), k.send)
  BY DEF AckedFacts, SameCall
<1>4. AckedTo(e) = OutAt(ack) /\ SentTo(e) = SentTo(k)
  BY <1>3 DEF AckedTo, SentTo
<1>5. e.sndseq \in Numbers
      /\ NextAt(e) = IF OutAt(ack) > NextAt(k) THEN OutAt(ack) ELSE NextAt(k)
  <2>1. OutAt(ack) - OutAt(k.sndseq) \in (-HALF)..HALF
    BY <1>1, <1>2, Sizes DEF NextAt
  <2>2. CompG(ack, k.sndseq) <=> OutAt(ack) > NextAt(k)
    BY <1>1, <1>2, <2>1, OutOrder DEF NextAt
  <2> QED BY <1>1, <1>2, <1>3, <2>2 DEF NextAt
<1>6. e.send = IF AckedTo(e) <= e.written THEN e.written - AckedTo(e) ELSE 0
  <2>1. GetSize(k.rcvack, ack) = OutAt(ack) - AckedTo(k)
    BY <1>1, <1>2, OutSize DEF AckedTo
  <2>2. Least(OutAt(ack) - AckedTo(k), k.send)
        = IF OutAt(ack) - AckedTo(k) < k.send THEN OutAt(ack) - AckedTo(k) ELSE k.send
    BY DEF Least
  <2>3. e.send = k.send - Least(OutAt(ack) - AckedTo(k), k.send)
    BY <1>3, <2>1
  <2> QED BY <1>1, <1>2, <1>3, <1>4, <2>2, <2>3
<1>7. Positions(e)
  BY <1>1, <1>2, <1>3, <1>4, <1>5, <1>6 DEF Positions
<1>8. OutOK(e)
  BY <1>3, Zenon DEF Sender, OutOK
<1>9. OutNumbers(e)
  BY <1>1, <1>2, <1>3, <1>5 DEF OutNumbers
<1> QED BY <1>1, <1>3, <1>4, <1>7, <1>8, <1>9 DEF Sender

\* Going back to what was sent leaves the sending side as it is.
LEMMA BackSender ==
    ASSUME NEW k, Block(k), Sender(k), NEW x \in Numbers,
           AckedTo(k) <= OutAt(x), OutAt(x) <= SentTo(k), NEW e,
           e.sndseq = x, SameData(e, k), e.shut = k.shut,
           e.maxrcvack = k.maxrcvack, e.out = k.out
    PROVE  Sender(e) /\ NextAt(e) = OutAt(x) /\ AckedTo(e) = AckedTo(k) /\ SentTo(e) = SentTo(k)
<1>1. /\ e.written = k.written /\ e.send = k.send /\ e.rcvack = k.rcvack
      /\ e.sndwnd = k.sndwnd /\ e.maxwnd = k.maxwnd
  BY DEF SameData
<1>2. NextAt(e) = OutAt(x) /\ AckedTo(e) = AckedTo(k) /\ SentTo(e) = SentTo(k)
  BY <1>1 DEF NextAt, AckedTo, SentTo
<1>3. Positions(e)
  BY <1>1, <1>2 DEF Sender, Positions
<1>4. OutOK(e)
  BY <1>1, Zenon DEF Sender, OutOK
<1>5. OutNumbers(e)
  BY <1>1 DEF Sender, OutNumbers
<1> QED BY <1>1, <1>2, <1>3, <1>4, <1>5 DEF Sender

\* The first segment is sent again, and the next one stays the next.
LEMMA FastSender ==
    ASSUME NEW k, Block(k), Sender(k), k.send # 0, NEW e, e = FastRetransmit(k)
    PROVE  Block(e) /\ Sender(e) /\ Sent(e, k) /\ AckedTo(e) = AckedTo(k)
<1>1. PICK f : f = [k EXCEPT !.sndseq = k.rcvack]
  OBVIOUS
<1>2. PICK g : g = SendDataseg(f, SNDMSS)
  OBVIOUS
<1>3. e = [g EXCEPT !.sndseq = k.sndseq]
  BY <1>1, <1>2 DEF FastRetransmit
<1>4. /\ k.rcvack \in Numbers /\ k.sndseq \in Numbers /\ AckedTo(k) \in Nat /\ NextAt(k) \in Nat
      /\ SentTo(k) \in Nat /\ AckedTo(k) <= NextAt(k) /\ NextAt(k) <= SentTo(k)
      /\ OutAt(k.rcvack) = AckedTo(k) /\ OutAt(k.sndseq) = NextAt(k) /\ k.written \in Nat
      /\ SNDMSS \in 1..SNDMSS
  BY OutPlaces, TcpConstants DEF Sender, OutNumbers, Positions, AckedTo, NextAt
<1>5. AckedTo(k) < k.written
  BY RestIs
<1>6. /\ Block(f) /\ Sent(f, k) /\ SameData(f, k) /\ SameCall(f, k) /\ f.sndseq = k.rcvack
      /\ f.maxrcvack = k.maxrcvack /\ f.out = k.out
  BY <1>1, AgainIs, AgainSent
<1>7. /\ Sender(f) /\ NextAt(f) = AckedTo(k) /\ AckedTo(f) = AckedTo(k) /\ SentTo(f) = SentTo(k)
      /\ f.written = k.written
  <2>1. AckedTo(k) <= OutAt(k.rcvack) /\ OutAt(k.rcvack) <= SentTo(k)
    BY <1>4
  <2>2. f.shut = k.shut /\ f.written = k.written
    BY <1>6 DEF SameCall, SameData
  <2> QED BY <1>4, <1>6, <2>1, <2>2, BackSender
<1>8. Sender(g) /\ Leaves(g, f) /\ SentTo(g) >= SentTo(f)
  <2>1. AckedTo(f) <= f.written /\ NextAt(f) <= f.written
    BY <1>4, <1>5, <1>7
  <2> QED BY <1>2, <1>4, <1>6, <1>7, <2>1, DatasegSender
<1>9. Sent(g, f) /\ Block(g)
  BY <1>2, <1>6, DatasegSent DEF Sent
<1>10. /\ Block(e) /\ Sent(e, g) /\ SameData(e, g) /\ SameCall(e, g) /\ e.sndseq = k.sndseq
       /\ e.maxrcvack = g.maxrcvack /\ e.out = g.out
  BY <1>3, <1>9, AgainIs, AgainSent
<1>11. AckedTo(g) = AckedTo(k)
  BY <1>7, <1>8 DEF Leaves, SameData, AckedTo
<1>12. Sender(e) /\ AckedTo(e) = AckedTo(g)
  <2>1. SentTo(g) \in Nat
    BY <1>8, OutPlaces DEF Sender
  <2>2. AckedTo(g) <= OutAt(k.sndseq) /\ OutAt(k.sndseq) <= SentTo(g)
    BY <1>4, <1>7, <1>8, <1>11, <2>1
  <2>3. e.shut = g.shut
    BY <1>10 DEF SameCall
  <2> QED BY <1>4, <1>8, <1>9, <1>10, <2>2, <2>3, BackSender
<1>13. Sent(e, k)
  BY <1>6, <1>9, <1>10, SentTwice
<1> QED BY <1>10, <1>11, <1>12, <1>13

\* The timers after the attempt to send.
TimersFacts(e, k) ==
    /\ Block(e) /\ SameIn(e, k) /\ SameData(e, k) /\ SameMarks(e, k) /\ SameWindow(e, k)
    /\ SameCall(e, k) /\ e.state = k.state
    /\ e.persist <=> (k.sndwnd = 0 /\ k.send > 0) \/ (k.persist /\ k.sendTimeout)
    /\ e.rexmit <=> k.rcvack # k.sndseq

\* They change alone.
LEMMA SetTimersIs ==
    ASSUME NEW k, Block(k), NEW e, e = SetTimers(k)
    PROVE  TimersFacts(e, k)
<1> DEFINE p == IF k.sndwnd = 0 /\ k.send > 0 THEN TRUE ELSE k.persist /\ k.sendTimeout
           x == k.rcvack # k.sndseq
<1>1. e = [k EXCEPT !.persist = p, !.rexmit = x]
  BY DEF SetTimers, Block, Fields
<1> HIDE DEF p, x
<1>2. Block(e) /\ SameIn(e, k) /\ SameData(e, k) /\ SameMarks(e, k) /\ SameWindow(e, k)
  BY <1>1 DEF Block, Fields, SameIn, SameData, SameMarks, SameWindow
<1>3. SameCall(e, k) /\ e.state = k.state
  BY <1>1 DEF Block, Fields, SameCall
<1>4. e.persist = p /\ e.rexmit = x
  BY <1>1 DEF Block, Fields
<1>5. e.persist <=> (k.sndwnd = 0 /\ k.send > 0) \/ (k.persist /\ k.sendTimeout)
  BY <1>4, Zenon DEF p
<1>6. e.rexmit <=> k.rcvack # k.sndseq
  BY <1>4, Zenon DEF x
<1> QED BY <1>2, <1>3, <1>5, <1>6, Zenon DEF TimersFacts

\* After it, what waits has a timer that runs, whatever came of the attempt.
LEMMA SetTimersSender ==
    ASSUME NEW k, Sender(k), NEW e, Sent(e, k), Sender(e),
           DataSent(e, k) \/ FinAlone(e, k) \/ NothingSent(e, k), NEW f, f = SetTimers(e)
    PROVE  /\ Block(f) /\ Sent(f, e) /\ Sender(f) /\ Timers(f) /\ Waits(f) /\ AckedTo(f) = AckedTo(e)
<1>1. TimersFacts(f, e)
  BY SetTimersIs DEF Sent
<1>2. /\ Block(f) /\ SameIn(f, e) /\ SameData(f, e) /\ SameMarks(f, e) /\ SameWindow(f, e)
      /\ SameCall(f, e) /\ f.state = e.state
      /\ f.persist <=> (e.sndwnd = 0 /\ e.send > 0) \/ (e.persist /\ e.sendTimeout)
      /\ f.rexmit <=> e.rcvack # e.sndseq
  BY <1>1, Zenon DEF TimersFacts
<1>3. Sent(f, e)
  BY <1>2, SentSame DEF Moved, SameMarks
<1>4. Sender(f)
  BY <1>2, SenderSame DEF SameMarks, SameCall
<1>5. AckedTo(f) = AckedTo(e) /\ NextAt(f) = NextAt(e) /\ f.send = e.send /\ f.written = e.written
  BY <1>2 DEF SameData, SameMarks, AckedTo, NextAt
<1>6. /\ k.written \in Nat /\ k.sndwnd \in Nat
      /\ AckedTo(k) \in Nat /\ NextAt(k) \in Nat /\ AckedTo(k) <= NextAt(k) /\ NextAt(e) \in Nat
      /\ k.send = IF AckedTo(k) <= k.written THEN k.written - AckedTo(k) ELSE 0
  BY OutPlaces DEF Sender, Positions
<1>7. e.send = k.send /\ e.written = k.written /\ AckedTo(e) = AckedTo(k) /\ e.sndwnd = k.sndwnd
  BY DEF Sent, SameData, AckedTo
<1>8. Cut(k) \in Nat /\ Cut(k) <= NextAt(k) - AckedTo(k) /\ Cut(k) <= k.sndwnd
      /\ (Cut(k) = 0 => NextAt(k) = AckedTo(k) \/ k.sndwnd = 0)
  BY <1>6 DEF Cut, Least
<1>9. AckedTo(f) # NextAt(f) => f.rexmit
  BY <1>2, <1>5 DEF AckedTo, NextAt
<1>10. f.persist => f.send > 0 /\ NextAt(f) < f.written
  <2>1. CASE DataSent(e, k)
    BY <1>2, <1>7, <2>1 DEF DataSent
  <2>2. CASE FinAlone(e, k)
    <3>1. k.send = Cut(k) /\ ~e.sendTimeout
      BY <2>2 DEF FinAlone
    <3> QED BY <1>2, <1>6, <1>7, <1>8, <3>1
  <2>3. CASE NothingSent(e, k)
    <3>1. /\ NextAt(e) = AckedTo(k) + Cut(k)
          /\ \/ k.send > 0 /\ NextAt(e) < k.written
             \/ ~e.sendTimeout
      BY <2>3 DEF NothingSent
    <3>2. ASSUME k.sndwnd = 0, k.send > 0 PROVE NextAt(e) < k.written
      BY <1>6, <1>8, <3>1, <3>2
    <3> QED BY <1>2, <1>5, <1>7, <3>1, <3>2
  <2> QED BY <2>1, <2>2, <2>3
<1>11. f.send > 0 => f.rexmit \/ f.persist
  <2> SUFFICES ASSUME k.send > 0, AckedTo(e) = NextAt(e)
               PROVE  f.persist
    BY <1>5, <1>7, <1>9
  <2>1. CASE k.sndwnd = 0
    BY <1>2, <1>7, <2>1
  <2>2. CASE k.sndwnd # 0
    <3>1. NothingSent(e, k)
      BY <1>6, <1>7 DEF DataSent, FinAlone
    <3>2. /\ NextAt(e) = AckedTo(k) + Cut(k)
          /\ \/ e.persist /\ e.sendTimeout
             \/ NextAt(k) = AckedTo(k) => k.sndwnd = 0 \/ k.send = 0
      BY <3>1 DEF NothingSent
    <3>3. NextAt(k) = AckedTo(k)
      <4>1. AckedTo(k) = AckedTo(k) + Cut(k)
        BY <1>7, <3>2
      <4>2. Cut(k) = 0
        BY <1>6, <1>8, <4>1
      <4> QED BY <1>8, <2>2, <4>2
    <3> QED BY <1>2, <1>6, <2>2, <3>2, <3>3
  <2> QED BY <2>1, <2>2
<1>12. Timers(f)
  <2>1. f.persist => NextAt(f) <= f.written /\ NextAt(f) # f.written
    BY <1>5, <1>6, <1>7, <1>10
  <2> QED BY <1>9, <1>10, <2>1 DEF Timers
<1>13. Waits(f)
  BY <1>11 DEF Waits
<1> QED BY <1>2, <1>3, <1>4, <1>5, <1>12, <1>13

\* Both sides are in order.
Both(k, in) == Receiver(k, in) /\ Sender(k) /\ k.state # "SYN_RCVD"

\* A step that follows takes nothing back of what was written and sent.
Follows(e, k) ==
    /\ e.written = k.written /\ k.out \subseteq e.out
    /\ e.close = k.close /\ e.shut = k.shut /\ e.rshut = k.rshut

\* Two steps that follow.
LEMMA FollowsTwice ==
    ASSUME NEW k, NEW e, NEW f, Follows(e, k), Follows(f, e)
    PROVE  Follows(f, k)
BY DEF Follows

\* What goes out keeps both sides in order.
LEMMA SentBoth ==
    ASSUME NEW k, NEW in, Reach(in), Both(k, in), NEW e, Sent(e, k), Sender(e)
    PROVE  Both(e, in) /\ Follows(e, k) /\ AckedTo(e) = AckedTo(k)
<1>1. Receiver(e, in)
  BY SentReceiver DEF Both
<1>2. e.state # "SYN_RCVD"
  BY DEF Both, Sent, Moved
<1>3. Follows(e, k) /\ AckedTo(e) = AckedTo(k)
  BY DEF Sent, SameData, SameCall, Follows, AckedTo
<1> QED BY <1>1, <1>2, <1>3 DEF Both

\* So does what comes in.
LEMMA TakenBoth ==
    ASSUME NEW k, NEW in, Both(k, in), NEW e, Receiver(e, in), SameOut(e, k), e.state # "SYN_RCVD"
    PROVE  Both(e, in) /\ Follows(e, k) /\ AckedTo(e) = AckedTo(k)
<1>1. /\ SameData(e, k) /\ e.sndseq = k.sndseq /\ e.maxrcvack = k.maxrcvack /\ e.out = k.out
      /\ e.close = k.close /\ e.shut = k.shut /\ e.rshut = k.rshut
  BY DEF SameOut, SameMarks
<1>2. Sender(e)
  BY <1>1, SenderSame DEF Both
<1>3. Follows(e, k) /\ AckedTo(e) = AckedTo(k)
  BY <1>1 DEF SameData, Follows, AckedTo
<1> QED BY <1>2, <1>3 DEF Both

\* So does an acknowledgement, which leaves the timers too.
LEMMA AckBoth ==
    ASSUME NEW k, NEW in, Reach(in), Both(k, in), NEW e, e = SendAck(k)
    PROVE  /\ Both(e, in) /\ Follows(e, k) /\ AckedTo(e) = AckedTo(k)
           /\ Timers(k) => Timers(e)
           /\ Waits(k) => Waits(e)
<1>1. Sent(e, k)
  BY AckSent DEF Both, Receiver
<1>2. Sender(e) /\ (Timers(k) => Timers(e)) /\ (Waits(k) => Waits(e))
  BY AckSender DEF Both, Receiver
<1> QED BY <1>1, <1>2, SentBoth

\* A segment that was below what the peer was told is so later on.
LEMMA ArrivesLater ==
    ASSUME NEW k, NEW e, NEW in, NEW seg, Arrives(seg, k, in),
           k.edge \in Nat, e.edge \in Nat, k.edge <= e.edge
    PROVE  Arrives(seg, e, in)
BY DEF Arrives

\* The acknowledgement of a segment.
Heeded(k, seg, ch) ==
    IF k.rcvack # seg.ack THEN Acknowledged(k, seg.ack)
    ELSE IF ch.third /\ IsDuplicate(k, seg) THEN FastRetransmit(k) ELSE k

\* It keeps both sides in order.
LEMMA HeededBoth ==
    ASSUME NEW k, NEW in, Reach(in), Both(k, in), NEW seg, Arrives(seg, k, in),
           Acknowledges(seg.ack, k), NEW ch, NEW e, e = Heeded(k, seg, ch)
    PROVE  /\ Both(e, in) /\ Follows(e, k) /\ AckedTo(e) = OutAt(seg.ack)
           /\ Arrives(seg, e, in) /\ e.finRcvd = k.finRcvd
<1>0. k.edge \in Nat /\ Block(k) /\ Receiver(k, in) /\ Sender(k)
  BY DEF Both, Receiver, Window
<1>1. CASE k.rcvack # seg.ack
  <2>1. AckedFacts(e, k, seg.ack)
    BY <1>0, <1>1, AcknowledgedIs DEF Heeded
  <2>2. Sender(e) /\ AckedTo(e) = OutAt(seg.ack)
    BY <1>0, <2>1, AcknowledgedSender
  <2>3. Receiver(e, in)
    BY <1>0, <2>1, ReceiverSame DEF AckedFacts
  <2>4. Follows(e, k) /\ e.state = k.state /\ e.edge = k.edge /\ e.finRcvd = k.finRcvd
    BY <2>1 DEF AckedFacts, Follows, SameCall, SameWindow, SameIn
  <2>5. Arrives(seg, e, in)
    BY <2>4 DEF Arrives
  <2> QED BY <2>2, <2>3, <2>4, <2>5 DEF Both
<1>2. CASE k.rcvack = seg.ack /\ ch.third /\ IsDuplicate(k, seg)
  <2>1. e = FastRetransmit(k) /\ k.send # 0
    BY <1>2 DEF Heeded, IsDuplicate
  <2>2. Sender(e) /\ Sent(e, k) /\ AckedTo(e) = AckedTo(k)
    BY <1>0, <2>1, FastSender
  <2>3. Both(e, in) /\ Follows(e, k)
    BY <2>2, SentBoth
  <2>4. e.edge \in Nat /\ k.edge <= e.edge /\ e.finRcvd = k.finRcvd
    BY <1>0, <2>2 DEF Sent, SameIn, Receiver, Window
  <2>5. Arrives(seg, e, in)
    BY <1>0, <2>4, ArrivesLater
  <2>6. AckedTo(k) = OutAt(seg.ack)
    BY <1>2 DEF AckedTo
  <2> QED BY <2>2, <2>3, <2>4, <2>5, <2>6
<1>3. CASE k.rcvack = seg.ack /\ ~(ch.third /\ IsDuplicate(k, seg))
  <2>1. e = k
    BY <1>3 DEF Heeded
  <2>2. Follows(k, k)
    BY DEF Follows
  <2>3. AckedTo(k) = OutAt(seg.ack)
    BY <1>3 DEF AckedTo
  <2> QED BY <2>1, <2>2, <2>3
<1> QED BY <1>1, <1>2, <1>3

\* A segment with a new or repeated acknowledgement, and with data that it brings:
\* both sides stay in order, and what waits after it has a timer that runs.
LEMMA DataprocessBoth ==
    ASSUME NEW k, NEW in, Reach(in), Both(k, in), NEW seg, Arrives(seg, k, in),
           Acknowledges(seg.ack, k), NEW ap, NEW ch, ch.cwnd \in CWNDS,
           NEW e, e = Dataprocess(k, seg, ap, ch)
    PROVE  /\ Both(e, in) /\ Follows(e, k) /\ AckedTo(e) = OutAt(seg.ack)
           /\ Timers(e) /\ Waits(e)
<1>1. PICK k1 : k1 = Heeded(k, seg, ch)
  OBVIOUS
<1>2. /\ Both(k1, in) /\ Follows(k1, k) /\ AckedTo(k1) = OutAt(seg.ack)
      /\ Arrives(seg, k1, in) /\ k1.finRcvd = k.finRcvd
  BY <1>1, HeededBoth
<1>3. PICK r : r = IF ~k.finRcvd THEN AddInpbuf(k1, seg, ap, ch)
                   ELSE [k |-> k1, ap |-> IF seg.len > 0 THEN ap \union {"SEND_IMMEDIATELY"} ELSE ap]
  OBVIOUS
<1>4. PICK k2 : k2 = IF "FIN_ACK" \in r.ap \/ seg.psh THEN SendAck(r.k) ELSE r.k
  OBVIOUS
<1>5. PICK s : s = SendAnydata(k2, k2.insnd, FALSE, ch.cwnd)
  OBVIOUS
<1>6. PICK k3 : k3 = SetTimers(s.k)
  OBVIOUS
<1>7. e = k3 \/ e = SendAck(k3)
  <2>1. e = LET fast == ch.third /\ IsDuplicate(k, seg)
            IN  IF fast \/ s.sends \/ "FIN_ACK" \in r.ap \/ "SEND_IMMEDIATELY" \notin r.ap
                THEN k3 ELSE SendAck(k3)
    BY <1>1, <1>3, <1>4, <1>5, <1>6, Zenon DEF Dataprocess, Heeded
  <2> QED BY <2>1, Zenon
<1>8. Both(r.k, in) /\ Follows(r.k, k) /\ AckedTo(r.k) = OutAt(seg.ack)
  <2>1. CASE ~k.finRcvd
    <3>1. r = AddInpbuf(k1, seg, ap, ch)
      BY <1>3, <2>1, Zenon
    <3>2. Receiver(r.k, in) /\ SameOut(r.k, k1) /\ r.k.state # "SYN_RCVD"
      BY <1>2, <2>1, <3>1, AddInpbufReceiver DEF Both
    <3>3. Both(r.k, in) /\ Follows(r.k, k1) /\ AckedTo(r.k) = AckedTo(k1)
      BY <1>2, <3>2, TakenBoth
    <3> QED BY <1>2, <3>3, FollowsTwice
  <2>2. CASE ~(~k.finRcvd)
    <3>1. r = [k |-> k1, ap |-> IF seg.len > 0 THEN ap \union {"SEND_IMMEDIATELY"} ELSE ap]
      BY <1>3, <2>2, Zenon
    <3>2. r.k = k1
      BY <3>1
    <3> QED BY <1>2, <3>2
  <2> QED BY <2>1, <2>2
<1>9. Both(k2, in) /\ Follows(k2, k) /\ AckedTo(k2) = OutAt(seg.ack)
  <2>1. CASE k2 = r.k
    BY <1>8, <2>1
  <2>2. CASE k2 = SendAck(r.k)
    <3>1. Both(k2, in) /\ Follows(k2, r.k) /\ AckedTo(k2) = AckedTo(r.k)
      BY <1>8, <2>2, AckBoth
    <3> QED BY <1>8, <3>1, FollowsTwice
  <2> QED BY <1>4, <2>1, <2>2, Zenon
<1>10. ch.cwnd \in Nat /\ ch.cwnd >= SNDMSS
  BY TcpConstants
<1>11. /\ Block(s.k) /\ Sent(s.k, k2) /\ Sender(s.k)
       /\ DataSent(s.k, k2) \/ FinAlone(s.k, k2) \/ NothingSent(s.k, k2)
  <2>1. Block(k2) /\ Sender(k2)
    BY <1>9 DEF Both, Receiver
  <2> QED BY <1>5, <1>10, <2>1, AnydataSender
<1>12. Both(s.k, in) /\ Follows(s.k, k2) /\ AckedTo(s.k) = AckedTo(k2)
  BY <1>9, <1>11, SentBoth
<1>13. Sent(k3, s.k) /\ Sender(k3) /\ Timers(k3) /\ Waits(k3)
  BY <1>6, <1>9, <1>11, SetTimersSender DEF Both
<1>14. Both(k3, in) /\ Follows(k3, s.k) /\ AckedTo(k3) = AckedTo(s.k)
  BY <1>12, <1>13, SentBoth
<1>15. Follows(k3, k) /\ AckedTo(k3) = OutAt(seg.ack)
  <2>1. Follows(s.k, k)
    BY <1>9, <1>12, FollowsTwice
  <2> QED BY <1>9, <1>12, <1>14, <2>1, FollowsTwice
<1>16. CASE e = k3
  BY <1>13, <1>14, <1>15, <1>16
<1>17. CASE e = SendAck(k3)
  <2>1. /\ Both(e, in) /\ Follows(e, k3) /\ AckedTo(e) = AckedTo(k3) /\ Timers(e) /\ Waits(e)
    BY <1>13, <1>14, <1>17, AckBoth
  <2> QED BY <1>15, <2>1, FollowsTwice
<1> QED BY <1>7, <1>16, <1>17

-----------------------------------------------------------------------------
(***************************************************************************)
(* The connection.                                                         *)
(***************************************************************************)

\* What the application has said: it shuts both directions down when it closes.
Called(k) ==
    /\ k.shut => k.close
    /\ k.close => k.shut
    /\ k.rshut => k.close

\* A connection whose handshake is over.
Established(k, ld) ==
    Both(k, ld.in) /\ Timers(k) /\ Waits(k) /\ Called(k) /\ k.written <= ld.out

\* One that waits for the end of it.
Handshake(k, ld) ==
    /\ Receiver(k, ld.in) /\ k.state = "SYN_RCVD"
    /\ k.sndseq = Plus(ISS, 1) /\ k.maxrcvack = Plus(ISS, 1) /\ k.rcvack \in Numbers
    /\ k.sndwnd \in Nat /\ k.maxwnd \in Nat
    /\ k.send = 0 /\ k.written = 0 /\ k.out = {} /\ k.recv = 0
    /\ ~k.persist /\ ~k.close /\ ~k.shut /\ ~k.rshut

\* What a socket has got.
Got(k, in) ==
    /\ k.sndack \in Numbers /\ InAt(k.sndack) = Awaited(k) /\ k.recv \in 0..RCVMAX
    /\ k.stream \in Seq(Nat) /\ \A i \in 1..Len(k.stream) : k.stream[i] = i
    /\ k.finRcvd => Len(k.stream) = in

\* One that has ended; its socket may still be read.
Closed(k, in) ==
    /\ Block(k) /\ k.sk \in {"CLOSED", "GONE"} /\ k.state = "SYN_RCVD"
    /\ {k.sndseq, k.maxrcvack, k.rcvack, k.sndack} \subseteq Numbers
    /\ k.rcvwnd \in 0..RCVMAX /\ k.recv \in 0..RCVMAX /\ k.send = 0 /\ k.out = {}
    /\ k.stream \in Seq(Nat) /\ \A i \in 1..Len(k.stream) : k.stream[i] = i
    /\ k.sk # "GONE" => InAt(k.sndack) = Awaited(k)
    /\ k.finRcvd => Len(k.stream) = in

\* The receiving side hands that over.
LEMMA ReceiverGot ==
    ASSUME NEW k, NEW in, Receiver(k, in)
    PROVE  Got(k, in)
BY DEF Receiver, Window, Stream, Got

\* Nothing has happened to a new connection.
LEMMA AcceptedIs ==
    ASSUME NEW wnd, NEW e, e = Accepted(wnd)
    PROVE  /\ Block(e) /\ e.state = "SYN_RCVD" /\ e.sk = "CONNECTING"
           /\ e.sndseq = Plus(ISS, 1) /\ e.maxrcvack = Plus(ISS, 1) /\ e.rcvack = 0
           /\ e.sndack = Plus(IRS, 1) /\ e.rcvwnd = RCVMAX /\ e.sndwnd = wnd /\ e.maxwnd = wnd
           /\ e.freed = 0 /\ ~e.finRcvd /\ ~e.persist /\ ~e.close /\ ~e.shut /\ ~e.rshut
           /\ e.send = 0 /\ e.recv = 0 /\ e.chain = << >> /\ e.written = 0 /\ e.stream = << >>
           /\ e.out = {} /\ e.acked = 0 /\ e.edge = RCVMAX
<1>1. Block(e)
  BY DEF Accepted, Block, Fields
<1>2. /\ e.state = "SYN_RCVD" /\ e.sk = "CONNECTING"
      /\ e.sndseq = Plus(ISS, 1) /\ e.maxrcvack = Plus(ISS, 1) /\ e.rcvack = 0
      /\ e.sndack = Plus(IRS, 1) /\ e.rcvwnd = RCVMAX /\ e.sndwnd = wnd /\ e.maxwnd = wnd
  BY DEF Accepted
<1>3. /\ e.freed = 0 /\ ~e.finRcvd /\ ~e.persist /\ ~e.close /\ ~e.shut /\ ~e.rshut
      /\ e.send = 0 /\ e.recv = 0 /\ e.chain = << >> /\ e.written = 0 /\ e.stream = << >>
      /\ e.out = {} /\ e.acked = 0 /\ e.edge = RCVMAX
  BY DEF Accepted
<1> QED BY <1>1, <1>2, <1>3

\* The first number of the peer's stream is at position 0.
LEMMA FirstNumbers ==
    /\ Plus(IRS, 1) \in Numbers /\ InAt(Plus(IRS, 1)) = 0
    /\ Plus(ISS, 1) \in Numbers /\ OutAt(Plus(ISS, 1)) = 0 /\ 0 \in Numbers
<1>1. 0 \in 0..(SEQ - 2) /\ 0 \in Numbers
  BY Sizes DEF Numbers
<1>2. Plus(IRS, 1 + 0) \in Numbers /\ InAt(Plus(IRS, 1 + 0)) = 0
  BY <1>1, InNumber
<1>3. Plus(ISS, 1 + 0) \in Numbers /\ OutAt(Plus(ISS, 1 + 0)) = 0
  BY <1>1, OutNumber
<1>4. 1 + 0 = 1
  OBVIOUS
<1> QED BY <1>1, <1>2, <1>3, <1>4

\* A new connection is in its handshake.
LEMMA AcceptedHandshake ==
    ASSUME NEW ld, Reach(ld.in), NEW wnd \in Nat, NEW e, e = Accepted(wnd)
    PROVE  Handshake(e, ld)
<1>1. /\ Block(e) /\ e.state = "SYN_RCVD" /\ e.sk = "CONNECTING"
      /\ e.sndseq = Plus(ISS, 1) /\ e.maxrcvack = Plus(ISS, 1) /\ e.rcvack = 0
      /\ e.sndack = Plus(IRS, 1) /\ e.rcvwnd = RCVMAX /\ e.sndwnd = wnd /\ e.maxwnd = wnd
      /\ e.freed = 0 /\ ~e.finRcvd /\ ~e.persist /\ ~e.close /\ ~e.shut /\ ~e.rshut
      /\ e.send = 0 /\ e.recv = 0 /\ e.chain = << >> /\ e.written = 0 /\ e.stream = << >>
      /\ e.out = {} /\ e.acked = 0 /\ e.edge = RCVMAX
  BY AcceptedIs
<1>2. Len(e.stream) = 0 /\ e.stream \in Seq(Nat) /\ e.chain \in Seq(KeptSegs(ld.in, e.edge))
  BY <1>1, EmptySeq
<1>3. FinOf(e) = 0 /\ Awaited(e) = 0
  BY <1>1, <1>2 DEF FinOf, Awaited
<1>4. Window(e)
  BY <1>1, <1>2, <1>3, FirstNumbers, HalfIs DEF Window
<1>5. Opens(e)
  BY <1>1, <1>3, HalfIs DEF Opens, Slack
<1>6. Stream(e, ld.in)
  BY <1>1, <1>2 DEF Stream, Reach
<1>7. Phase(e)
  BY <1>1 DEF Phase
<1> QED BY <1>1, <1>4, <1>5, <1>6, <1>7, FirstNumbers DEF Handshake, Receiver

\* A socket that is closed keeps what it has got, or is gone.
LEMMA CloseSocketClosed ==
    ASSUME NEW k, NEW in, k.close \/ k.sk = "CONNECTING" \/ Got(k, in),
           NEW e, e = CloseSocket(k)
    PROVE  Closed(e, in)
<1>1. PICK a : a = Accepted(0)
  OBVIOUS
<1>2. /\ Block(a) /\ a.state = "SYN_RCVD" /\ a.sk = "CONNECTING"
      /\ a.sndseq = Plus(ISS, 1) /\ a.maxrcvack = Plus(ISS, 1) /\ a.rcvack = 0
      /\ a.sndack = Plus(IRS, 1) /\ a.rcvwnd = RCVMAX
      /\ ~a.finRcvd /\ a.send = 0 /\ a.recv = 0 /\ a.stream = << >> /\ a.out = {}
  BY <1>1, AcceptedIs
<1>3. << >> \in Seq(Nat) /\ Len(<< >>) = 0 /\ RCVMAX \in Nat
  BY EmptySeq, HalfIs
<1>4. CASE k.close \/ k.sk = "CONNECTING"
  <2>1. e = [a EXCEPT !.sk = "GONE"]
    BY <1>1, <1>4, Zenon DEF CloseSocket
  <2>2. /\ Block(e) /\ e.state = "SYN_RCVD" /\ e.sk = "GONE"
        /\ e.sndseq = Plus(ISS, 1) /\ e.maxrcvack = Plus(ISS, 1) /\ e.rcvack = 0
        /\ e.sndack = Plus(IRS, 1) /\ e.rcvwnd = RCVMAX
        /\ ~e.finRcvd /\ e.send = 0 /\ e.recv = 0 /\ e.stream = << >> /\ e.out = {}
    BY <1>2, <2>1 DEF Block, Fields
  <2> QED BY <1>3, <2>2, FirstNumbers DEF Closed
<1>5. CASE ~(k.close \/ k.sk = "CONNECTING")
  <2>1. e = [a EXCEPT !.sk = "CLOSED", !.recv = k.recv, !.stream = k.stream,
                      !.sndack = k.sndack, !.finRcvd = k.finRcvd]
    BY <1>1, <1>5, Zenon DEF CloseSocket
  <2>2. /\ Block(e) /\ e.state = "SYN_RCVD" /\ e.sk = "CLOSED"
        /\ e.sndseq = Plus(ISS, 1) /\ e.maxrcvack = Plus(ISS, 1) /\ e.rcvack = 0
        /\ e.sndack = k.sndack /\ e.rcvwnd = RCVMAX
        /\ e.finRcvd = k.finRcvd /\ e.send = 0 /\ e.recv = k.recv /\ e.stream = k.stream
        /\ e.out = {}
    BY <1>2, <2>1 DEF Block, Fields
  <2>3. Awaited(e) = Awaited(k) /\ Got(k, in)
    BY <1>5, <2>2 DEF Awaited, FinOf
  <2> QED BY <1>3, <2>2, <2>3, FirstNumbers DEF Closed, Got
<1> QED BY <1>4, <1>5

\* The receiving side does not depend on the state, as long as that fits.
LEMMA ReceiverPhase ==
    ASSUME NEW k, NEW in, Receiver(k, in), NEW e, Block(e), SameIn(e, k), SameWindow(e, k),
           e.close = k.close, Phase(e)
    PROVE  Receiver(e, in)
<1>1. FinOf(e) = FinOf(k) /\ Awaited(e) = Awaited(k)
  BY DEF SameIn, FinOf, Awaited
<1>2. Window(e) /\ Opens(e)
  BY <1>1 DEF Receiver, Window, Opens, SameIn, SameWindow
<1>3. Stream(e, in)
  BY DEF Receiver, Stream, SameIn, SameWindow
<1> QED BY <1>2, <1>3 DEF Receiver

\* What the application has said stays said.
LEMMA FollowsCalled ==
    ASSUME NEW k, Called(k), NEW e, Follows(e, k)
    PROVE  Called(e)
BY DEF Called, Follows

\* The input buffer of a socket that the application has closed may be emptied.
LEMMA EmptiedReceiver ==
    ASSUME NEW k, NEW in, Receiver(k, in), NEW e, Block(e), SameWindow(e, k),
           e.sndack = k.sndack, e.finRcvd = k.finRcvd, e.recv = 0, e.chain = k.chain,
           e.stream = k.stream, e.state = k.state, e.sk = k.sk, e.shut = k.shut, e.close
    PROVE  Receiver(e, in)
<1>1. FinOf(e) = FinOf(k) /\ Awaited(e) = Awaited(k)
  BY DEF FinOf, Awaited
<1>2. Window(e)
  <2>1. Window(k) /\ FinOf(k) \in {0, 1}
    BY DEF Receiver, FinOf
  <2>2. Awaited(k) \in Nat
    BY <2>1 DEF Window, Awaited
  <2> QED BY <1>1, <2>1, <2>2, HalfIs DEF Window, SameWindow
<1>3. Opens(e)
  BY DEF Opens
<1>4. Stream(e, in)
  BY DEF Receiver, Stream, SameWindow
<1>5. Phase(e)
  BY DEF Receiver, Phase
<1> QED BY <1>2, <1>3, <1>4, <1>5 DEF Receiver

\* Emptying the input buffer of a socket whose input is shut down disturbs nothing.
LEMMA DiscardsEstablished ==
    ASSUME NEW k, NEW ld, Established(k, ld), NEW e, e = Discards(k)
    PROVE  Established(e, ld) /\ Follows(e, k) /\ AckedTo(e) = AckedTo(k)
<1>1. CASE ~k.rshut
  <2>1. e = k
    BY <1>1 DEF Discards
  <2> QED BY <2>1 DEF Follows
<1>2. CASE k.rshut
  <2>1. e = [k EXCEPT !.recv = 0]
    BY <1>2 DEF Discards
  <2>2. Block(k) /\ Receiver(k, ld.in) /\ Sender(k) /\ k.close
    BY <1>2 DEF Established, Both, Receiver, Called
  <2>3. /\ Block(e) /\ SameData(e, k) /\ SameMarks(e, k) /\ SameTimers(e, k) /\ SameWindow(e, k)
    BY <2>1, <2>2 DEF Block, Fields, SameData, SameMarks, SameTimers, SameWindow
  <2>4. /\ SameCall(e, k) /\ e.state = k.state /\ e.sndack = k.sndack /\ e.finRcvd = k.finRcvd
        /\ e.recv = 0 /\ e.chain = k.chain /\ e.stream = k.stream
    BY <2>1, <2>2 DEF Block, Fields, SameCall
  <2>10. Receiver(e, ld.in)
    BY <2>2, <2>3, <2>4, EmptiedReceiver DEF SameCall
  <2>11. Sender(e)
    BY <2>2, <2>3, <2>4, SenderSame DEF SameMarks, SameCall
  <2>12. Follows(e, k) /\ AckedTo(e) = AckedTo(k) /\ NextAt(e) = NextAt(k)
    BY <2>3, <2>4 DEF Follows, SameData, SameMarks, SameCall, AckedTo, NextAt
  <2>13. Timers(e) /\ Waits(e)
    <3>1. Timers(k) /\ Waits(k)
      BY DEF Established
    <3>2. /\ e.persist = k.persist /\ e.rexmit = k.rexmit /\ e.send = k.send
          /\ e.written = k.written /\ e.finSent = k.finSent /\ e.close = k.close
      BY <2>3, <2>4 DEF SameTimers, SameData, SameMarks, SameCall
    <3> QED BY <2>12, <3>1, <3>2 DEF Timers, Waits
  <2>14. Called(e) /\ e.state # "SYN_RCVD" /\ e.written <= ld.out
    BY <2>4, <2>12, FollowsCalled DEF Established, Both, Follows
  <2> QED BY <2>10, <2>11, <2>12, <2>13, <2>14 DEF Established, Both
<1> QED BY <1>1, <1>2

\* A state that fits, and what else a step may set with it.
LEMMA MovesOnEstablished ==
    ASSUME NEW k, NEW ld, Established(k, ld), NEW e, Block(e), SameIn(e, k), SameWindow(e, k),
           SameData(e, k), SameMarks(e, k), SameCall(e, k), e.persist = k.persist,
           k.close \/ e.rexmit = k.rexmit, Phase(e), e.state # "SYN_RCVD"
    PROVE  Established(e, ld) /\ Follows(e, k) /\ AckedTo(e) = AckedTo(k)
<1>1. e.close = k.close /\ e.shut = k.shut /\ e.rshut = k.rshut
  BY DEF SameCall
<1>2. Receiver(e, ld.in)
  BY <1>1, ReceiverPhase DEF Established, Both
<1>3. Sender(e)
  BY <1>1, SenderSame DEF Established, Both, SameMarks
<1>4. Follows(e, k) /\ AckedTo(e) = AckedTo(k) /\ NextAt(e) = NextAt(k)
  BY <1>1 DEF Follows, SameData, SameMarks, AckedTo, NextAt
<1>5. Timers(e) /\ Waits(e)
  <2>1. Timers(k) /\ Waits(k)
    BY DEF Established
  <2>2. e.send = k.send /\ e.written = k.written /\ e.finSent = k.finSent
    BY DEF SameData, SameMarks
  <2> QED BY <1>1, <1>4, <2>1, <2>2 DEF Timers, Waits
<1>6. Called(e) /\ e.written <= ld.out
  BY <1>4, FollowsCalled DEF Established, Follows
<1> QED BY <1>2, <1>3, <1>4, <1>5, <1>6 DEF Established, Both

\* What a segment may make of an established connection.
Goes(e, k, ld, ack) ==
    \/ Closed(e, ld.in)
    \/ /\ Established(e, ld) /\ Follows(e, k)
       /\ AckedTo(e) = AckedTo(k) \/ AckedTo(e) = OutAt(ack)

\* A segment with data leaves an established connection established.
LEMMA DataprocessEstablished ==
    ASSUME NEW k, NEW ld, Reach(ld.in), Both(k, ld.in), Called(k), k.written <= ld.out,
           NEW seg, Arrives(seg, k, ld.in), Acknowledges(seg.ack, k),
           NEW ap, NEW ch, ch.cwnd \in CWNDS, NEW e, e = Dataprocess(k, seg, ap, ch)
    PROVE  Established(e, ld) /\ Follows(e, k) /\ AckedTo(e) = OutAt(seg.ack)
<1>1. /\ Both(e, ld.in) /\ Follows(e, k) /\ AckedTo(e) = OutAt(seg.ack) /\ Timers(e) /\ Waits(e)
  BY DataprocessBoth
<1>2. Called(e) /\ e.written <= ld.out
  BY <1>1, FollowsCalled DEF Follows
<1> QED BY <1>1, <1>2 DEF Established

\* The main part of the processing, by the state of the connection.
LEMMA MainEstablished ==
    ASSUME NEW k, NEW ld, Reach(ld.in), Established(k, ld),
           NEW seg, Arrives(seg, k, ld.in), Acknowledges(seg.ack, k),
           NEW ap, NEW ch, ch.cwnd \in CWNDS, NEW e, e = MainProcessing(k, seg, ap, ch)
    PROVE  Goes(e, k, ld, seg.ack)
<1>1. /\ Both(k, ld.in) /\ Called(k) /\ k.written <= ld.out /\ k.state # "SYN_RCVD"
      /\ Receiver(k, ld.in) /\ Block(k) /\ Phase(k)
  BY DEF Established, Both, Receiver
<1>2. PICK d : d = Dataprocess(k, seg, ap, ch)
  OBVIOUS
<1>3. Established(d, ld) /\ Follows(d, k) /\ AckedTo(d) = OutAt(seg.ack)
  BY <1>1, <1>2, DataprocessEstablished
<1>4. CASE k.state \in {"ESTABLISHED", "CLOSE_WAIT", "FIN_WAIT_2"}
  <2>1. e = Discards(d)
    BY <1>2, <1>4 DEF MainProcessing
  <2>2. Established(e, ld) /\ Follows(e, d) /\ AckedTo(e) = AckedTo(d)
    BY <1>3, <2>1, DiscardsEstablished
  <2> QED BY <1>3, <2>2, FollowsTwice DEF Goes
<1>5. CASE k.state = "FIN_WAIT_1"
  <2>1. PICK g : g = IF d.sndseq = d.rcvack /\ d.state = "FIN_WAIT_1"
                     THEN [d EXCEPT !.state = "FIN_WAIT_2"] ELSE d
    OBVIOUS
  <2>2. e = Discards(g)
    BY <1>2, <1>5, <2>1 DEF MainProcessing
  <2>3. Established(g, ld) /\ Follows(g, d) /\ AckedTo(g) = AckedTo(d)
    <3>1. CASE g = d
      BY <1>3, <3>1 DEF Follows
    <3>2. CASE d.state = "FIN_WAIT_1" /\ g = [d EXCEPT !.state = "FIN_WAIT_2"]
      <4>1. Block(d) /\ Phase(d)
        BY <1>3 DEF Established, Both, Receiver
      <4>2. Block(g) /\ SameIn(g, d) /\ SameWindow(g, d) /\ SameData(g, d) /\ SameMarks(g, d)
        BY <3>2, <4>1 DEF Block, Fields, SameIn, SameWindow, SameData, SameMarks
      <4>3. /\ SameCall(g, d) /\ g.persist = d.persist /\ g.rexmit = d.rexmit
            /\ g.state = "FIN_WAIT_2" /\ g.finRcvd = d.finRcvd
        BY <3>2, <4>1 DEF Block, Fields, SameCall
      <4>4. Phase(g)
        BY <3>2, <4>1, <4>3 DEF Phase, SameCall
      <4> QED BY <1>3, <4>2, <4>3, <4>4, MovesOnEstablished
    <3> QED BY <2>1, <3>1, <3>2
  <2>4. Established(e, ld) /\ Follows(e, g) /\ AckedTo(e) = AckedTo(g)
    BY <2>2, <2>3, DiscardsEstablished
  <2>5. Follows(e, d)
    BY <2>3, <2>4, FollowsTwice
  <2> QED BY <1>3, <2>3, <2>4, <2>5, FollowsTwice DEF Goes
<1>6. CASE k.state = "LAST_ACK"
  <2>1. e = CloseSocket(k) \/ e = k
    BY <1>6 DEF MainProcessing
  <2>2. CASE e = CloseSocket(k)
    BY <1>1, <2>2, ReceiverGot, CloseSocketClosed DEF Goes
  <2>3. CASE e = k
    BY <2>3 DEF Goes, Follows
  <2> QED BY <2>1, <2>2, <2>3
<1>7. CASE k.state = "CLOSING"
  <2>1. PICK g : g = IF seg.ack = k.sndseq
                     THEN [k EXCEPT !.state = "TIME_WAIT", !.rexmit = FALSE] ELSE k
    OBVIOUS
  <2>2. e = Discards(g)
    BY <1>7, <2>1 DEF MainProcessing
  <2>3. Established(g, ld) /\ Follows(g, k) /\ AckedTo(g) = AckedTo(k)
    <3>1. CASE g = k
      BY <3>1 DEF Follows
    <3>2. CASE g = [k EXCEPT !.state = "TIME_WAIT", !.rexmit = FALSE]
      <4>1. Block(g) /\ SameIn(g, k) /\ SameWindow(g, k) /\ SameData(g, k) /\ SameMarks(g, k)
        BY <1>1, <3>2 DEF Block, Fields, SameIn, SameWindow, SameData, SameMarks
      <4>2. /\ SameCall(g, k) /\ g.persist = k.persist
            /\ g.state = "TIME_WAIT" /\ g.finRcvd = k.finRcvd
        BY <1>1, <3>2 DEF Block, Fields, SameCall
      <4>3. k.finRcvd /\ k.shut /\ k.close
        BY <1>1, <1>7 DEF Phase, Called
      <4>4. Phase(g)
        BY <1>1, <1>7, <4>2, <4>3 DEF Phase, SameCall
      <4> QED BY <4>1, <4>2, <4>3, <4>4, MovesOnEstablished
    <3> QED BY <2>1, <3>1, <3>2
  <2>4. Established(e, ld) /\ Follows(e, g) /\ AckedTo(e) = AckedTo(g)
    BY <2>2, <2>3, DiscardsEstablished
  <2> QED BY <2>3, <2>4, FollowsTwice DEF Goes
<1>8. CASE k.state = "TIME_WAIT"
  <2>1. e = Discards(k)
    BY <1>8 DEF MainProcessing
  <2> QED BY <2>1, DiscardsEstablished DEF Goes
<1> QED BY <1>1, <1>4, <1>5, <1>6, <1>7, <1>8 DEF Phase

-----------------------------------------------------------------------------
(***************************************************************************)
(* A segment before it is processed.                                       *)
(***************************************************************************)

\* A segment that the peer may have sent: below what it was told, or the probe.
Segments == [seq : Numbers, pos : Nat, len : Nat, fin : BOOLEAN, ack : Numbers, wnd : Nat,
             psh : BOOLEAN]
Comes(seg, k, in) ==
    /\ seg \in Segments
    /\ InAt(seg.seq) = seg.pos /\ seg.pos + seg.len <= in
    /\ seg.fin => seg.pos + seg.len = in
    /\ \/ seg.pos + seg.len <= k.edge
       \/ seg.pos = k.edge /\ seg.len = 1 /\ k.acked = k.edge /\ ~seg.fin

\* A piece of a segment, from one position on to another.
Piece(g, seg, from, to) ==
    /\ g \in Segments /\ g.ack = seg.ack /\ g.fin = seg.fin /\ InAt(g.seq) = g.pos
    /\ g.pos = from /\ g.pos + g.len = to

\* What is left of it, as positions.
LEMMA LeftCutIs ==
    ASSUME NEW k, k.sndack \in Numbers, NEW seg \in Segments, InAt(seg.seq) = seg.pos,
           seg.pos <= InAt(k.sndack), InAt(k.sndack) <= seg.pos + seg.len,
           NEW g, g = LeftCut(k, seg)
    PROVE  Piece(g, seg, InAt(k.sndack), seg.pos + seg.len)
<1>1. /\ seg.seq \in Numbers /\ seg.pos \in Nat /\ seg.len \in Nat /\ InAt(k.sndack) \in Nat
  BY InPlace, Sizes DEF Segments
<1>2. GetSize(seg.seq, k.sndack) = InAt(k.sndack) - seg.pos
  BY <1>1, InSize
<1>3. PICK old \in Nat : old = InAt(k.sndack) - seg.pos /\ old <= seg.len
  BY <1>1
<1>4. g = [seg EXCEPT !.seq = k.sndack, !.pos = @ + old, !.len = @ - old]
  BY <1>2, <1>3 DEF LeftCut
<1>5. /\ g.seq = k.sndack /\ g.pos = seg.pos + old /\ g.len = seg.len - old
      /\ g.ack = seg.ack /\ g.fin = seg.fin
  BY <1>4 DEF Segments
<1>6. seg.pos + old \in Nat /\ seg.len - old \in Nat
  BY <1>1, <1>3
<1>7. g \in Segments
  BY <1>4, <1>6 DEF Segments
<1> QED BY <1>1, <1>3, <1>5, <1>7 DEF Piece

\* The same of what lies behind the window.
LEMMA RightCutIs ==
    ASSUME NEW k, NEW edge \in Numbers, Plus(k.sndack, k.rcvwnd) = edge,
           NEW seg \in Segments, InAt(seg.seq) = seg.pos, seg.pos <= InAt(edge),
           NEW g, g = RightCut(k, seg)
    PROVE  /\ g \in Segments /\ g.ack = seg.ack /\ g.fin = seg.fin /\ InAt(g.seq) = g.pos
           /\ g.pos = seg.pos /\ g.pos + g.len = InAt(edge)
<1>1. /\ seg.seq \in Numbers /\ seg.pos \in Nat /\ InAt(edge) \in Nat
  BY InPlace, Sizes DEF Segments
<1>2. GetSize(seg.seq, edge) = InAt(edge) - seg.pos
  BY <1>1, InSize
<1>3. PICK n \in Nat : n = InAt(edge) - seg.pos
  BY <1>1
<1>4. g = [seg EXCEPT !.len = n]
  BY <1>2, <1>3 DEF RightCut
<1>5. /\ g.seq = seg.seq /\ g.pos = seg.pos /\ g.len = n /\ g.ack = seg.ack /\ g.fin = seg.fin
  BY <1>4 DEF Segments
<1>6. g \in Segments
  BY <1>4 DEF Segments
<1> QED BY <1>1, <1>3, <1>5, <1>6

\* The cuts of inputsk, as it names them.
IsRepeated(k, seg) == CompG(k.sndack, seg.seq)
AfterLeft(k, seg)  == IF IsRepeated(k, seg) THEN LeftCut(k, seg) ELSE seg
IsBeyond(k, seg)   == CompG(Plus(AfterLeft(k, seg).seq, AfterLeft(k, seg).len),
                            Plus(k.sndack, k.rcvwnd))
AfterCuts(k, seg)  == IF IsBeyond(k, seg) THEN RightCut(k, AfterLeft(k, seg)) ELSE AfterLeft(k, seg)
Rejected(k, seg)   ==
    \/ IsRepeated(k, seg) /\ ~CompG(Plus(seg.seq, seg.len), k.sndack)
    \/ CompG(AfterLeft(k, seg).seq, Plus(k.sndack, k.rcvwnd))

\* What is left of a segment that is not rejected is bytes the receiving side
\* may take: new ones below what the peer was told, under their number.
LEMMA CutArrives ==
    ASSUME NEW k, NEW in, Reach(in), Receiver(k, in), NEW seg, Comes(seg, k, in),
           ~Rejected(k, seg), NEW g, g = AfterCuts(k, seg)
    PROVE  Arrives(g, k, in) /\ g.ack = seg.ack
<1>1. /\ in \in Nat /\ in + 1 + RCVMAX <= HALF /\ in + 1 < HALF
      /\ HALF \in Nat /\ SEQ \in Nat /\ 2 * HALF < SEQ /\ RCVMAX \in Nat
  BY Sizes, HalfIs DEF Reach
<1>2. /\ seg \in Segments /\ seg.seq \in Numbers /\ seg.pos \in Nat /\ seg.len \in Nat
      /\ InAt(seg.seq) = seg.pos /\ seg.pos + seg.len <= in
      /\ seg.fin => seg.pos + seg.len = in
      /\ \/ seg.pos + seg.len <= k.edge
         \/ seg.pos = k.edge /\ seg.len = 1 /\ k.acked = k.edge /\ ~seg.fin
  BY DEF Comes, Segments
<1>3. PICK at \in Nat : at = InAt(k.sndack) /\ at = Awaited(k) /\ at <= in + 1
  <2>1. InAt(k.sndack) = Awaited(k) /\ Len(k.stream) \in Nat /\ Len(k.stream) <= in
    BY DEF Receiver, Window, Stream
  <2>2. PICK n \in Nat : n = Len(k.stream) /\ n <= in
    BY <2>1
  <2>3. PICK f \in {0, 1} : f = FinOf(k)
    BY DEF FinOf
  <2>4. Awaited(k) = n + f
    BY <2>2, <2>3 DEF Awaited
  <2>5. n + f \in Nat /\ n + f <= in + 1
    BY <1>1, <2>2, <2>3
  <2> QED BY <2>1, <2>4, <2>5
<1>4. /\ k.sndack \in Numbers /\ k.rcvwnd \in Nat /\ k.rcvwnd <= RCVMAX
      /\ k.acked \in Nat /\ k.edge \in Nat /\ k.acked <= at /\ k.acked + k.rcvwnd <= k.edge
      /\ k.edge <= at + k.rcvwnd
  BY <1>1, <1>3 DEF Receiver, Window
<1>5. PICK edge \in Numbers : edge = Plus(k.sndack, k.rcvwnd) /\ InAt(edge) = at + k.rcvwnd
  <2>1. k.rcvwnd \in (-SEQ)..SEQ /\ InAt(k.sndack) + k.rcvwnd \in 0..(SEQ - 1)
    BY <1>1, <1>3, <1>4
  <2> QED BY <1>3, <1>4, <2>1, InMoves
<1>6. IsRepeated(k, seg) <=> at > seg.pos
  <2>1. InAt(k.sndack) - InAt(seg.seq) \in (-HALF)..HALF
    BY <1>1, <1>2, <1>3
  <2> QED BY <1>2, <1>3, <1>4, <2>1, InOrder DEF IsRepeated
<1>7. PICK end \in Numbers : end = Plus(seg.seq, seg.len) /\ InAt(end) = seg.pos + seg.len
  <2>1. seg.len \in (-SEQ)..SEQ /\ InAt(seg.seq) + seg.len \in 0..(SEQ - 1)
    BY <1>1, <1>2
  <2> QED BY <1>2, <2>1, InMoves
<1>8. IsRepeated(k, seg) => seg.pos + seg.len > at
  <2>1. InAt(end) - InAt(k.sndack) \in (-HALF)..HALF
    BY <1>1, <1>2, <1>3, <1>7
  <2>2. CompG(end, k.sndack) <=> InAt(end) > InAt(k.sndack)
    BY <1>4, <1>7, <2>1, InOrder
  <2> QED BY <1>3, <1>7, <2>2 DEF Rejected
<1>9. PICK left : left = AfterLeft(k, seg)
  OBVIOUS
<1>10. /\ left \in Segments /\ left.ack = seg.ack /\ left.fin = seg.fin /\ InAt(left.seq) = left.pos
       /\ left.pos >= at /\ left.pos + left.len = seg.pos + seg.len
  <2>1. CASE IsRepeated(k, seg)
    <3>1. left = LeftCut(k, seg)
      BY <1>9, <2>1 DEF AfterLeft
    <3>2. seg.pos <= InAt(k.sndack) /\ InAt(k.sndack) <= seg.pos + seg.len
      BY <1>2, <1>3, <1>6, <1>8, <2>1
    <3>4. k.sndack \in Numbers /\ seg \in Segments /\ InAt(seg.seq) = seg.pos
      BY <1>2, <1>4
    <3>3. /\ left \in Segments /\ left.ack = seg.ack /\ left.fin = seg.fin
          /\ InAt(left.seq) = left.pos
          /\ left.pos = InAt(k.sndack) /\ left.pos + left.len = seg.pos + seg.len
      <4>1. Piece(left, seg, InAt(k.sndack), seg.pos + seg.len)
        BY <3>1, <3>2, <3>4, LeftCutIs
      <4> QED BY <4>1, Zenon DEF Piece
    <3>5. left.pos = at /\ at >= at
      <4>1. left.pos = at
        BY <1>3, <3>3
      <4> QED BY <4>1
    <3> QED BY <3>3, <3>5, Zenon
  <2>2. CASE ~IsRepeated(k, seg)
    <3>1. left = seg
      BY <1>9, <2>2 DEF AfterLeft
    <3> QED BY <1>2, <1>3, <1>6, <2>2, <3>1
  <2> QED BY <2>1, <2>2
<1>11. left.seq \in Numbers /\ left.pos \in Nat /\ left.len \in Nat /\ left.fin \in BOOLEAN
       /\ left.ack \in Numbers
  BY <1>10 DEF Segments
<1>12. left.pos <= at + k.rcvwnd
  <2>1. InAt(left.seq) - InAt(edge) \in (-HALF)..HALF
    BY <1>1, <1>2, <1>3, <1>4, <1>5, <1>10, <1>11
  <2>2. CompG(left.seq, edge) <=> InAt(left.seq) > InAt(edge)
    BY <1>5, <1>11, <2>1, InOrder
  <2>3. ~CompG(left.seq, edge)
    BY <1>5, <1>9 DEF Rejected
  <2> QED BY <1>4, <1>5, <1>10, <1>11, <2>2, <2>3
<1>13. IsBeyond(k, seg) <=> seg.pos + seg.len > at + k.rcvwnd
  <2>1. left.len \in (-SEQ)..SEQ /\ InAt(left.seq) + left.len \in 0..(SEQ - 1)
    BY <1>1, <1>2, <1>10, <1>11
  <2>2. PICK y \in Numbers : y = Plus(left.seq, left.len) /\ InAt(y) = left.pos + left.len
    BY <1>10, <1>11, <2>1, InMoves
  <2>3. InAt(y) - InAt(edge) \in (-HALF)..HALF
    BY <1>1, <1>2, <1>3, <1>4, <1>5, <1>10, <2>2
  <2>4. CompG(y, edge) <=> InAt(y) > InAt(edge)
    BY <1>5, <2>2, <2>3, InOrder
  <2>5. IsBeyond(k, seg) <=> CompG(y, edge)
    BY <1>5, <1>9, <2>2 DEF IsBeyond
  <2> QED BY <1>5, <1>10, <2>2, <2>4, <2>5
<1>14. CASE IsBeyond(k, seg)
  <2>1. g = RightCut(k, left)
    BY <1>9, <1>14 DEF AfterCuts
  <2>2. /\ g \in Segments /\ g.ack = left.ack /\ g.fin = left.fin /\ InAt(g.seq) = g.pos
        /\ g.pos = left.pos /\ g.pos + g.len = at + k.rcvwnd
    BY <1>5, <1>10, <1>12, <2>1, RightCutIs
  <2>3. seg.pos = k.edge /\ seg.len = 1 /\ k.acked = k.edge /\ ~seg.fin
    <3>1. seg.pos + seg.len > at + k.rcvwnd
      BY <1>13, <1>14
    <3>2. seg.pos \in Nat /\ seg.len \in Nat /\ k.rcvwnd \in Nat /\ k.edge \in Nat
          /\ k.edge <= at + k.rcvwnd
      BY <1>2, <1>4
    <3>3. ~(seg.pos + seg.len <= k.edge)
      BY <3>1, <3>2
    <3>4. \/ seg.pos + seg.len <= k.edge
          \/ seg.pos = k.edge /\ seg.len = 1 /\ k.acked = k.edge /\ ~seg.fin
      BY DEF Comes
    <3> QED BY <3>3, <3>4, Zenon
  <2>4. at + k.rcvwnd <= k.edge /\ at + k.rcvwnd <= in
    <3>1. PICK edge1 \in Nat : edge1 = k.edge
      BY <1>4
    <3>2. PICK wnd \in Nat : wnd = k.rcvwnd /\ edge1 <= at + wnd
      BY <1>4, <3>1
    <3>3. seg.pos = edge1 /\ seg.len = 1
      BY <2>3, <3>1
    <3>4. edge1 + 1 > at + wnd /\ edge1 + 1 <= in
      BY <1>2, <1>13, <1>14, <3>2, <3>3
    <3>5. at + wnd <= edge1 /\ at + wnd <= in
      BY <1>1, <3>4
    <3> QED BY <3>1, <3>2, <3>5
  <2>5. /\ g.seq \in Numbers /\ g.pos \in Nat /\ g.len \in Nat /\ g.fin \in BOOLEAN
        /\ g.ack \in Numbers
    BY <2>2 DEF Segments
  <2> QED BY <1>10, <2>2, <2>3, <2>4, <2>5 DEF Arrives
<1>15. CASE ~IsBeyond(k, seg)
  <2>1. g = left
    BY <1>9, <1>15 DEF AfterCuts
  <2>2. seg.pos + seg.len <= k.edge
    BY <1>2, <1>4, <1>6, <1>8, <1>13, <1>15
  <2> QED BY <1>2, <1>10, <1>11, <2>1, <2>2 DEF Arrives
<1> QED BY <1>14, <1>15

\* A segment's way through _fnet_tcp_inputsk, by those names.
Offers(k, seg) == [k EXCEPT !.sndwnd = seg.wnd, !.maxwnd = Greatest(k.maxwnd, seg.wnd)]
InputFacts(e, k, seg, ch) ==
    \/ e = SendAck(k)
    \/ e = k
    \/ /\ ~Rejected(k, seg)
       /\ IF k.state = "SYN_RCVD" THEN seg.ack = k.sndseq ELSE Hit(k.rcvack, k.maxrcvack, seg.ack)
       /\ \E ap : e = MainProcessing(Offers(k, seg), AfterCuts(k, seg), ap, ch)

\* It is one of these.
LEMMA InputskIs ==
    ASSUME NEW k, Block(k), NEW seg, NEW ch, NEW e, e = Inputsk(k, seg, ch)
    PROVE  InputFacts(e, k, seg, ch)
<1> DEFINE ap == IF IsRepeated(k, seg) \/ IsBeyond(k, seg) THEN {"SEND_IMMEDIATELY"} ELSE {}
<1>1. Offers(k, seg) = [k EXCEPT !.sndwnd = seg.wnd, !.maxwnd = Greatest(@, seg.wnd)]
  BY DEF Offers, Block, Fields
<1>2. e = IF Rejected(k, seg)
          THEN SendAck(k)
          ELSE IF k.state = "SYN_RCVD" /\ seg.ack # k.sndseq THEN k
          ELSE IF k.state # "SYN_RCVD" /\ ~Hit(k.rcvack, k.maxrcvack, seg.ack)
          THEN IF CompG(seg.ack, k.maxrcvack) THEN SendAck(k) ELSE k
          ELSE MainProcessing(Offers(k, seg), AfterCuts(k, seg), ap, ch)
  BY <1>1, Zenon DEF Inputsk, Rejected, AfterCuts, IsBeyond, AfterLeft, IsRepeated
<1> HIDE DEF ap
<1> QED BY <1>2, Zenon DEF InputFacts

\* The window that a segment offers is all that changes before it is processed.
OfferFacts(e, k, seg) ==
    /\ Block(e) /\ SameIn(e, k) /\ SameWindow(e, k) /\ SameCall(e, k) /\ SameMarks(e, k)
    /\ SameTimers(e, k) /\ e.state = k.state
    /\ e.send = k.send /\ e.written = k.written /\ e.rcvack = k.rcvack
    /\ e.sndwnd = seg.wnd /\ e.maxwnd = Greatest(k.maxwnd, seg.wnd)

\* So it is.
LEMMA OffersIs ==
    ASSUME NEW k, Block(k), NEW seg, NEW e, e = Offers(k, seg)
    PROVE  OfferFacts(e, k, seg)
<1>1. Block(e) /\ SameIn(e, k) /\ SameWindow(e, k) /\ SameMarks(e, k) /\ SameTimers(e, k)
  BY DEF Offers, Block, Fields, SameIn, SameWindow, SameMarks, SameTimers
<1>2. /\ SameCall(e, k) /\ e.state = k.state
      /\ e.send = k.send /\ e.written = k.written /\ e.rcvack = k.rcvack
      /\ e.sndwnd = seg.wnd /\ e.maxwnd = Greatest(k.maxwnd, seg.wnd)
  BY DEF Offers, Block, Fields, SameCall
<1> QED BY <1>1, <1>2 DEF OfferFacts

\* The offer leaves an established connection as it is.
LEMMA OffersEstablished ==
    ASSUME NEW k, NEW ld, Established(k, ld), NEW seg, seg.wnd \in Nat,
           NEW e, e = Offers(k, seg)
    PROVE  /\ Established(e, ld) /\ Follows(e, k) /\ e.edge = k.edge /\ e.state = k.state
           /\ AckedTo(e) = AckedTo(k) /\ SentTo(e) = SentTo(k)
<1>1. Block(k) /\ Receiver(k, ld.in) /\ Sender(k) /\ k.state # "SYN_RCVD"
  BY DEF Established, Both, Receiver
<1>2. OfferFacts(e, k, seg)
  BY <1>1, OffersIs
<1>3. /\ e.written = k.written /\ e.send = k.send /\ e.rcvack = k.rcvack
      /\ e.sndseq = k.sndseq /\ e.maxrcvack = k.maxrcvack /\ e.out = k.out /\ e.finSent = k.finSent
      /\ e.close = k.close /\ e.shut = k.shut /\ e.rshut = k.rshut /\ e.edge = k.edge
      /\ e.persist = k.persist /\ e.rexmit = k.rexmit /\ e.state = k.state
      /\ e.sndwnd = seg.wnd /\ e.maxwnd = Greatest(k.maxwnd, seg.wnd)
  BY <1>2 DEF OfferFacts, SameMarks, SameCall, SameWindow, SameTimers
<1>4. Receiver(e, ld.in)
  BY <1>1, <1>2, ReceiverSame DEF OfferFacts
<1>5. AckedTo(e) = AckedTo(k) /\ NextAt(e) = NextAt(k) /\ SentTo(e) = SentTo(k) /\ OutNumbers(e)
  BY <1>1, <1>3, SamePlaces DEF Sender
<1>6. e.maxwnd \in Nat
  BY <1>1, <1>3 DEF Sender, Greatest
<1>7. Positions(e)
  BY <1>1, <1>3, <1>5, Zenon DEF Sender, Positions
<1>8. OutOK(e)
  BY <1>1, <1>3, Zenon DEF Sender, OutOK
<1>9. Sender(e)
  BY <1>1, <1>3, <1>5, <1>6, <1>7, <1>8 DEF Sender
<1>10. Timers(e) /\ Waits(e)
  BY <1>3, <1>5, Zenon DEF Established, Timers, Waits
<1>11. Follows(e, k)
  BY <1>3 DEF Follows
<1>12. Called(e) /\ e.written <= ld.out
  BY <1>3 DEF Established, Called
<1> QED BY <1>1, <1>3, <1>4, <1>5, <1>9, <1>10, <1>11, <1>12 DEF Established, Both

\* A segment with an acknowledgement that the peer may send leaves an established
\* connection established, or ends it.
LEMMA InputEstablished ==
    ASSUME NEW k, NEW ld, Reach(ld.in), Established(k, ld),
           NEW seg, Comes(seg, k, ld.in), OutAt(seg.ack) <= k.written + 1,
           NEW ch, ch.cwnd \in CWNDS, NEW e, e = Inputsk(k, seg, ch)
    PROVE  Goes(e, k, ld, seg.ack)
<1>1. Both(k, ld.in) /\ Receiver(k, ld.in) /\ Sender(k) /\ Block(k) /\ k.state # "SYN_RCVD"
  BY DEF Established, Both, Receiver
<1>2. InputFacts(e, k, seg, ch)
  BY <1>1, InputskIs
<1>3. CASE e = SendAck(k)
  <2>1. /\ Both(e, ld.in) /\ Follows(e, k) /\ AckedTo(e) = AckedTo(k) /\ Timers(e) /\ Waits(e)
    BY <1>1, <1>3, AckBoth DEF Established
  <2>2. Called(e) /\ e.written <= ld.out
    BY <2>1, FollowsCalled DEF Follows, Established
  <2> QED BY <2>1, <2>2 DEF Goes, Established
<1>4. CASE e = k
  BY <1>4 DEF Goes, Follows
<1>5. CASE /\ ~Rejected(k, seg)
           /\ IF k.state = "SYN_RCVD" THEN seg.ack = k.sndseq
              ELSE Hit(k.rcvack, k.maxrcvack, seg.ack)
           /\ \E ap : e = MainProcessing(Offers(k, seg), AfterCuts(k, seg), ap, ch)
  <2>1. PICK ap : e = MainProcessing(Offers(k, seg), AfterCuts(k, seg), ap, ch)
    BY <1>5
  <2>2. Hit(k.rcvack, k.maxrcvack, seg.ack)
    BY <1>1, <1>5
  <2>3. PICK f : f = Offers(k, seg)
    OBVIOUS
  <2>4. seg.wnd \in Nat /\ seg.ack \in Numbers
    BY DEF Comes, Segments
  <2>5. /\ Established(f, ld) /\ Follows(f, k) /\ f.edge = k.edge /\ f.state = k.state
        /\ AckedTo(f) = AckedTo(k) /\ SentTo(f) = SentTo(k)
    BY <2>3, <2>4, OffersEstablished
  <2>6. PICK g : g = AfterCuts(k, seg)
    OBVIOUS
  <2>7. Arrives(g, k, ld.in) /\ g.ack = seg.ack
    BY <1>1, <1>5, <2>6, CutArrives
  <2>8. Arrives(g, f, ld.in)
    BY <2>5, <2>7 DEF Arrives
  <2>9. AckedTo(k) <= OutAt(seg.ack) /\ OutAt(seg.ack) <= SentTo(k)
    <3>1. k.rcvack \in Numbers /\ k.maxrcvack \in Numbers
      BY <1>1 DEF Sender, OutNumbers
    <3>2. AckedTo(k) <= SentTo(k)
      <4>1. AckedTo(k) \in Nat /\ NextAt(k) \in Nat /\ SentTo(k) \in Nat
        BY <1>1, OutPlaces DEF Sender
      <4>2. AckedTo(k) <= NextAt(k) /\ NextAt(k) <= SentTo(k)
        BY <1>1 DEF Sender, Positions
      <4> QED BY <4>1, <4>2
    <3>3. OutAt(k.rcvack) <= OutAt(k.maxrcvack)
      BY <3>2 DEF AckedTo, SentTo
    <3> QED BY <2>2, <2>4, <3>1, <3>3, OutHit DEF AckedTo, SentTo
  <2>10. Acknowledges(g.ack, f)
    BY <2>4, <2>5, <2>7, <2>9 DEF Acknowledges, Follows
  <2>11. e = MainProcessing(f, g, ap, ch)
    BY <2>1, <2>3, <2>6
  <2>12. Goes(e, f, ld, g.ack)
    BY <2>5, <2>8, <2>10, <2>11, MainEstablished
  <2>13. CASE Closed(e, ld.in)
    BY <2>13 DEF Goes
  <2>14. CASE /\ Established(e, ld) /\ Follows(e, f)
              /\ AckedTo(e) = AckedTo(f) \/ AckedTo(e) = OutAt(g.ack)
    <3>1. Follows(e, k)
      BY <2>5, <2>14, FollowsTwice
    <3> QED BY <2>5, <2>7, <2>14, <3>1 DEF Goes
  <2> QED BY <2>12, <2>13, <2>14 DEF Goes
<1> QED BY <1>2, <1>3, <1>4, <1>5 DEF InputFacts

-----------------------------------------------------------------------------
(***************************************************************************)
(* The handshake.                                                          *)
(***************************************************************************)

\* Our SYN again, or an acknowledgement of the peer's.
LEMMA AckHandshake ==
    ASSUME NEW k, NEW ld, Reach(ld.in), Handshake(k, ld), NEW e, e = SendAck(k)
    PROVE  Handshake(e, ld)
<1>1. /\ Receiver(k, ld.in) /\ Block(k) /\ k.state = "SYN_RCVD"
      /\ k.sndseq = Plus(ISS, 1) /\ k.maxrcvack = Plus(ISS, 1)
      /\ ~k.persist /\ ~k.close /\ ~k.shut /\ ~k.rshut
  BY DEF Handshake, Receiver
<1>2. ~CompG(k.sndseq, k.maxrcvack)
  <2>1. PICK x \in Numbers : x = Plus(ISS, 1) /\ OutAt(x) = 0
    BY FirstNumbers
  <2>2. OutAt(x) - OutAt(x) \in (-HALF)..HALF /\ ~(OutAt(x) > OutAt(x))
    BY <2>1, Sizes
  <2> QED BY <1>1, <2>1, <2>2, OutOrder
<1>3. k.sndseq \in Numbers /\ k.maxrcvack \in Numbers
  BY <1>1, FirstNumbers
<1>4. AckFacts(e, k)
  BY <1>1, <1>2, <1>3, AckIs
<1>5. /\ SameData(e, k) /\ SameTimers(e, k) /\ SameCall(e, k)
      /\ e.sndseq = k.sndseq /\ e.maxrcvack = k.maxrcvack /\ e.out = k.out
  BY <1>1, <1>4 DEF AckFacts, Leaves
<1>6. Sent(e, k)
  BY <1>1, AckSent
<1>7. Receiver(e, ld.in)
  BY <1>1, <1>6, SentReceiver
<1>8. e.state = "SYN_RCVD" /\ e.recv = k.recv
  BY <1>1, <1>6 DEF Sent, Moved, SameIn
<1> QED BY <1>5, <1>7, <1>8 DEF Handshake, SameData, SameTimers, SameCall

\* Our SYN is acknowledged.
LEMMA HandshakeEnds ==
    ASSUME NEW k, NEW ld, ld.out \in Nat, ld.out + 1 < HALF, Handshake(k, ld),
           NEW e, Block(e), SameIn(e, k), SameWindow(e, k),
           e.close = k.close, e.shut = k.shut, e.rshut = k.rshut,
           e.send = k.send, e.written = k.written, e.out = k.out,
           e.sndseq = k.sndseq, e.maxrcvack = k.maxrcvack, e.rcvack = k.sndseq,
           e.sndwnd \in Nat, e.maxwnd \in Nat, e.state = "ESTABLISHED", e.sk = "CONNECTED"
    PROVE  /\ Both(e, ld.in) /\ Called(e) /\ e.written <= ld.out
           /\ AckedTo(e) = 0 /\ SentTo(e) = 0
<1>1. /\ Receiver(k, ld.in) /\ k.state = "SYN_RCVD"
      /\ k.sndseq = Plus(ISS, 1) /\ k.maxrcvack = Plus(ISS, 1)
      /\ k.send = 0 /\ k.written = 0 /\ k.out = {}
      /\ ~k.close /\ ~k.shut /\ ~k.rshut
  BY DEF Handshake
<1>2. ~k.finRcvd
  BY <1>1 DEF Receiver, Phase
<1>3. Phase(e)
  BY <1>1, <1>2 DEF Phase, SameIn
<1>4. Receiver(e, ld.in)
  BY <1>1, <1>3, ReceiverPhase
<1>5. AckedTo(e) = 0 /\ NextAt(e) = 0 /\ SentTo(e) = 0
  BY <1>1, FirstNumbers DEF AckedTo, NextAt, SentTo
<1>6. OutNumbers(e)
  BY <1>1, FirstNumbers DEF OutNumbers
<1>7. Positions(e)
  BY <1>1, <1>5 DEF Positions
<1>8. OutOK(e)
  BY <1>1 DEF OutOK
<1>9. e.written = 0 /\ 0 + 1 < HALF /\ 0 <= ld.out
  BY <1>1, Sizes
<1>10. Sender(e)
  BY <1>6, <1>7, <1>8, <1>9 DEF Sender
<1>11. Called(e)
  BY <1>1 DEF Called
<1> QED BY <1>4, <1>5, <1>9, <1>10, <1>11 DEF Both

\* What becomes of a connection that waits for the end of its handshake.
Begins(e, ld) ==
    \/ Handshake(e, ld)
    \/ Established(e, ld) /\ e.written = 0 /\ AckedTo(e) = 0

\* A segment leaves it waiting, or ends the handshake and is processed.
LEMMA InputHandshake ==
    ASSUME NEW k, NEW ld, Reach(ld.in), ld.out \in Nat, ld.out + 1 < HALF, Handshake(k, ld),
           NEW seg, Comes(seg, k, ld.in), NEW ch, ch.cwnd \in CWNDS,
           NEW e, e = Inputsk(k, seg, ch)
    PROVE  Begins(e, ld)
<1>1. Receiver(k, ld.in) /\ Block(k) /\ k.state = "SYN_RCVD" /\ k.written = 0 /\ k.maxwnd \in Nat
  BY DEF Handshake, Receiver
<1>2. InputFacts(e, k, seg, ch)
  BY <1>1, InputskIs
<1>3. CASE e = SendAck(k)
  BY <1>3, AckHandshake DEF Begins
<1>4. CASE e = k
  BY <1>4 DEF Begins
<1>5. CASE /\ ~Rejected(k, seg)
           /\ IF k.state = "SYN_RCVD" THEN seg.ack = k.sndseq
              ELSE Hit(k.rcvack, k.maxrcvack, seg.ack)
           /\ \E ap : e = MainProcessing(Offers(k, seg), AfterCuts(k, seg), ap, ch)
  <2>1. PICK ap : e = MainProcessing(Offers(k, seg), AfterCuts(k, seg), ap, ch)
    BY <1>5
  <2>2. seg.ack = k.sndseq
    BY <1>1, <1>5
  <2>3. PICK f : f = Offers(k, seg)
    OBVIOUS
  <2>4. seg.wnd \in Nat /\ seg.ack \in Numbers
    BY DEF Comes, Segments
  <2>5. PICK g : g = AfterCuts(k, seg)
    OBVIOUS
  <2>6. Arrives(g, k, ld.in) /\ g.ack = seg.ack
    BY <1>1, <1>5, <2>5, CutArrives
  <2>7. OfferFacts(f, k, seg)
    BY <1>1, <2>3, OffersIs
  <2>8. /\ Block(f) /\ f.state = "SYN_RCVD" /\ SameIn(f, k) /\ SameWindow(f, k) /\ SameCall(f, k)
        /\ f.send = k.send /\ f.written = k.written /\ f.out = k.out
        /\ f.sndseq = k.sndseq /\ f.maxrcvack = k.maxrcvack
        /\ f.sndwnd \in Nat /\ f.maxwnd \in Nat
    BY <1>1, <2>4, <2>7 DEF OfferFacts, SameMarks, Greatest
  <2>9. PICK h : h = [f EXCEPT !.state = "ESTABLISHED", !.sk = "CONNECTED",
                               !.rexmit = FALSE, !.rcvack = g.ack]
    OBVIOUS
  <2>10. e = Dataprocess(h, g, ap, ch)
    <3>1. e = MainProcessing(f, g, ap, ch)
      BY <2>1, <2>3, <2>5
    <3> QED BY <2>8, <2>9, <3>1, Zenon DEF MainProcessing
  <2>11. Block(h) /\ SameIn(h, f) /\ SameWindow(h, f)
    BY <2>8, <2>9 DEF Block, Fields, SameIn, SameWindow
  <2>12. /\ h.close = f.close /\ h.shut = f.shut /\ h.rshut = f.rshut
         /\ h.send = f.send /\ h.written = f.written /\ h.out = f.out
         /\ h.sndseq = f.sndseq /\ h.maxrcvack = f.maxrcvack /\ h.rcvack = g.ack
         /\ h.sndwnd = f.sndwnd /\ h.maxwnd = f.maxwnd
         /\ h.state = "ESTABLISHED" /\ h.sk = "CONNECTED"
    BY <2>8, <2>9 DEF Block, Fields
  <2>13. SameIn(h, k) /\ SameWindow(h, k) /\ h.edge = k.edge
    BY <2>8, <2>11 DEF SameIn, SameWindow
  <2>14. /\ h.close = k.close /\ h.shut = k.shut /\ h.rshut = k.rshut
         /\ h.send = k.send /\ h.written = k.written /\ h.out = k.out
         /\ h.sndseq = k.sndseq /\ h.maxrcvack = k.maxrcvack /\ h.rcvack = k.sndseq
         /\ h.sndwnd \in Nat /\ h.maxwnd \in Nat
    BY <2>2, <2>6, <2>8, <2>12 DEF SameCall
  <2>15. /\ Both(h, ld.in) /\ Called(h) /\ h.written <= ld.out /\ AckedTo(h) = 0 /\ SentTo(h) = 0
    BY <2>11, <2>12, <2>13, <2>14, HandshakeEnds
  <2>16. Arrives(g, h, ld.in)
    BY <2>6, <2>13 DEF Arrives
  <2>17. OutAt(g.ack) = 0 /\ Acknowledges(g.ack, h)
    <3>1. OutAt(g.ack) = 0
      BY <2>12, <2>15 DEF AckedTo
    <3>2. h.written = 0
      BY <1>1, <2>14
    <3> QED BY <2>4, <2>6, <2>15, <3>1, <3>2 DEF Acknowledges
  <2>18. Established(e, ld) /\ Follows(e, h) /\ AckedTo(e) = OutAt(g.ack)
    BY <2>10, <2>15, <2>16, <2>17, DataprocessEstablished
  <2>19. e.written = 0
    BY <1>1, <2>14, <2>18 DEF Follows
  <2> QED BY <2>17, <2>18, <2>19 DEF Begins
<1> QED BY <1>2, <1>3, <1>4, <1>5 DEF InputFacts

-----------------------------------------------------------------------------
(***************************************************************************)
(* What the application calls.                                             *)
(***************************************************************************)

\* A load that the comparisons reach over in both directions.
Load(ld) ==
    /\ Reach(ld.in) /\ ld.out \in Nat /\ ld.out + 1 < HALF
    /\ ld.windows \in SUBSET Nat

\* Every load is one.
LEMMA Loads ==
    ASSUME NEW ld \in LOADS
    PROVE  Load(ld)
<1>1. ld \in [out : Nat, in : Nat, windows : SUBSET Nat]
  BY TcpConstants
<1>2. ld.in + RCVMAX < HALF /\ ld.out + 1 < HALF
  BY TcpConstants
<1> QED BY <1>1, <1>2 DEF Load, Reach

\* Bytes are written to the send buffer.
Writes(k, n) == [k EXCEPT !.send = k.send + n, !.written = k.written + n, !.insnd = TRUE]

WriteFacts(e, k, n) ==
    /\ Block(e) /\ SameIn(e, k) /\ SameWindow(e, k) /\ SameCall(e, k) /\ SameMarks(e, k)
    /\ SameTimers(e, k) /\ e.state = k.state
    /\ e.send = k.send + n /\ e.written = k.written + n /\ e.rcvack = k.rcvack
    /\ e.sndwnd = k.sndwnd /\ e.maxwnd = k.maxwnd

\* Nothing else changes.
LEMMA WritesIs ==
    ASSUME NEW k, Block(k), NEW n, NEW e, e = Writes(k, n)
    PROVE  WriteFacts(e, k, n)
<1>1. Block(e) /\ SameIn(e, k) /\ SameWindow(e, k) /\ SameMarks(e, k) /\ SameTimers(e, k)
  BY DEF Writes, Block, Fields, SameIn, SameWindow, SameMarks, SameTimers
<1>2. /\ SameCall(e, k) /\ e.state = k.state
      /\ e.send = k.send + n /\ e.written = k.written + n /\ e.rcvack = k.rcvack
      /\ e.sndwnd = k.sndwnd /\ e.maxwnd = k.maxwnd
  BY DEF Writes, Block, Fields, SameCall
<1> QED BY <1>1, <1>2 DEF WriteFacts

\* They wait for their turn behind what is there.
LEMMA WritesBoth ==
    ASSUME NEW k, NEW ld, Load(ld), Established(k, ld), ~k.close,
           NEW n \in 1..(ld.out - k.written), NEW e, e = Writes(k, n)
    PROVE  /\ Both(e, ld.in) /\ Timers(e) /\ Called(e) /\ e.written <= ld.out
           /\ e.out = k.out /\ AckedTo(e) = AckedTo(k) /\ e.written = k.written + n
           /\ ~e.close /\ e.send > 0 /\ NextAt(e) < e.written /\ e.sndwnd = k.sndwnd
<1>1. /\ Block(k) /\ Receiver(k, ld.in) /\ Sender(k) /\ k.state # "SYN_RCVD"
      /\ Timers(k) /\ Called(k) /\ k.written <= ld.out
  BY DEF Established, Both, Receiver
<1>2. WriteFacts(e, k, n)
  BY <1>1, WritesIs
<1>3. /\ e.send = k.send + n /\ e.written = k.written + n /\ e.rcvack = k.rcvack
      /\ e.sndseq = k.sndseq /\ e.maxrcvack = k.maxrcvack /\ e.out = k.out /\ e.finSent = k.finSent
      /\ e.close = k.close /\ e.shut = k.shut /\ e.rshut = k.rshut
      /\ e.persist = k.persist /\ e.rexmit = k.rexmit /\ e.state = k.state
      /\ e.sndwnd = k.sndwnd /\ e.maxwnd = k.maxwnd
  BY <1>2 DEF WriteFacts, SameMarks, SameCall, SameTimers
<1>4. Receiver(e, ld.in)
  BY <1>1, <1>2, ReceiverSame DEF WriteFacts
<1>5. AckedTo(e) = AckedTo(k) /\ NextAt(e) = NextAt(k) /\ SentTo(e) = SentTo(k) /\ OutNumbers(e)
  BY <1>1, <1>3, SamePlaces DEF Sender
<1>6. /\ k.written \in Nat /\ n \in Nat /\ n > 0 /\ ~k.shut
      /\ AckedTo(k) \in Nat /\ NextAt(k) \in Nat /\ SentTo(k) \in Nat
      /\ AckedTo(k) <= NextAt(k) /\ NextAt(k) <= SentTo(k) /\ SentTo(k) <= k.written
      /\ k.send = IF AckedTo(k) <= k.written THEN k.written - AckedTo(k) ELSE 0
  <2>1. /\ k.written \in Nat /\ n \in Nat /\ n > 0 /\ ~k.shut
        /\ AckedTo(k) \in Nat /\ NextAt(k) \in Nat /\ SentTo(k) \in Nat
        /\ AckedTo(k) <= NextAt(k) /\ NextAt(k) <= SentTo(k)
        /\ k.send = IF AckedTo(k) <= k.written THEN k.written - AckedTo(k) ELSE 0
        /\ SentTo(k) > k.written => k.shut
    BY <1>1, OutPlaces DEF Sender, Positions, Called
  <2> QED BY <2>1
<1>7. k.send = k.written - AckedTo(k)
  BY <1>6
<1>8. Positions(e)
  BY <1>3, <1>5, <1>6, <1>7 DEF Positions
<1>9. OutOK(e)
  <2> SUFFICES ASSUME NEW s \in k.out PROVE SegOK(s, k.written + n)
    BY <1>3 DEF OutOK
  <2>1. SegOK(s, k.written)
    BY <1>1 DEF Sender, OutOK
  <2>2. s.len \in Nat
    BY <2>1, TcpConstants DEF SegOK
  <2> QED BY <1>6, <2>1, <2>2 DEF SegOK
<1>10. /\ e.written \in Nat /\ e.written <= ld.out /\ e.written + 1 < HALF
       /\ e.send > 0 /\ NextAt(e) < e.written
  <2>1. ld.out \in Nat /\ ld.out + 1 < HALF /\ HALF \in Nat
    BY Sizes DEF Load
  <2>2. k.written + n <= ld.out
    BY <1>6, <2>1
  <2> QED BY <1>3, <1>5, <1>6, <1>7, <2>1, <2>2
<1>11. Sender(e)
  BY <1>1, <1>3, <1>5, <1>8, <1>9, <1>10 DEF Sender
<1>12. Timers(e)
  <2>1. NextAt(e) <= e.written /\ NextAt(e) # e.written
    BY <1>5, <1>6, <1>10
  <2> QED BY <1>1, <1>3, <1>5, <1>10, <2>1 DEF Timers
<1>13. Called(e)
  BY <1>1, <1>3 DEF Called
<1> QED BY <1>1, <1>3, <1>4, <1>5, <1>10, <1>11, <1>12, <1>13 DEF Both

\* The turns of a send call's loop.
SndRun(f, n, k, cwnd) ==
    f = [i \in 0..n |-> IF i = 0 THEN [k |-> k, sends |-> TRUE] ELSE SndTurn(f[i - 1], cwnd)]

\* There are as many as one likes.
LEMMA SndRuns ==
    ASSUME NEW n \in Nat, NEW k, NEW cwnd
    PROVE  \E f : SndRun(f, n, k, cwnd)
<1> DEFINE first == [k |-> k, sends |-> TRUE]
           Run(f, m) == SndRun(f, m, k, cwnd)
           S == {m \in 0..n : \E f : Run(f, m)}
<1>1. 0 \in S
  <2> DEFINE f == [i \in 0..0 |-> first]
  <2> HIDE DEF first
  <2>1. f = [i \in 0..0 |-> IF i = 0 THEN first ELSE SndTurn(f[i - 1], cwnd)]
    OBVIOUS
  <2> HIDE DEF f
  <2>2. Run(f, 0)
    BY <2>1 DEF SndRun, first
  <2> QED BY <2>2
<1>2. ASSUME NEW m \in 0..n, m > 0, m - 1 \in S
      PROVE  m \in S
  <2>1. PICK f : Run(f, m - 1)
    BY <1>2
  <2> DEFINE g == [i \in 0..m |-> IF i = m THEN SndTurn(f[m - 1], cwnd) ELSE f[i]]
  <2>2. \A i \in 0..(m - 1) : g[i] = f[i]
    OBVIOUS
  <2>3. \A i \in 0..m : g[i] = IF i = 0 THEN first ELSE SndTurn(g[i - 1], cwnd)
    <3> HIDE DEF first
    <3> SUFFICES ASSUME NEW i \in 0..m
                 PROVE  g[i] = IF i = 0 THEN first ELSE SndTurn(g[i - 1], cwnd)
      OBVIOUS
    <3>1. CASE i = m
      <4>1. g[i] = SndTurn(f[i - 1], cwnd) /\ i # 0 /\ i - 1 \in 0..(m - 1)
        BY <1>2, <3>1
      <4>2. g[i - 1] = f[i - 1]
        BY <2>2, <4>1
      <4> HIDE DEF g
      <4> QED BY <4>1, <4>2
    <3>2. CASE i # m
      <4>1. i \in 0..(m - 1) /\ (i # 0 => i - 1 \in 0..(m - 1))
        BY <3>2
      <4>2. g[i] = f[i] /\ (i # 0 => g[i - 1] = f[i - 1])
        BY <2>2, <4>1
      <4>3. f[i] = IF i = 0 THEN first ELSE SndTurn(f[i - 1], cwnd)
        BY <2>1, <4>1, Zenon DEF SndRun, first
      <4> HIDE DEF g
      <4> QED BY <4>2, <4>3
    <3> QED BY <3>1, <3>2
  <2>4. g = [i \in 0..m |-> g[i]]
    OBVIOUS
  <2> HIDE DEF g
  <2>5. Run(g, m)
    BY <2>3, <2>4 DEF SndRun
  <2> QED BY <2>5
<1> HIDE DEF Run
<1>3. S \in SUBSET (0..n) /\ \A i \in 0..n : i > 0 /\ i - 1 \in S => i \in S
  BY <1>2
<1> HIDE DEF S
<1>4. n \in S
  BY <1>1, <1>3, Climbs
<1> QED BY <1>4 DEF S, Run

\* The loop ends with the last of them.
LEMMA SndLoopIs ==
    ASSUME load.out + 1 \in Nat, NEW k, NEW cwnd
    PROVE  \E f : SndRun(f, load.out + 1, k, cwnd) /\ SndLoop(k, cwnd) = f[load.out + 1].k
<1> DEFINE f == CHOOSE f : SndRun(f, load.out + 1, k, cwnd)
<1>1. SndRun(f, load.out + 1, k, cwnd)
  BY SndRuns, Zenon
<1>2. SndLoop(k, cwnd) = f[load.out + 1].k
  BY Zenon DEF SndLoop, SndRun
<1> QED BY <1>1, <1>2

\* What the loop of a send call keeps, into an open window.
Sending(e, k, in) ==
    /\ Both(e, in) /\ Timers(e) /\ Follows(e, k) /\ AckedTo(e) = AckedTo(k)
    /\ e.sndwnd > 0

\* A turn keeps it, and leaves no bytes without a timer.
LEMMA SndTurnSending ==
    ASSUME NEW r, NEW k, NEW in, Reach(in), Sending(r.k, k, in), NEW cwnd \in CWNDS,
           r.sends \/ Waits(r.k), NEW t, t = SndTurn(r, cwnd)
    PROVE  Sending(t.k, k, in) /\ Waits(t.k)
<1>1. CASE r.sends
  <2>1. t = SendAnydata(r.k, TRUE, FALSE, cwnd)
    BY <1>1 DEF SndTurn
  <2>2. Both(r.k, in) /\ Block(r.k) /\ Sender(r.k) /\ Timers(r.k)
    BY DEF Sending, Both, Receiver
  <2>3. cwnd \in Nat /\ cwnd >= SNDMSS
    BY TcpConstants
  <2>4. /\ Sent(t.k, r.k) /\ Sender(t.k)
        /\ DataSent(t.k, r.k) \/ FinAlone(t.k, r.k) \/ NothingSent(t.k, r.k)
    BY <2>1, <2>2, <2>3, AnydataSender
  <2>5. Timers(t.k) /\ Waits(t.k)
    BY <2>2, <2>4, AnydataTimers DEF Sending
  <2>6. Both(t.k, in) /\ Follows(t.k, r.k) /\ AckedTo(t.k) = AckedTo(r.k)
    BY <2>2, <2>4, SentBoth
  <2>7. t.k.sndwnd = r.k.sndwnd
    BY <2>4 DEF Sent, SameData
  <2>8. Follows(t.k, k)
    BY <2>6, FollowsTwice DEF Sending
  <2> QED BY <2>5, <2>6, <2>7, <2>8 DEF Sending
<1>2. CASE ~r.sends
  <2>1. t = r
    BY <1>2 DEF SndTurn
  <2> QED BY <1>2, <2>1
<1> QED BY <1>1, <1>2

\* So does the loop.
LEMMA SndLoopSending ==
    ASSUME load.out \in Nat, NEW k, NEW in, Reach(in), Both(k, in), Timers(k), k.sndwnd > 0,
           NEW cwnd \in CWNDS, NEW e, e = SndLoop(k, cwnd)
    PROVE  Sending(e, k, in) /\ Waits(e)
<1> DEFINE n == load.out + 1
<1>1. n \in Nat /\ n > 0
  OBVIOUS
<1>2. PICK f : SndRun(f, n, k, cwnd) /\ e = f[n].k
  BY <1>1, SndLoopIs
<1> HIDE DEF n
<1>3. /\ f[0] = [k |-> k, sends |-> TRUE]
      /\ \A i \in 0..n : i > 0 => f[i] = SndTurn(f[i - 1], cwnd)
  <2>1. \A i \in 0..n : f[i] = IF i = 0 THEN [k |-> k, sends |-> TRUE] ELSE SndTurn(f[i - 1], cwnd)
    BY <1>2, Zenon DEF SndRun
  <2>2. 0 \in 0..n
    BY <1>1
  <2>3. f[0] = [k |-> k, sends |-> TRUE]
    BY <2>1, <2>2
  <2>4. ASSUME NEW i \in 0..n, i > 0 PROVE f[i] = SndTurn(f[i - 1], cwnd)
    <3>1. i # 0
      BY <1>1, <2>4
    <3> QED BY <2>1, <3>1, Zenon
  <2> QED BY <2>3, <2>4
<1> DEFINE Good(i) == Sending(f[i].k, k, in) /\ (f[i].sends \/ Waits(f[i].k)) /\ (i > 0 => Waits(f[i].k))
           S == {i \in 0..n : Good(i)}
<1>4. 0 \in S
  <2>1. f[0].k = k /\ f[0].sends = TRUE
    BY <1>3
  <2>2. Sending(f[0].k, k, in)
    BY <2>1 DEF Sending, Follows
  <2> QED BY <1>1, <2>1, <2>2
<1>5. ASSUME NEW i \in 0..n, i > 0, i - 1 \in S
      PROVE  i \in S
  <2>1. Sending(f[i - 1].k, k, in) /\ (f[i - 1].sends \/ Waits(f[i - 1].k))
    BY <1>5
  <2>2. f[i] = SndTurn(f[i - 1], cwnd)
    BY <1>3, <1>5
  <2>3. Sending(f[i].k, k, in) /\ Waits(f[i].k)
    BY <2>1, <2>2, SndTurnSending
  <2> QED BY <2>3
<1>6. S \in SUBSET (0..n) /\ \A i \in 0..n : i > 0 /\ i - 1 \in S => i \in S
  BY <1>5
<1> HIDE DEF S
<1>7. n \in S
  BY <1>1, <1>4, <1>6, Climbs
<1>8. Good(n)
  BY <1>7 DEF S
<1> QED BY <1>1, <1>2, <1>8

\* A flag that nothing here depends on.
LEMMA InsndSame ==
    ASSUME NEW k, Block(k), NEW x, NEW e, e = [k EXCEPT !.insnd = x]
    PROVE  /\ Block(e) /\ SameIn(e, k) /\ SameData(e, k) /\ SameMarks(e, k) /\ SameTimers(e, k)
           /\ SameWindow(e, k) /\ SameCall(e, k) /\ e.state = k.state
<1>1. Block(e) /\ SameIn(e, k) /\ SameData(e, k) /\ SameMarks(e, k) /\ SameTimers(e, k)
  BY DEF Block, Fields, SameIn, SameData, SameMarks, SameTimers
<1> QED BY <1>1 DEF Block, Fields, SameWindow, SameCall

\* How a send call ends.
Sends(k, w, cwnd) ==
    IF k.sndwnd = 0 THEN [w EXCEPT !.persist = TRUE]
    ELSE [SndLoop(w, cwnd) EXCEPT !.insnd = FALSE]

\* What it leaves.
Written(e, k, ld, n) ==
    /\ Established(e, ld) /\ AckedTo(e) = AckedTo(k) /\ k.out \subseteq e.out
    /\ e.written = k.written + n

\* An established connection with more to send.
LEMMA SndEstablished ==
    ASSUME NEW k, Load(load), Established(k, load), ~k.close,
           NEW n \in 1..(load.out - k.written), NEW cwnd \in CWNDS,
           NEW w, w = Writes(k, n),
           NEW e, e = Sends(k, w, cwnd)
    PROVE  Written(e, k, load, n)
<1>1. /\ Both(w, load.in) /\ Timers(w) /\ Called(w) /\ w.written <= load.out
      /\ w.out = k.out /\ AckedTo(w) = AckedTo(k) /\ w.written = k.written + n
      /\ ~w.close /\ w.send > 0 /\ NextAt(w) < w.written /\ w.sndwnd = k.sndwnd
  BY WritesBoth
<1>2. Block(w) /\ Receiver(w, load.in) /\ Sender(w) /\ w.state # "SYN_RCVD"
  BY <1>1 DEF Both, Receiver
<1>3. CASE k.sndwnd = 0
  <2>1. e = [w EXCEPT !.persist = TRUE]
    BY <1>3 DEF Sends
  <2>2. Block(e) /\ SameIn(e, w) /\ SameWindow(e, w) /\ SameData(e, w) /\ SameMarks(e, w)
    BY <1>2, <2>1 DEF Block, Fields, SameIn, SameWindow, SameData, SameMarks
  <2>3. SameCall(e, w) /\ e.state = w.state /\ e.persist /\ e.rexmit = w.rexmit
    BY <1>2, <2>1 DEF Block, Fields, SameCall
  <2>4. Receiver(e, load.in)
    BY <1>2, <2>2, <2>3, ReceiverSame
  <2>5. Sender(e)
    BY <1>2, <2>2, <2>3, SenderSame DEF SameMarks, SameCall
  <2>6. /\ AckedTo(e) = AckedTo(w) /\ NextAt(e) = NextAt(w) /\ e.written = w.written
        /\ e.send = w.send /\ e.out = w.out /\ e.close = w.close
    BY <2>2, <2>3 DEF SameData, SameMarks, SameCall, AckedTo, NextAt
  <2>7. NextAt(w) <= w.written /\ NextAt(w) # w.written
    <3>1. NextAt(w) \in Nat /\ w.written \in Nat
      BY <1>2, OutPlaces DEF Sender
    <3> QED BY <1>1, <3>1
  <2>8. Timers(e) /\ Waits(e)
    BY <1>1, <2>3, <2>6, <2>7 DEF Timers, Waits
  <2>9. Called(e) /\ e.state # "SYN_RCVD"
    BY <1>1, <1>2, <2>3 DEF Called, SameCall
  <2> QED BY <1>1, <2>4, <2>5, <2>6, <2>8, <2>9 DEF Established, Both, Written
<1>4. CASE ~(k.sndwnd = 0)
  <2>1. PICK g : g = SndLoop(w, cwnd)
    OBVIOUS
  <2>2. e = [g EXCEPT !.insnd = FALSE]
    BY <1>4, <2>1 DEF Sends
  <2>3. w.sndwnd > 0 /\ load.out \in Nat /\ Reach(load.in)
    BY <1>1, <1>2, <1>4 DEF Sender, Load
  <2>4. Sending(g, w, load.in) /\ Waits(g)
    BY <1>1, <2>1, <2>3, SndLoopSending
  <2>5. /\ Block(g) /\ Receiver(g, load.in) /\ Phase(g) /\ g.state # "SYN_RCVD"
        /\ Follows(g, w) /\ AckedTo(g) = AckedTo(w)
    BY <2>4 DEF Sending, Both, Receiver
  <2>6. Called(g) /\ g.written <= load.out
    BY <1>1, <2>5, FollowsCalled DEF Follows
  <2>7. Established(g, load)
    BY <2>4, <2>6 DEF Sending, Established
  <2>8. /\ Block(e) /\ SameIn(e, g) /\ SameData(e, g) /\ SameMarks(e, g) /\ SameTimers(e, g)
        /\ SameWindow(e, g) /\ SameCall(e, g) /\ e.state = g.state
    BY <2>2, <2>5, InsndSame
  <2>9. e.persist = g.persist /\ e.rexmit = g.rexmit /\ e.state # "SYN_RCVD" /\ Phase(e)
    BY <2>5, <2>8 DEF SameTimers, SameIn, SameCall, Phase
  <2>10. Established(e, load) /\ Follows(e, g) /\ AckedTo(e) = AckedTo(g)
    BY <2>7, <2>8, <2>9, MovesOnEstablished
  <2>11. Follows(e, w)
    BY <2>5, <2>10, FollowsTwice
  <2> QED BY <1>1, <2>5, <2>10, <2>11 DEF Follows, Written
<1> QED BY <1>3, <1>4

\* Bytes are read from the receive buffer.
Reads(k, n) == [k EXCEPT !.recv = k.recv - n, !.freed = k.freed + n]

ReadFacts(e, k, n) ==
    /\ Block(e) /\ SameData(e, k) /\ SameMarks(e, k) /\ SameTimers(e, k) /\ SameCall(e, k)
    /\ e.state = k.state /\ e.sndack = k.sndack /\ e.finRcvd = k.finRcvd
    /\ e.chain = k.chain /\ e.count = k.count /\ e.stream = k.stream
    /\ e.rcvwnd = k.rcvwnd /\ e.acked = k.acked /\ e.edge = k.edge
    /\ e.recv = k.recv - n /\ e.freed = k.freed + n

\* Nothing else changes.
LEMMA ReadsIs ==
    ASSUME NEW k, Block(k), NEW n, NEW e, e = Reads(k, n)
    PROVE  ReadFacts(e, k, n)
<1>1. Block(e) /\ SameData(e, k) /\ SameMarks(e, k) /\ SameTimers(e, k)
  BY DEF Reads, Block, Fields, SameData, SameMarks, SameTimers
<1>2. /\ SameCall(e, k)
      /\ e.state = k.state /\ e.sndack = k.sndack /\ e.finRcvd = k.finRcvd
      /\ e.chain = k.chain /\ e.count = k.count /\ e.stream = k.stream
  BY DEF Reads, Block, Fields, SameCall
<1>3. /\ e.rcvwnd = k.rcvwnd /\ e.acked = k.acked /\ e.edge = k.edge
      /\ e.recv = k.recv - n /\ e.freed = k.freed + n
  BY DEF Reads, Block, Fields
<1> QED BY <1>1, <1>2, <1>3 DEF ReadFacts

\* Reading leaves the sending side alone; on the receiving side the window may lag
\* behind it, until the peer is told.
LEMMA ReadsBut ==
    ASSUME NEW k, NEW ld, Established(k, ld), NEW n \in 1..k.recv, NEW e, e = Reads(k, n)
    PROVE  /\ Block(e) /\ Window(e) /\ Stream(e, ld.in) /\ Phase(e)
           /\ Sender(e) /\ Timers(e) /\ Waits(e) /\ Called(e)
           /\ Follows(e, k) /\ AckedTo(e) = AckedTo(k) /\ e.state # "SYN_RCVD"
           /\ (e.sk # "CONNECTED" \/ e.freed < Half) => Opens(e)
<1>1. /\ Block(k) /\ Window(k) /\ Opens(k) /\ Stream(k, ld.in) /\ Phase(k) /\ Sender(k)
      /\ Timers(k) /\ Waits(k) /\ Called(k) /\ k.state # "SYN_RCVD"
  BY DEF Established, Both, Receiver
<1>2. ReadFacts(e, k, n)
  BY <1>1, ReadsIs
<1>3. /\ Block(e) /\ SameData(e, k) /\ SameMarks(e, k) /\ SameTimers(e, k) /\ SameCall(e, k)
      /\ e.state = k.state /\ e.sndack = k.sndack /\ e.finRcvd = k.finRcvd
      /\ e.chain = k.chain /\ e.stream = k.stream
      /\ e.rcvwnd = k.rcvwnd /\ e.acked = k.acked /\ e.edge = k.edge
      /\ e.recv = k.recv - n /\ e.freed = k.freed + n
  BY <1>2 DEF ReadFacts
<1>4. FinOf(e) = FinOf(k) /\ Awaited(e) = Awaited(k) /\ FinOf(k) \in {0, 1}
  BY <1>3 DEF FinOf, Awaited
<1>5. Awaited(k) \in Nat /\ Slack \in Nat /\ Half \in Nat
  BY <1>1, <1>4, HalfIs DEF Window, Awaited, Slack
<1>6. /\ k.recv \in 0..RCVMAX /\ k.freed \in Nat /\ k.edge \in Nat /\ n \in Nat
      /\ e.recv \in 0..RCVMAX /\ e.freed \in Nat /\ e.recv <= k.recv
      /\ e.recv + e.freed = k.recv + k.freed
  <2>1. k.recv \in 0..RCVMAX /\ k.freed \in Nat /\ k.edge \in Nat
    BY <1>1 DEF Window
  <2> QED BY <1>3, <2>1, HalfIs
<1>7. Window(e)
  <2>1. /\ k.sndack \in Numbers /\ InAt(k.sndack) = Awaited(k) /\ Len(k.stream) \in Nat
        /\ k.rcvwnd \in 0..RCVMAX /\ k.acked \in Nat
        /\ k.acked <= Awaited(k) /\ k.acked + k.rcvwnd <= k.edge
        /\ k.edge <= Awaited(k) + k.rcvwnd
        /\ Len(k.stream) <= k.edge /\ k.edge + k.recv <= Awaited(k) + RCVMAX
    BY <1>1 DEF Window
  <2>2. k.edge + e.recv <= Awaited(k) + RCVMAX
    BY <1>5, <1>6, <2>1, HalfIs
  <2> QED BY <1>3, <1>4, <1>6, <2>1, <2>2 DEF Window
<1>8. Stream(e, ld.in)
  BY <1>1, <1>3 DEF Stream
<1>9. Phase(e)
  BY <1>1, <1>3 DEF Phase, SameCall
<1>10. Sender(e)
  BY <1>1, <1>3, SenderSame DEF SameMarks, SameCall
<1>11. Follows(e, k) /\ AckedTo(e) = AckedTo(k) /\ NextAt(e) = NextAt(k)
  BY <1>3 DEF Follows, SameData, SameMarks, SameCall, AckedTo, NextAt
<1>12. Timers(e) /\ Waits(e)
  <2>1. /\ e.persist = k.persist /\ e.rexmit = k.rexmit /\ e.send = k.send
        /\ e.written = k.written /\ e.finSent = k.finSent /\ e.close = k.close
    BY <1>3 DEF SameTimers, SameData, SameMarks, SameCall
  <2> QED BY <1>1, <1>11, <2>1 DEF Timers, Waits
<1>13. Called(e)
  BY <1>1, <1>11, FollowsCalled
<1>14. ASSUME e.sk # "CONNECTED" \/ e.freed < Half
       PROVE  Opens(e)
  <2>1. CASE k.close \/ k.finRcvd
    BY <1>3, <2>1 DEF Opens, SameCall
  <2>2. CASE ~(k.close \/ k.finRcvd)
    <3>1. e.freed < Half
      <4>1. e.sk = "CONNECTED"
        BY <1>1, <1>3, <2>2 DEF Phase, SameCall
      <4> QED BY <1>14, <4>1
    <3>2. k.edge + k.recv + k.freed + Slack >= Awaited(k) + RCVMAX
      BY <1>1, <2>2 DEF Opens
    <3>3. k.edge + e.recv + e.freed + Slack >= Awaited(k) + RCVMAX
      BY <1>5, <1>6, <3>2, HalfIs
    <3> QED BY <1>3, <1>4, <3>1, <3>3 DEF Opens
  <2> QED BY <2>1, <2>2
<1> QED BY <1>1, <1>3, <1>7, <1>8, <1>9, <1>10, <1>11, <1>12, <1>13, <1>14

\* What a receive call leaves of an established connection.
LEMMA RcvEstablished ==
    ASSUME NEW k, NEW ld, Reach(ld.in), Established(k, ld), NEW n \in 1..k.recv,
           NEW r, r = Reads(k, n), NEW e,
           e = SendAck(r) \/ (e = r /\ (k.sk # "CONNECTED" \/ r.freed < Half))
    PROVE  Established(e, ld) /\ Follows(e, k) /\ AckedTo(e) = AckedTo(k)
<1>1. /\ Block(r) /\ Window(r) /\ Stream(r, ld.in) /\ Phase(r)
      /\ Sender(r) /\ Timers(r) /\ Waits(r) /\ Called(r)
      /\ Follows(r, k) /\ AckedTo(r) = AckedTo(k) /\ r.state # "SYN_RCVD"
      /\ (r.sk # "CONNECTED" \/ r.freed < Half) => Opens(r)
  BY ReadsBut
<1>2. k.written <= ld.out
  BY DEF Established
<1>3. CASE e = r /\ (k.sk # "CONNECTED" \/ r.freed < Half)
  <2>1. r.sk = k.sk
    <3>1. ReadFacts(r, k, n)
      BY ReadsIs DEF Established, Both, Receiver
    <3> QED BY <3>1 DEF ReadFacts, SameCall
  <2>2. Opens(r)
    BY <1>1, <1>3, <2>1
  <2>3. Receiver(r, ld.in)
    BY <1>1, <2>2 DEF Receiver
  <2> QED BY <1>1, <1>2, <1>3, <2>3 DEF Established, Both, Follows
<1>4. CASE e = SendAck(r)
  <2>1. Sent(e, r) /\ Opens(e)
    BY <1>1, <1>4, AckSent, AckOpens
  <2>2. Receiver(e, ld.in)
    BY <1>1, <2>1, SentOpened
  <2>3. Sender(e) /\ Timers(e) /\ Waits(e) /\ AckedTo(e) = AckedTo(r)
    BY <1>1, <1>4, AckSender
  <2>4. Follows(e, r) /\ e.state # "SYN_RCVD"
    BY <1>1, <2>1 DEF Sent, SameData, SameCall, Follows, Moved
  <2>5. Follows(e, k) /\ Called(e)
    BY <1>1, <2>4, FollowsTwice, FollowsCalled
  <2> QED BY <1>1, <1>2, <2>2, <2>3, <2>4, <2>5 DEF Established, Both, Follows
<1> QED BY <1>3, <1>4

\* What is read from a closed socket.
LEMMA RcvClosed ==
    ASSUME NEW k, NEW in, Closed(k, in), NEW n \in 1..k.recv, NEW e, e = Reads(k, n)
    PROVE  Closed(e, in)
<1>1. ReadFacts(e, k, n)
  BY ReadsIs DEF Closed
<1>2. /\ Block(e) /\ e.sk = k.sk /\ e.state = k.state /\ e.sndseq = k.sndseq
      /\ e.maxrcvack = k.maxrcvack /\ e.rcvack = k.rcvack /\ e.sndack = k.sndack
      /\ e.rcvwnd = k.rcvwnd /\ e.recv = k.recv - n /\ e.send = k.send /\ e.out = k.out
      /\ e.stream = k.stream /\ e.finRcvd = k.finRcvd
  BY <1>1 DEF ReadFacts, SameData, SameMarks, SameCall
<1>3. e.recv \in 0..RCVMAX
  <2>1. k.recv \in 0..RCVMAX
    BY DEF Closed
  <2> QED BY <1>2, <2>1, HalfIs
<1>4. Awaited(e) = Awaited(k)
  BY <1>2 DEF Awaited, FinOf
<1> QED BY <1>2, <1>3, <1>4 DEF Closed

\* The application is done: it sends what it can, and a FIN behind it, and leaves.
Shuts(k) == [k EXCEPT !.shut = TRUE]
Leave(k) == [k EXCEPT !.close = TRUE, !.recv = 0, !.rshut = k.rshut \/ k.state # "TIME_WAIT"]

\* The first of these.
LEMMA ShutsBoth ==
    ASSUME NEW k, NEW ld, Established(k, ld), k.sk = "CONNECTED", ~k.close,
           NEW e, e = Shuts(k)
    PROVE  /\ Both(e, ld.in) /\ Timers(e) /\ AckedTo(e) = AckedTo(k)
           /\ e.written = k.written /\ e.out = k.out
<1>1. /\ Block(k) /\ Receiver(k, ld.in) /\ Sender(k) /\ Phase(k)
      /\ Timers(k) /\ Called(k) /\ k.state # "SYN_RCVD"
  BY DEF Established, Both, Receiver
<1>2. Block(e) /\ SameIn(e, k) /\ SameData(e, k) /\ SameMarks(e, k) /\ SameWindow(e, k)
  BY <1>1 DEF Shuts, Block, Fields, SameIn, SameData, SameMarks, SameWindow
<1>3. /\ SameTimers(e, k) /\ e.state = k.state /\ e.sk = k.sk /\ e.close = k.close
      /\ e.shut /\ e.rshut = k.rshut
  BY <1>1 DEF Shuts, Block, Fields, SameTimers
<1>4. ~k.shut /\ ~k.finRcvd
  BY <1>1 DEF Called, Phase
<1>5. Phase(e)
  BY <1>1, <1>2, <1>3, <1>4 DEF Phase, SameIn
<1>6. Receiver(e, ld.in)
  BY <1>1, <1>2, <1>3, <1>5, ReceiverPhase
<1>7. /\ e.written = k.written /\ e.send = k.send /\ e.rcvack = k.rcvack
      /\ e.sndwnd = k.sndwnd /\ e.maxwnd = k.maxwnd
      /\ e.sndseq = k.sndseq /\ e.maxrcvack = k.maxrcvack /\ e.out = k.out /\ e.finSent = k.finSent
      /\ e.persist = k.persist /\ e.rexmit = k.rexmit
  BY <1>2, <1>3 DEF SameData, SameMarks, SameTimers
<1>8. AckedTo(e) = AckedTo(k) /\ NextAt(e) = NextAt(k) /\ SentTo(e) = SentTo(k) /\ OutNumbers(e)
  BY <1>1, <1>7, SamePlaces DEF Sender
<1>9. Positions(e)
  BY <1>1, <1>3, <1>7, <1>8, Zenon DEF Sender, Positions
<1>10. OutOK(e)
  BY <1>1, <1>7, Zenon DEF Sender, OutOK
<1>11. Sender(e)
  BY <1>1, <1>7, <1>8, <1>9, <1>10 DEF Sender
<1>12. Timers(e)
  BY <1>1, <1>3, <1>7, <1>8, Zenon DEF Timers
<1> QED BY <1>1, <1>3, <1>6, <1>7, <1>8, <1>11, <1>12 DEF Both

\* The last.
LEMMA LeaveEstablished ==
    ASSUME NEW k, NEW ld, Both(k, ld.in), Timers(k), k.shut, k.written <= ld.out,
           NEW e, e = Leave(k)
    PROVE  /\ Established(e, ld) /\ AckedTo(e) = AckedTo(k)
           /\ e.written = k.written /\ e.out = k.out
<1>1. /\ Block(k) /\ Receiver(k, ld.in) /\ Sender(k) /\ k.state # "SYN_RCVD"
  BY DEF Both, Receiver
<1>2. Block(e) /\ SameData(e, k) /\ SameMarks(e, k) /\ SameTimers(e, k) /\ SameWindow(e, k)
  BY <1>1 DEF Leave, Block, Fields, SameData, SameMarks, SameTimers, SameWindow
<1>3. /\ e.sndack = k.sndack /\ e.finRcvd = k.finRcvd /\ e.recv = 0 /\ e.chain = k.chain
      /\ e.stream = k.stream /\ e.state = k.state /\ e.sk = k.sk /\ e.shut = k.shut /\ e.close
  BY <1>1 DEF Leave, Block, Fields
<1>4. Receiver(e, ld.in)
  BY <1>1, <1>2, <1>3, EmptiedReceiver
<1>5. Sender(e)
  BY <1>1, <1>2, <1>3, SenderSame DEF SameMarks
<1>6. /\ AckedTo(e) = AckedTo(k) /\ NextAt(e) = NextAt(k) /\ e.written = k.written
      /\ e.send = k.send /\ e.finSent = k.finSent /\ e.persist = k.persist /\ e.out = k.out
  BY <1>2 DEF SameData, SameMarks, SameTimers, AckedTo, NextAt
<1>7. Timers(e) /\ Waits(e)
  BY <1>3, <1>6 DEF Timers, Waits
<1>8. Called(e)
  BY <1>3 DEF Called
<1> QED BY <1>1, <1>3, <1>4, <1>5, <1>6, <1>7, <1>8 DEF Established, Both

\* What a close call leaves of a connected socket.
LEMMA CloseEstablished ==
    ASSUME NEW k, NEW ld, Reach(ld.in), Established(k, ld), k.sk = "CONNECTED", ~k.close,
           NEW cwnd \in CWNDS, NEW s, s = SendAnydata(Shuts(k), TRUE, FALSE, cwnd),
           NEW e, e = Leave(s.k)
    PROVE  /\ Established(e, ld) /\ AckedTo(e) = AckedTo(k)
           /\ e.written = k.written /\ k.out \subseteq e.out
<1>1. PICK h : h = Shuts(k)
  OBVIOUS
<1>2. /\ Both(h, ld.in) /\ Timers(h) /\ AckedTo(h) = AckedTo(k)
      /\ h.written = k.written /\ h.out = k.out /\ h.shut
  <2>1. Block(k)
    BY DEF Established, Both, Receiver
  <2>2. h.shut
    BY <1>1, <2>1 DEF Shuts, Block, Fields
  <2> QED BY <1>1, <2>2, ShutsBoth
<1>3. cwnd \in Nat /\ cwnd >= SNDMSS /\ Block(h) /\ Sender(h)
  BY <1>2, TcpConstants DEF Both, Receiver
<1>4. s = SendAnydata(h, TRUE, FALSE, cwnd)
  BY <1>1
<1>5. /\ Sent(s.k, h) /\ Sender(s.k)
      /\ DataSent(s.k, h) \/ FinAlone(s.k, h) \/ NothingSent(s.k, h)
  BY <1>3, <1>4, AnydataSender
<1>6. Timers(s.k)
  BY <1>2, <1>3, <1>5, AnydataTimers
<1>7. Both(s.k, ld.in) /\ Follows(s.k, h) /\ AckedTo(s.k) = AckedTo(h)
  BY <1>2, <1>5, SentBoth
<1>8. s.k.shut /\ s.k.written <= ld.out
  BY <1>2, <1>7 DEF Follows, Established
<1>9. /\ Established(e, ld) /\ AckedTo(e) = AckedTo(s.k)
      /\ e.written = s.k.written /\ e.out = s.k.out
  BY <1>6, <1>7, <1>8, LeaveEstablished
<1> QED BY <1>2, <1>7, <1>9 DEF Follows

-----------------------------------------------------------------------------
(***************************************************************************)
(* The timers.                                                             *)
(***************************************************************************)

\* The final segment is forgotten and the numbers start again behind what was acknowledged.
Rewound(k) == [k EXCEPT !.finSent = FALSE, !.sndseq = k.rcvack]

\* Nothing else of the block changes.
LEMMA RewoundIs ==
    ASSUME NEW k, Block(k), NEW e, e = Rewound(k)
    PROVE  /\ Block(e) /\ SameIn(e, k) /\ SameData(e, k) /\ SameTimers(e, k) /\ SameWindow(e, k)
           /\ SameCall(e, k) /\ e.state = k.state /\ e.sndseq = k.rcvack /\ ~e.finSent
           /\ e.maxrcvack = k.maxrcvack /\ e.out = k.out
<1>1. Block(e) /\ SameIn(e, k) /\ SameData(e, k) /\ SameTimers(e, k) /\ SameWindow(e, k)
  BY DEF Rewound, Block, Fields, SameIn, SameData, SameTimers, SameWindow
<1>2. /\ SameCall(e, k) /\ e.state = k.state /\ e.sndseq = k.rcvack /\ ~e.finSent
      /\ e.maxrcvack = k.maxrcvack /\ e.out = k.out
  BY DEF Rewound, Block, Fields, SameCall
<1> QED BY <1>1, <1>2

\* That leaves both sides in order, and no byte is waited for any more.
LEMMA RewoundBoth ==
    ASSUME NEW k, NEW in, Both(k, in), Timers(k), NEW e, e = Rewound(k)
    PROVE  /\ Block(e) /\ Both(e, in) /\ Timers(e) /\ Follows(e, k) /\ AckedTo(e) = AckedTo(k)
<1>1. /\ Block(e) /\ SameIn(e, k) /\ SameData(e, k) /\ SameTimers(e, k) /\ SameWindow(e, k)
      /\ SameCall(e, k) /\ e.state = k.state /\ e.sndseq = k.rcvack /\ ~e.finSent
      /\ e.maxrcvack = k.maxrcvack /\ e.out = k.out
  BY RewoundIs DEF Both, Receiver
<1>2. Receiver(e, in)
  BY <1>1, ReceiverSame DEF Both
<1>3. /\ k.rcvack \in Numbers /\ AckedTo(k) \in Nat /\ k.written \in Nat
      /\ AckedTo(k) <= OutAt(k.rcvack) /\ OutAt(k.rcvack) <= SentTo(k)
  <2>1. OutNumbers(k) /\ Positions(k) /\ k.written \in Nat
    BY DEF Both, Sender
  <2>2. AckedTo(k) \in Nat /\ NextAt(k) \in Nat /\ SentTo(k) \in Nat
    BY <2>1, OutPlaces
  <2> QED BY <2>1, <2>2 DEF OutNumbers, Positions, AckedTo
<1>4. e.shut = k.shut
  BY <1>1 DEF SameCall
<1>5. Sender(e) /\ NextAt(e) = AckedTo(k) /\ AckedTo(e) = AckedTo(k)
  <2>1. Sender(e) /\ NextAt(e) = OutAt(k.rcvack) /\ AckedTo(e) = AckedTo(k)
    BY <1>1, <1>3, <1>4, BackSender DEF Both, Receiver
  <2> QED BY <2>1 DEF AckedTo
<1>6. Timers(e)
  <2>1. e.persist = k.persist /\ e.send = k.send /\ e.written = k.written
    BY <1>1 DEF SameTimers, SameData
  <2>2. k.send > 0 => AckedTo(k) < k.written
    BY RestIs DEF Both
  <2> QED BY <1>3, <1>5, <2>1, <2>2 DEF Timers
<1>7. Follows(e, k)
  BY <1>1 DEF Follows, SameData, SameCall
<1> QED BY <1>1, <1>2, <1>5, <1>6, <1>7 DEF Both

\* A retransmission sends again from there.
LEMMA RexmitEstablished ==
    ASSUME NEW k, NEW ld, Reach(ld.in), Established(k, ld),
           NEW s, s = SendAnydata(Rewound(k), FALSE, TRUE, SNDMSS),
           NEW e, e = [s.k EXCEPT !.rexmit = TRUE]
    PROVE  Established(e, ld) /\ Follows(e, k) /\ AckedTo(e) = AckedTo(k)
<1> DEFINE r == Rewound(k)
<1>1. /\ Block(r) /\ Both(r, ld.in) /\ Timers(r) /\ Follows(r, k) /\ AckedTo(r) = AckedTo(k)
  BY RewoundBoth DEF Established
<1> HIDE DEF r
<1>2. SNDMSS \in Nat /\ SNDMSS >= SNDMSS
  BY TcpConstants
<1>3. /\ Block(s.k) /\ Sent(s.k, r) /\ Sender(s.k)
      /\ DataSent(s.k, r) \/ FinAlone(s.k, r) \/ NothingSent(s.k, r)
  BY <1>1, <1>2, AnydataSender DEF Both, r
<1>4. Timers(s.k)
  BY <1>1, <1>3, AnydataTimers DEF Both
<1>5. Both(s.k, ld.in) /\ Follows(s.k, r) /\ AckedTo(s.k) = AckedTo(r)
  BY <1>1, <1>3, SentBoth
<1>6. /\ Block(e) /\ SameIn(e, s.k) /\ SameData(e, s.k) /\ SameMarks(e, s.k) /\ SameWindow(e, s.k)
  BY <1>3 DEF Block, Fields, SameIn, SameData, SameMarks, SameWindow
<1>7. SameCall(e, s.k) /\ e.state = s.k.state /\ e.rexmit /\ e.persist = s.k.persist
  BY <1>3 DEF Block, Fields, SameCall
<1>8. Receiver(e, ld.in)
  BY <1>5, <1>6, <1>7, ReceiverSame DEF Both
<1>9. Sender(e)
  BY <1>3, <1>6, <1>7, SenderSame DEF SameMarks, SameCall
<1>10. /\ AckedTo(e) = AckedTo(s.k) /\ NextAt(e) = NextAt(s.k) /\ e.send = s.k.send
       /\ e.written = s.k.written /\ e.finSent = s.k.finSent
  BY <1>6 DEF SameData, SameMarks, AckedTo, NextAt
<1>11. Timers(e) /\ Waits(e)
  BY <1>4, <1>7, <1>10 DEF Timers, Waits
<1>12. Follows(e, s.k)
  BY <1>6, <1>7 DEF Follows, SameData, SameMarks, SameCall
<1>13. Follows(e, k)
  BY <1>1, <1>5, <1>12, FollowsTwice
<1>14. Called(e)
  BY <1>13, FollowsCalled DEF Established
<1>15. e.state # "SYN_RCVD" /\ e.written <= ld.out
  BY <1>5, <1>7, <1>13 DEF Both, Follows, Established
<1> QED BY <1>1, <1>5, <1>8, <1>9, <1>10, <1>11, <1>13, <1>14, <1>15 DEF Established, Both

\* A probe of a closed window leaves and is not counted as sent.
Probes(k) == [SendDataseg(k, 1) EXCEPT !.sndseq = Plus(@, -1)]

\* The next position after a probe is the one before it, or, when all was sent, before
\* the last byte; behind a FIN that may go it is the FIN's.
LEMMA ProbeMoves ==
    ASSUME NEW k, Block(k), Sender(k), Timers(k), k.persist,
           NEW g, g = SendDataseg(k, 1)
    PROVE  /\ Sender(g) /\ Leaves(g, k) /\ AckedTo(g) = AckedTo(k) /\ g.sndseq \in Numbers
           /\ Plus(g.sndseq, -1) \in Numbers
           /\ AckedTo(k) <= OutAt(Plus(g.sndseq, -1)) /\ OutAt(Plus(g.sndseq, -1)) <= SentTo(g)
           /\ \/ k.shut /\ g.finSent /\ OutAt(Plus(g.sndseq, -1)) = k.written
              \/ g.finSent = k.finSent /\ OutAt(Plus(g.sndseq, -1)) = NextAt(k) /\ NextAt(k) < k.written
              \/ /\ AckedTo(k) # NextAt(k)
                 /\ OutAt(Plus(g.sndseq, -1)) \in Nat /\ OutAt(Plus(g.sndseq, -1)) < k.written
<1>1. /\ k.written \in Nat /\ k.written + 1 < HALF /\ AckedTo(k) \in Nat /\ NextAt(k) \in Nat
      /\ AckedTo(k) <= NextAt(k)
  BY OutPlaces DEF Sender, Positions
<1>2. AckedTo(k) < k.written /\ NextAt(k) <= k.written
  BY <1>1, RestIs DEF Timers
<1>3. 1 \in 1..SNDMSS /\ AckedTo(k) <= k.written
  BY <1>1, <1>2, TcpConstants
<1> DEFINE len == Least(1, k.written - NextAt(k))
<1>4. /\ Sender(g) /\ Leaves(g, k) /\ SentTo(g) >= SentTo(k)
      /\ \/ k.shut /\ NextAt(k) + len = k.written /\ NextAt(g) = k.written + 1 /\ g.finSent
         \/ /\ ~(k.shut /\ NextAt(k) + len = k.written)
            /\ NextAt(g) = NextAt(k) + len /\ g.finSent = k.finSent
  BY <1>2, <1>3, DatasegSender
<1>5. len = IF NextAt(k) < k.written THEN 1 ELSE 0
  BY <1>1, <1>2 DEF Least
<1> HIDE DEF len
<1>6. AckedTo(g) = AckedTo(k)
  BY <1>4 DEF Leaves, SameData, AckedTo
<1>7. g.sndseq \in Numbers /\ NextAt(g) \in Nat /\ SentTo(g) \in Nat /\ NextAt(g) <= SentTo(g)
  <2>1. OutNumbers(g) /\ Positions(g)
    BY <1>4 DEF Sender
  <2> QED BY <2>1, OutPlaces DEF OutNumbers, Positions
<1>8. NextAt(g) - 1 \in 0..(SEQ - 1) /\ AckedTo(k) <= NextAt(g) - 1
  BY <1>1, <1>2, <1>4, <1>5, <1>7, Sizes
<1>9. -1 \in (-SEQ)..SEQ /\ OutAt(g.sndseq) + (-1) \in 0..(SEQ - 1)
  BY <1>7, <1>8, Sizes DEF NextAt
<1>10. Plus(g.sndseq, -1) \in Numbers /\ OutAt(Plus(g.sndseq, -1)) = OutAt(g.sndseq) + (-1)
  BY <1>7, <1>9, OutMoves
<1>11. OutAt(Plus(g.sndseq, -1)) = NextAt(g) - 1
  BY <1>7, <1>10 DEF NextAt
<1>12. \/ k.shut /\ g.finSent /\ NextAt(g) - 1 = k.written
       \/ g.finSent = k.finSent /\ NextAt(g) - 1 = NextAt(k) /\ NextAt(k) < k.written
       \/ AckedTo(k) # NextAt(k) /\ NextAt(g) - 1 \in Nat /\ NextAt(g) - 1 < k.written
  BY <1>1, <1>2, <1>4, <1>5, <1>7
<1>13. NextAt(g) - 1 <= SentTo(g)
  BY <1>7
<1> QED BY <1>4, <1>6, <1>7, <1>8, <1>10, <1>11, <1>12, <1>13

\* A probe keeps an established connection established.
LEMMA ProbeEstablished ==
    ASSUME NEW k, NEW ld, Reach(ld.in), Established(k, ld), k.persist, NEW e, e = Probes(k)
    PROVE  Established(e, ld) /\ Follows(e, k) /\ AckedTo(e) = AckedTo(k)
<1>1. PICK g : g = SendDataseg(k, 1)
  OBVIOUS
<1>2. Block(k) /\ Both(k, ld.in) /\ Sender(k) /\ Timers(k) /\ Waits(k) /\ Called(k)
  BY DEF Established, Both, Receiver
<1>3. PICK x : x = Plus(g.sndseq, -1)
  OBVIOUS
<1>4. /\ Sender(g) /\ Leaves(g, k) /\ AckedTo(g) = AckedTo(k)
      /\ x \in Numbers /\ AckedTo(k) <= OutAt(x) /\ OutAt(x) <= SentTo(g)
      /\ \/ k.shut /\ g.finSent /\ OutAt(x) = k.written
         \/ g.finSent = k.finSent /\ OutAt(x) = NextAt(k) /\ NextAt(k) < k.written
         \/ AckedTo(k) # NextAt(k) /\ OutAt(x) \in Nat /\ OutAt(x) < k.written
  BY <1>1, <1>2, <1>3, ProbeMoves
<1>5. Sent(g, k)
  BY <1>1, <1>2, DatasegSent
<1>6. Both(g, ld.in) /\ Follows(g, k)
  BY <1>2, <1>4, <1>5, SentBoth
<1>7. Block(g)
  BY <1>5 DEF Sent
<1>8. e = [g EXCEPT !.sndseq = x]
  BY <1>1, <1>3, <1>7 DEF Probes, Block, Fields
<1>9. /\ Block(e) /\ SameIn(e, g) /\ SameData(e, g) /\ SameTimers(e, g) /\ SameWindow(e, g)
      /\ SameCall(e, g) /\ e.state = g.state /\ e.sndseq = x
      /\ e.maxrcvack = g.maxrcvack /\ e.out = g.out /\ e.finSent = g.finSent
  BY <1>7, <1>8, AgainIs
<1>10. Sent(e, g)
  BY <1>7, <1>8, AgainSent
<1>11. e.shut = g.shut
  BY <1>9 DEF SameCall
<1>12. Sender(e) /\ NextAt(e) = OutAt(x) /\ AckedTo(e) = AckedTo(g)
  BY <1>4, <1>7, <1>9, <1>11, BackSender
<1>13. Both(e, ld.in) /\ Follows(e, g)
  BY <1>6, <1>10, <1>12, SentBoth
<1>14. Follows(e, k)
  BY <1>6, <1>13, FollowsTwice
<1>15. Called(e)
  BY <1>2, <1>14, FollowsCalled
<1>16. /\ e.persist /\ e.rexmit = k.rexmit /\ e.send = k.send /\ e.written = k.written
       /\ e.close = k.close
  BY <1>4, <1>9 DEF SameTimers, SameData, SameCall, Leaves
<1>17. Timers(e)
  <2>1. k.written \in Nat /\ k.shut => k.close
    BY <1>2 DEF Sender, Called
  <2>2. k.send > 0 /\ (~k.close /\ AckedTo(k) # NextAt(k) => k.rexmit)
    BY <1>2 DEF Timers
  <2>3. k.written \in Nat
    BY <1>2 DEF Sender
  <2>4. NextAt(e) <= k.written /\ (NextAt(e) = k.written => e.finSent)
    BY <1>4, <1>9, <1>12, <2>3, <1>2, OutPlaces DEF Sender
  <2>5. ~k.close /\ AckedTo(e) # NextAt(e) => k.rexmit
    BY <1>4, <1>12, <2>1, <2>2, <1>2 DEF Called
  <2> QED BY <1>16, <2>2, <2>4, <2>5 DEF Timers
<1>18. Waits(e)
  BY <1>16 DEF Waits
<1>19. e.written <= ld.out
  BY <1>16 DEF Established
<1> QED BY <1>4, <1>12, <1>13, <1>14, <1>15, <1>17, <1>18, <1>19 DEF Established

\* With an open window the persist timer sends what there is.
LEMMA PersistEstablished ==
    ASSUME NEW k, NEW ld, Reach(ld.in), Established(k, ld), k.sndwnd # 0,
           NEW cwnd \in CWNDS,
           NEW e, e = SendAnydata([k EXCEPT !.persist = FALSE], FALSE, TRUE, cwnd).k
    PROVE  Established(e, ld) /\ Follows(e, k) /\ AckedTo(e) = AckedTo(k)
<1>1. PICK r : r = [k EXCEPT !.persist = FALSE]
  OBVIOUS
<1>2. Block(k) /\ Both(k, ld.in) /\ Sender(k) /\ Receiver(k, ld.in) /\ Timers(k) /\ Called(k)
  BY DEF Established, Both, Receiver
<1>3. /\ Block(r) /\ SameIn(r, k) /\ SameData(r, k) /\ SameMarks(r, k) /\ SameWindow(r, k)
      /\ SameCall(r, k) /\ r.state = k.state /\ ~r.persist /\ r.rexmit = k.rexmit
  <2>1. Block(r) /\ SameIn(r, k) /\ SameData(r, k) /\ SameMarks(r, k) /\ SameWindow(r, k)
    BY <1>1, <1>2 DEF Block, Fields, SameIn, SameData, SameMarks, SameWindow
  <2>2. SameCall(r, k) /\ r.state = k.state /\ ~r.persist /\ r.rexmit = k.rexmit
    BY <1>1, <1>2 DEF Block, Fields, SameCall
  <2> QED BY <2>1, <2>2
<1>4. Sender(r) /\ Receiver(r, ld.in)
  <2>1. r.shut = k.shut /\ r.sndseq = k.sndseq /\ r.maxrcvack = k.maxrcvack /\ r.out = k.out
    BY <1>3 DEF SameCall, SameMarks
  <2> QED BY <1>2, <1>3, <2>1, SenderSame, ReceiverSame
<1>5. Both(r, ld.in) /\ Follows(r, k) /\ AckedTo(r) = AckedTo(k)
  BY <1>2, <1>3, <1>4 DEF Both, Follows, SameCall, SameMarks, SameData, AckedTo
<1>6. Timers(r)
  <2>1. AckedTo(r) = AckedTo(k) /\ NextAt(r) = NextAt(k) /\ r.close = k.close
    BY <1>3 DEF SameData, SameMarks, SameCall, AckedTo, NextAt
  <2> QED BY <1>2, <1>3, <2>1 DEF Timers
<1>7. cwnd \in Nat /\ cwnd >= SNDMSS /\ r.sndwnd \in Nat /\ r.sndwnd # 0
  BY <1>2, <1>3, TcpConstants DEF SameData, Sender
<1>8. PICK s : s = SendAnydata(r, FALSE, TRUE, cwnd)
  OBVIOUS
<1>9. /\ Sent(s.k, r) /\ Sender(s.k)
      /\ DataSent(s.k, r) \/ FinAlone(s.k, r) \/ NothingSent(s.k, r)
  BY <1>3, <1>4, <1>7, <1>8, AnydataSender
<1>10. Timers(s.k) /\ Waits(s.k)
  BY <1>4, <1>6, <1>7, <1>9, AnydataTimers
<1>11. Both(s.k, ld.in) /\ Follows(s.k, r) /\ AckedTo(s.k) = AckedTo(r)
  BY <1>5, <1>9, SentBoth
<1>12. e = s.k
  BY <1>1, <1>8
<1>13. Follows(e, k)
  BY <1>5, <1>11, <1>12, FollowsTwice
<1>14. Called(e)
  BY <1>2, <1>13, FollowsCalled
<1>15. e.written <= ld.out
  BY <1>13 DEF Established, Follows
<1> QED BY <1>5, <1>10, <1>11, <1>12, <1>13, <1>14, <1>15 DEF Established

-----------------------------------------------------------------------------
(***************************************************************************)
(* The connection and its peer.                                            *)
(***************************************************************************)

\* The number that our FIN takes.
FinTaken(p) == IF p.fin THEN 1 ELSE 0

\* The peer has got what was acknowledged, and no more than was written; its FIN is
\* one that went out, behind what it got.
Heard(k, p) ==
    /\ p.got \in Nat /\ p.got <= k.written
    /\ AckedTo(k) <= p.got + FinTaken(p)
    /\ p.fin => \E s \in k.out : s.fin /\ s.at + s.len = p.got

\* A peer that has got nothing.
Silent == [got |-> 0, fin |-> FALSE]

\* The inductive invariant: the connection is in one of three stages.
Connection(k, ld, p) ==
    \/ Established(k, ld) /\ Heard(k, p)
    \/ Handshake(k, ld) /\ p = Silent
    \/ Closed(k, ld.in)

Inv == load \in LOADS /\ Connection(c, load, peer)

\* Steps that take nothing back and acknowledge what the peer may have acknowledged
\* leave that true.
LEMMA HeardFollows ==
    ASSUME NEW k, NEW p, Heard(k, p), NEW e, k.written \in Nat, e.written \in Nat,
           k.written <= e.written, k.out \subseteq e.out,
           AckedTo(e) \in Nat, AckedTo(e) <= p.got + FinTaken(p)
    PROVE  Heard(e, p)
<1>1. p.got \in Nat /\ p.got <= e.written
  BY DEF Heard
<1>2. p.fin => \E s \in e.out : s.fin /\ s.at + s.len = p.got
  BY DEF Heard
<1> QED BY <1>1, <1>2 DEF Heard

\* What an established connection's numbers are.
LEMMA EstablishedNumbers ==
    ASSUME NEW k, NEW ld, Established(k, ld)
    PROVE  /\ k.written \in Nat /\ AckedTo(k) \in Nat /\ NextAt(k) \in Nat /\ SentTo(k) \in Nat
           /\ Block(k) /\ Receiver(k, ld.in) /\ Sender(k) /\ k.state # "SYN_RCVD"
           /\ k.sk \in {"CONNECTED", "CLOSING"} /\ OutNumbers(k) /\ Positions(k) /\ OutOK(k)
<1>1. Receiver(k, ld.in) /\ Sender(k) /\ k.state # "SYN_RCVD"
  BY DEF Established, Both
<1>2. Block(k) /\ Phase(k)
  BY <1>1 DEF Receiver
<1>3. k.written \in Nat /\ OutNumbers(k) /\ Positions(k) /\ OutOK(k)
  BY <1>1 DEF Sender
<1>4. k.sk \in {"CONNECTED", "CLOSING"}
  BY <1>1, <1>2 DEF Phase
<1> QED BY <1>1, <1>2, <1>3, <1>4, OutPlaces

\* Established connections stay heard.
LEMMA StaysHeard ==
    ASSUME NEW k, NEW ld, NEW p, Established(k, ld), Heard(k, p),
           NEW e, Established(e, ld), k.out \subseteq e.out, k.written <= e.written,
           AckedTo(e) = AckedTo(k)
    PROVE  Connection(e, ld, p)
<1>1. k.written \in Nat /\ e.written \in Nat /\ AckedTo(e) \in Nat
  BY EstablishedNumbers
<1>2. AckedTo(e) <= p.got + FinTaken(p)
  BY DEF Heard
<1>3. Heard(e, p)
  BY <1>1, <1>2, HeardFollows
<1> QED BY <1>3 DEF Connection

\* The three stages of an open and of a closed socket.
LEMMA Stages ==
    ASSUME NEW k, NEW ld, NEW p, Connection(k, ld, p)
    PROVE  /\ k.sk = "CONNECTING" => Handshake(k, ld) /\ p = Silent /\ k.state = "SYN_RCVD"
           /\ k.sk \in {"CONNECTED", "CLOSING"} =>
                Established(k, ld) /\ Heard(k, p) /\ k.state # "SYN_RCVD"
           /\ k.sk \in {"CLOSED", "GONE"} => Closed(k, ld.in)
<1>1. CASE Established(k, ld) /\ Heard(k, p)
  BY <1>1, EstablishedNumbers
<1>2. CASE Handshake(k, ld) /\ p = Silent
  <2>1. k.state = "SYN_RCVD" /\ Phase(k)
    BY <1>2 DEF Handshake, Receiver
  <2>2. k.sk = "CONNECTING"
    BY <2>1 DEF Phase
  <2> QED BY <1>2, <2>1, <2>2
<1>3. CASE Closed(k, ld.in)
  <2>1. k.sk \in {"CLOSED", "GONE"}
    BY <1>3 DEF Closed
  <2> QED BY <1>3, <2>1
<1> QED BY <1>1, <1>2, <1>3 DEF Connection

\* A new connection waits for the end of the handshake.
LEMMA InitInv == Init => Inv
<1> SUFFICES ASSUME Init PROVE Inv
  OBVIOUS
<1>1. load \in LOADS /\ Load(load) /\ peer = Silent
  BY Loads DEF Init, Silent
<1>2. PICK wnd \in load.windows : c = Accepted(wnd)
  BY DEF Init
<1>3. wnd \in Nat
  BY <1>1 DEF Load
<1>4. Handshake(c, load)
  BY <1>1, <1>2, <1>3, AcceptedHandshake DEF Load
<1> QED BY <1>1, <1>4 DEF Inv, Connection

\* The application writes.
LEMMA SndInv == Inv /\ Snd => Inv'
<1> SUFFICES ASSUME Inv, Snd PROVE Inv'
  OBVIOUS
<1>1. c.sk = "CONNECTED" /\ ~c.close /\ load' = load /\ peer' = peer
  BY DEF Snd
<1>2. load \in LOADS /\ Load(load) /\ Established(c, load) /\ Heard(c, peer)
  BY <1>1, Loads, Stages DEF Inv
<1>3. Block(c) /\ c.written \in Nat
  BY <1>2, EstablishedNumbers
<1>4. PICK n \in 1..(load.out - c.written), cwnd \in CWNDS :
        c' = IF c.sndwnd = 0
             THEN [[c EXCEPT !.send = @ + n, !.written = @ + n, !.insnd = TRUE] EXCEPT !.persist = TRUE]
             ELSE [SndLoop([c EXCEPT !.send = @ + n, !.written = @ + n, !.insnd = TRUE], cwnd)
                   EXCEPT !.insnd = FALSE]
  BY Zenon DEF Snd
<1>5. PICK w : w = Writes(c, n)
  OBVIOUS
<1>6. [c EXCEPT !.send = @ + n, !.written = @ + n, !.insnd = TRUE] = w
  BY <1>3, <1>5 DEF Writes, Block, Fields
<1>7. PICK e : e = c'
  OBVIOUS
<1>8. e = Sends(c, w, cwnd)
  BY <1>4, <1>6, <1>7, Zenon DEF Sends
<1>9. Written(e, c, load, n)
  BY <1>1, <1>2, <1>4, <1>5, <1>8, SndEstablished
<1>10. Established(e, load) /\ AckedTo(e) = AckedTo(c) /\ c.out \subseteq e.out
       /\ c.written <= e.written
  BY <1>3, <1>9 DEF Written
<1>11. Connection(e, load, peer)
  BY <1>2, <1>10, StaysHeard
<1> QED BY <1>1, <1>2, <1>7, <1>11 DEF Inv

\* The application reads.
LEMMA RcvInv == Inv /\ Rcv => Inv'
<1> SUFFICES ASSUME Inv, Rcv PROVE Inv'
  OBVIOUS
<1>1. c.sk # "GONE" /\ ~c.close /\ load' = load /\ peer' = peer
  BY DEF Rcv
<1>2. load \in LOADS /\ Load(load) /\ Connection(c, load, peer)
  BY Loads DEF Inv
<1>3. PICK n \in 1..c.recv :
        LET k == [c EXCEPT !.recv = @ - n, !.freed = @ + n]
        IN  c' = IF /\ c.sk = "CONNECTED"
                    /\ \/ k.freed >= 2 * RCVMSS \/ k.freed >= RCVMAX \div 2
                       \/ c.rcvwnd = 0
                 THEN SendAck(k) ELSE k
  BY Zenon DEF Rcv
<1>4. PICK e : e = c'
  OBVIOUS
<1>5. PICK r : r = Reads(c, n)
  OBVIOUS
<1>6. Block(c) => [c EXCEPT !.recv = @ - n, !.freed = @ + n] = r
  BY <1>5 DEF Reads, Block, Fields
<1>7. Block(c) => \/ e = SendAck(r) /\ c.sk = "CONNECTED"
                  \/ e = r /\ ~(c.sk = "CONNECTED" /\ r.freed >= Half)
  BY <1>3, <1>4, <1>6, Zenon DEF Half
<1>8. CASE Established(c, load) /\ Heard(c, peer)
  <2>1. Block(c) /\ c.freed \in Nat /\ c.recv \in 0..RCVMAX
    BY <1>8, EstablishedNumbers DEF Receiver, Window
  <2>2. r.freed \in Nat
    <3>1. r.freed = c.freed + n
      BY <1>5, <2>1, ReadsIs DEF ReadFacts
    <3> QED BY <2>1, <3>1
  <2>3. ~(r.freed >= Half) => r.freed < Half
    BY <2>2, HalfIs
  <2>4. e = SendAck(r) \/ (e = r /\ (c.sk # "CONNECTED" \/ r.freed < Half))
    BY <1>7, <2>1, <2>3, Zenon
  <2>5. Established(e, load) /\ Follows(e, c) /\ AckedTo(e) = AckedTo(c)
    BY <1>2, <1>5, <1>8, <2>4, RcvEstablished DEF Load
  <2>6. c.out \subseteq e.out /\ c.written <= e.written
    BY <1>8, <2>5, EstablishedNumbers DEF Follows
  <2>7. Connection(e, load, peer)
    BY <1>8, <2>5, <2>6, StaysHeard
  <2> QED BY <1>1, <1>2, <1>4, <2>7 DEF Inv
<1>9. CASE Handshake(c, load)
  BY <1>9 DEF Handshake
<1>10. CASE Closed(c, load.in)
  <2>1. Block(c) /\ c.sk # "CONNECTED"
    BY <1>10 DEF Closed
  <2>2. e = r
    BY <1>7, <2>1
  <2>3. Closed(e, load.in)
    BY <1>5, <1>10, <2>2, RcvClosed
  <2> QED BY <1>1, <1>2, <1>4, <2>3 DEF Inv, Connection
<1> QED BY <1>2, <1>8, <1>9, <1>10 DEF Connection

\* What follows an established connection and acknowledges nothing new stays heard.
LEMMA FollowsHeard ==
    ASSUME NEW k, NEW ld, NEW p, Established(k, ld), Heard(k, p),
           NEW e, Established(e, ld), Follows(e, k), AckedTo(e) = AckedTo(k)
    PROVE  Connection(e, ld, p)
<1>1. k.out \subseteq e.out /\ k.written <= e.written
  BY EstablishedNumbers DEF Follows
<1> QED BY <1>1, StaysHeard

\* The application closes.
LEMMA CloseInv == Inv /\ Close => Inv'
<1> SUFFICES ASSUME Inv, Close PROVE Inv'
  OBVIOUS
<1>1. c.sk \in {"CONNECTED", "CLOSING", "CLOSED"} /\ ~c.close /\ load' = load /\ peer' = peer
  BY DEF Close
<1>2. load \in LOADS /\ Load(load) /\ Connection(c, load, peer)
  BY Loads DEF Inv
<1>3. PICK e : e = c'
  OBVIOUS
<1>4. CASE c.sk = "CONNECTED"
  <2>1. PICK cwnd \in CWNDS :
          LET k == SendAnydata([c EXCEPT !.shut = TRUE], TRUE, FALSE, cwnd).k
          IN  c' = [k EXCEPT !.close = TRUE, !.recv = 0, !.rshut = @ \/ k.state # "TIME_WAIT"]
    BY <1>4, Zenon DEF Close
  <2>2. PICK s : s = SendAnydata(Shuts(c), TRUE, FALSE, cwnd)
    OBVIOUS
  <2>3. Established(c, load) /\ Heard(c, peer)
    BY <1>2, <1>4, Stages
  <2>4. e = [s.k EXCEPT !.close = TRUE, !.recv = 0, !.rshut = @ \/ s.k.state # "TIME_WAIT"]
    BY <1>3, <2>1, <2>2, Zenon DEF Shuts
  <2>5. Block(s.k)
    <3>1. Both(Shuts(c), load.in)
      BY <1>1, <1>4, <2>3, ShutsBoth
    <3>2. cwnd \in Nat /\ cwnd >= SNDMSS
      BY TcpConstants
    <3> QED BY <2>2, <3>1, <3>2, AnydataSender DEF Both, Receiver
  <2>6. e = Leave(s.k)
    BY <2>4, <2>5 DEF Leave, Block, Fields
  <2>7. /\ Established(e, load) /\ AckedTo(e) = AckedTo(c)
        /\ e.written = c.written /\ c.out \subseteq e.out
    BY <1>1, <1>2, <1>4, <2>1, <2>2, <2>3, <2>6, CloseEstablished DEF Load
  <2>8. c.written <= e.written
    BY <2>3, <2>7, EstablishedNumbers
  <2>9. Connection(e, load, peer)
    BY <2>3, <2>7, <2>8, StaysHeard
  <2> QED BY <1>1, <1>2, <1>3, <2>9 DEF Inv
<1>5. CASE c.sk # "CONNECTED"
  <2>1. PICK g : g = [c EXCEPT !.close = TRUE]
    OBVIOUS
  <2>2. e = CloseSocket(g)
    BY <1>3, <1>5, <2>1, Zenon DEF Close
  <2>3. Block(c)
    <3>1. CASE c.sk = "CLOSING"
      BY <1>2, <3>1, Stages, EstablishedNumbers
    <3>2. CASE c.sk = "CLOSED"
      BY <1>2, <3>2, Stages DEF Closed
    <3> QED BY <1>1, <1>5, <3>1, <3>2
  <2>4. g.close
    BY <2>1, <2>3 DEF Block, Fields
  <2>5. Closed(e, load.in)
    BY <2>2, <2>4, CloseSocketClosed
  <2> QED BY <1>1, <1>2, <1>3, <2>5 DEF Inv, Connection
<1> QED BY <1>4, <1>5

\* An open connection is established or waits for the end of the handshake.
LEMMA OpenStages ==
    ASSUME Inv, Open
    PROVE  /\ load \in LOADS /\ Load(load)
           /\ \/ Established(c, load) /\ Heard(c, peer) /\ c.state # "SYN_RCVD"
              \/ Handshake(c, load) /\ peer = Silent /\ c.sk = "CONNECTING" /\ c.state = "SYN_RCVD"
BY Loads, Stages DEF Inv, Open

\* The retransmission timer.
LEMMA RetransmissionInv == Inv /\ RetransmissionTimeout => Inv'
<1> SUFFICES ASSUME Inv, RetransmissionTimeout PROVE Inv'
  OBVIOUS
<1>1. Open /\ c.rexmit /\ load' = load /\ peer' = peer
  BY DEF RetransmissionTimeout
<1>2. load \in LOADS /\ Load(load)
  BY <1>1, OpenStages
<1>3. PICK e : e = c'
  OBVIOUS
<1>4. CASE Established(c, load) /\ Heard(c, peer) /\ c.state # "SYN_RCVD"
  <2>1. PICK s : s = SendAnydata(Rewound(c), FALSE, TRUE, SNDMSS)
    OBVIOUS
  <2>2. e = [s.k EXCEPT !.rexmit = TRUE]
    BY <1>3, <1>4, <2>1, Zenon DEF RetransmissionTimeout, Rewound
  <2>3. Established(e, load) /\ Follows(e, c) /\ AckedTo(e) = AckedTo(c)
    BY <1>2, <1>4, <2>1, <2>2, RexmitEstablished DEF Load
  <2>4. Connection(e, load, peer)
    BY <1>4, <2>3, FollowsHeard
  <2> QED BY <1>1, <1>2, <1>3, <2>4 DEF Inv
<1>5. CASE Handshake(c, load) /\ peer = Silent /\ c.state = "SYN_RCVD"
  <2>1. e = SendAck(c)
    BY <1>3, <1>5, Zenon DEF RetransmissionTimeout
  <2>2. Handshake(e, load)
    BY <1>2, <1>5, <2>1, AckHandshake DEF Load
  <2> QED BY <1>1, <1>2, <1>3, <1>5, <2>2 DEF Inv, Connection
<1> QED BY <1>1, <1>4, <1>5, OpenStages

\* The persist timer.
LEMMA PersistInv == Inv /\ PersistTimeout => Inv'
<1> SUFFICES ASSUME Inv, PersistTimeout PROVE Inv'
  OBVIOUS
<1>1. Open /\ c.persist /\ load' = load /\ peer' = peer
  BY DEF PersistTimeout
<1>2. load \in LOADS /\ Load(load) /\ Established(c, load) /\ Heard(c, peer)
  BY <1>1, OpenStages DEF Handshake
<1>3. PICK e : e = c'
  OBVIOUS
<1>4. CASE c.sndwnd = 0
  <2>1. e = Probes(c)
    BY <1>3, <1>4, Zenon DEF PersistTimeout, Probes
  <2>2. Established(e, load) /\ Follows(e, c) /\ AckedTo(e) = AckedTo(c)
    BY <1>1, <1>2, <2>1, ProbeEstablished DEF Load
  <2>3. Connection(e, load, peer)
    BY <1>2, <2>2, FollowsHeard
  <2> QED BY <1>1, <1>2, <1>3, <2>3 DEF Inv
<1>5. CASE c.sndwnd # 0
  <2>1. PICK cwnd \in CWNDS : e = SendAnydata([c EXCEPT !.persist = FALSE], FALSE, TRUE, cwnd).k
    BY <1>3, <1>5, Zenon DEF PersistTimeout
  <2>2. Established(e, load) /\ Follows(e, c) /\ AckedTo(e) = AckedTo(c)
    BY <1>2, <1>5, <2>1, PersistEstablished DEF Load
  <2>3. Connection(e, load, peer)
    BY <1>2, <2>2, FollowsHeard
  <2> QED BY <1>1, <1>2, <1>3, <2>3 DEF Inv
<1> QED BY <1>4, <1>5

\* The connection timer, the abort timer or a reset.
LEMMA EndsInv == Inv /\ ConnectionEnds => Inv'
<1> SUFFICES ASSUME Inv, ConnectionEnds PROVE Inv'
  OBVIOUS
<1>1. Open /\ load' = load /\ peer' = peer
  BY DEF ConnectionEnds
<1>2. PICK e : e = c'
  OBVIOUS
<1>3. e = CloseSocket(c)
  BY <1>2, Zenon DEF ConnectionEnds
<1>4. c.sk = "CONNECTING" \/ Got(c, load.in)
  BY <1>1, OpenStages, ReceiverGot, EstablishedNumbers
<1>5. Closed(e, load.in)
  BY <1>3, <1>4, CloseSocketClosed
<1> QED BY <1>1, <1>2, <1>5 DEF Inv, Connection

\* The peer's SYN again.
LEMMA DeliverSynInv == Inv /\ DeliverSyn => Inv'
<1> SUFFICES ASSUME Inv, DeliverSyn PROVE Inv'
  OBVIOUS
<1>1. Open /\ load' = load /\ peer' = peer
  BY DEF DeliverSyn
<1>2. load \in LOADS /\ Load(load)
  BY <1>1, OpenStages
<1>3. PICK e : e = c'
  OBVIOUS
<1>4. e = SendAck(c)
  BY <1>3, Zenon DEF DeliverSyn
<1>5. CASE Established(c, load) /\ Heard(c, peer)
  <2>1. Both(e, load.in) /\ Follows(e, c) /\ AckedTo(e) = AckedTo(c) /\ Timers(e) /\ Waits(e)
    BY <1>2, <1>4, <1>5, AckBoth DEF Established, Load
  <2>2. Called(e) /\ e.written <= load.out
    BY <1>5, <2>1, FollowsCalled DEF Established, Follows
  <2>3. Established(e, load)
    BY <2>1, <2>2 DEF Established
  <2>4. Connection(e, load, peer)
    BY <1>5, <2>1, <2>3, FollowsHeard
  <2> QED BY <1>1, <1>2, <1>3, <2>4 DEF Inv
<1>6. CASE Handshake(c, load) /\ peer = Silent
  <2>1. Handshake(e, load)
    BY <1>2, <1>4, <1>6, AckHandshake DEF Load
  <2> QED BY <1>1, <1>2, <1>3, <1>6, <2>1 DEF Inv, Connection
<1> QED BY <1>1, <1>5, <1>6, OpenStages

\* The peer takes a segment that goes on behind what it has.
LEMMA PeerTakesInv == Inv /\ PeerTakes => Inv'
<1> SUFFICES ASSUME Inv, PeerTakes PROVE Inv'
  OBVIOUS
<1>1. ~peer.fin /\ load' = load /\ c' = c
  BY DEF PeerTakes
<1>2. PICK s \in c.out :
        /\ s.at <= peer.got
        /\ s.at + s.len + (IF s.fin THEN 1 ELSE 0) > peer.got
        /\ peer' = [got |-> s.at + s.len, fin |-> s.fin]
  BY DEF PeerTakes
<1>3. load \in LOADS /\ Established(c, load) /\ Heard(c, peer)
  BY <1>2 DEF Inv, Connection, Handshake, Closed
<1>4. /\ c.written \in Nat /\ c.written + 1 < HALF /\ AckedTo(c) \in Nat /\ SegOK(s, c.written)
      /\ peer.got \in Nat /\ peer.got <= c.written /\ AckedTo(c) <= peer.got
  <2>1. Sender(c) /\ OutOK(c) /\ AckedTo(c) \in Nat /\ c.written \in Nat
    BY <1>3, EstablishedNumbers
  <2>2. peer.got \in Nat /\ peer.got <= c.written /\ AckedTo(c) <= peer.got + FinTaken(peer)
    BY <1>3 DEF Heard
  <2>3. FinTaken(peer) = 0
    BY <1>1 DEF FinTaken
  <2> QED BY <2>1, <2>2, <2>3 DEF Sender, OutOK
<1>5. s.at \in Nat /\ s.len \in Nat /\ s.at + s.len <= c.written
  <2>1. SNDMSS \in Nat /\ s.len \in 0..SNDMSS
    BY <1>4, TcpConstants DEF SegOK
  <2>2. CASE s.len > 0
    BY <1>4, <2>1, <2>2 DEF SegOK
  <2>3. CASE s.len = 0
    <3>1. s.at \in 0..(c.written + 1) \/ s.at = SEQ - 1
      BY <1>4, <2>3 DEF SegOK
    <3>2. s.at # SEQ - 1
      BY <1>2, <1>4, Sizes
    <3> QED BY <1>2, <1>4, <2>3, <3>1, <3>2
  <2> QED BY <2>1, <2>2, <2>3
<1>6. PICK p : p = [got |-> s.at + s.len, fin |-> s.fin]
  OBVIOUS
<1>7. p.got = s.at + s.len /\ p.fin = s.fin /\ FinTaken(p) = IF s.fin THEN 1 ELSE 0
  BY <1>6 DEF FinTaken
<1>8. p.got \in Nat /\ p.got <= c.written /\ AckedTo(c) <= p.got + FinTaken(p)
  BY <1>2, <1>4, <1>5, <1>7
<1>9. Heard(c, p)
  BY <1>7, <1>8 DEF Heard
<1> QED BY <1>1, <1>2, <1>3, <1>6, <1>9 DEF Inv, Connection

\* The positions that the peer may acknowledge.
LEMMA AcksAre ==
    ASSUME Established(c, load), Heard(c, peer), NEW ack \in Acks
    PROVE  OutAt(ack) \in Nat /\ OutAt(ack) <= peer.got + FinTaken(peer) /\ OutAt(ack) <= c.written + 1
<1>1. PICK a \in 0..(peer.got + FinTaken(peer)) : ack = Plus(ISS, 1 + a)
  BY DEF Acks, FinTaken
<1>2. /\ c.written \in Nat /\ c.written + 1 < HALF /\ peer.got \in Nat /\ peer.got <= c.written
      /\ FinTaken(peer) \in {0, 1}
  BY EstablishedNumbers DEF Sender, Heard, FinTaken
<1>3. a \in 0..(SEQ - 2)
  BY <1>2, Sizes
<1>4. OutAt(ack) = a
  BY <1>1, <1>3, OutNumber
<1> QED BY <1>2, <1>4

\* The acknowledgements are numbers.
LEMMA AcksNumbers ==
    ASSUME peer.got \in Nat, peer.got + 1 < HALF, NEW ack \in Acks
    PROVE  ack \in Numbers
<1>1. PICK a \in 0..(peer.got + FinTaken(peer)) : ack = Plus(ISS, 1 + a)
  BY DEF Acks, FinTaken
<1>2. FinTaken(peer) \in {0, 1}
  BY DEF FinTaken
<1>3. a \in 0..(SEQ - 2)
  BY <1>2, Sizes
<1> QED BY <1>1, <1>3, OutNumber

\* What the peer sends may come.
LEMMA PeerSegments ==
    ASSUME Load(load), peer.got \in Nat, peer.got + 1 < HALF,
           NEW from \in 0..load.in, NEW len \in 0..RCVMSS, NEW fin \in BOOLEAN,
           from + len <= load.in, fin => from + len = load.in, InWindow(from, len, fin),
           NEW seg \in PeerSends(from, len, fin)
    PROVE  Comes(seg, c, load.in) /\ seg.ack \in Acks
<1>1. /\ seg \in [seq : {Plus(IRS, 1 + from)}, pos : {from}, len : {len}, fin : {fin},
                  ack : Acks, wnd : load.windows, psh : IF len = 0 THEN {FALSE} ELSE BOOLEAN]
  BY Zenon DEF PeerSends
<1>2. (IF len = 0 THEN {FALSE} ELSE BOOLEAN) \in SUBSET BOOLEAN
  BY Zenon
<1>3. PICK seq : seq = Plus(IRS, 1 + from)
  OBVIOUS
<1>4. seg \in [seq : {seq}, pos : {from}, len : {len}, fin : {fin},
               ack : Acks, wnd : load.windows, psh : BOOLEAN]
  BY <1>1, <1>2, <1>3
<1>5. /\ seg.seq = seq /\ seg.pos = from /\ seg.len = len /\ seg.fin = fin
      /\ seg.ack \in Acks
  BY <1>4
<1>6. from \in Nat /\ len \in Nat /\ from \in 0..(SEQ - 2) /\ load.in \in Nat
  BY Sizes, TcpConstants DEF Load, Reach
<1>7. seq \in Numbers /\ InAt(seq) = from
  BY <1>3, <1>6, InNumber
<1>8. seg.ack \in Numbers
  BY <1>5, AcksNumbers
<1>9. load.windows \in SUBSET Nat
  BY DEF Load
<1>10. seg \in Segments
  BY <1>4, <1>6, <1>7, <1>8, <1>9 DEF Segments
<1>11. InWindow(seg.pos, seg.len, seg.fin)
  BY <1>5
<1> QED BY <1>5, <1>7, <1>10, <1>11 DEF Comes, InWindow

\* A segment of the peer arrives.
LEMMA DeliverInv == Inv /\ Deliver => Inv'
<1> SUFFICES ASSUME Inv, Deliver PROVE Inv'
  OBVIOUS
<1>1. Open /\ load' = load /\ peer' = peer
  BY DEF Deliver
<1>2. load \in LOADS /\ Load(load)
  BY <1>1, OpenStages
<1>3. PICK e : e = c'
  OBVIOUS
<1>4. PICK from \in 0..load.in, len \in 0..RCVMSS, fin \in BOOLEAN :
        /\ from + len <= load.in
        /\ fin => from + len = load.in
        /\ InWindow(from, len, fin)
        /\ \E seg \in PeerSends(from, len, fin) : \E ch \in StepChoices(seg) : c' = Inputsk(c, seg, ch)
  BY Zenon DEF Deliver
<1>5. PICK seg \in PeerSends(from, len, fin) : \E ch \in StepChoices(seg) : c' = Inputsk(c, seg, ch)
  BY <1>4
<1>6. PICK ch \in StepChoices(seg) : c' = Inputsk(c, seg, ch)
  BY <1>5
<1>7. e = Inputsk(c, seg, ch)
  BY <1>3, <1>6
<1>8. ch.cwnd \in CWNDS
  BY <1>6 DEF StepChoices
<1>9. peer.got \in Nat /\ peer.got + 1 < HALF
  <2>1. CASE Established(c, load) /\ Heard(c, peer)
    <3>1. c.written \in Nat /\ c.written + 1 < HALF
      BY <2>1, EstablishedNumbers DEF Sender
    <3> QED BY <2>1, <3>1, Sizes DEF Heard
  <2>2. CASE peer = Silent
    <3>1. load.out \in Nat /\ load.out + 1 < HALF
      BY <1>2 DEF Load
    <3> QED BY <2>2, <3>1, Sizes DEF Silent
  <2> QED BY <1>1, <2>1, <2>2, OpenStages
<1>10. Comes(seg, c, load.in) /\ seg.ack \in Acks
  BY <1>2, <1>4, <1>5, <1>9, PeerSegments
<1>11. CASE Established(c, load) /\ Heard(c, peer)
  <2>1. OutAt(seg.ack) \in Nat /\ OutAt(seg.ack) <= peer.got + FinTaken(peer)
        /\ OutAt(seg.ack) <= c.written + 1
    BY <1>10, <1>11, AcksAre
  <2>2. Goes(e, c, load, seg.ack)
    BY <1>2, <1>7, <1>8, <1>10, <1>11, <2>1, InputEstablished DEF Load
  <2>3. CASE Closed(e, load.in)
    BY <1>1, <1>2, <1>3, <2>3 DEF Inv, Connection
  <2>4. CASE /\ Established(e, load) /\ Follows(e, c)
             /\ AckedTo(e) = AckedTo(c) \/ AckedTo(e) = OutAt(seg.ack)
    <3>1. /\ c.written \in Nat /\ e.written \in Nat /\ AckedTo(e) \in Nat
          /\ c.written <= e.written /\ c.out \subseteq e.out
      BY <1>11, <2>4, EstablishedNumbers DEF Follows
    <3>2. AckedTo(e) <= peer.got + FinTaken(peer)
      BY <1>11, <2>1, <2>4 DEF Heard
    <3>3. Heard(e, peer)
      BY <1>11, <3>1, <3>2, HeardFollows
    <3> QED BY <1>1, <1>2, <1>3, <2>4, <3>3 DEF Inv, Connection
  <2> QED BY <2>2, <2>3, <2>4 DEF Goes
<1>12. CASE Handshake(c, load) /\ peer = Silent
  <2>1. Begins(e, load)
    BY <1>2, <1>7, <1>8, <1>10, <1>12, InputHandshake DEF Load
  <2>2. CASE Handshake(e, load)
    BY <1>1, <1>2, <1>3, <1>12, <2>2 DEF Inv, Connection
  <2>3. CASE Established(e, load) /\ e.written = 0 /\ AckedTo(e) = 0
    <3>1. Heard(e, peer)
      BY <1>12, <2>3 DEF Heard, Silent, FinTaken
    <3> QED BY <1>1, <1>2, <1>3, <2>3, <3>1 DEF Inv, Connection
  <2> QED BY <2>1, <2>2, <2>3 DEF Begins
<1> QED BY <1>1, <1>11, <1>12, OpenStages

\* The inductive invariant holds.
LEMMA AlwaysInv == Spec => []Inv
<1>1. Inv /\ [Next]_vars => Inv'
  <2> SUFFICES ASSUME Inv, [Next]_vars PROVE Inv'
    OBVIOUS
  <2>1. CASE Next
    BY <2>1, SndInv, RcvInv, CloseInv, RetransmissionInv, PersistInv, EndsInv, PeerTakesInv,
       DeliverInv, DeliverSynInv DEF Next
  <2>2. CASE UNCHANGED vars
    BY <2>2 DEF vars, Inv
  <2> QED BY <2>1, <2>2
<1> QED BY InitInv, <1>1, PTL DEF Spec

-----------------------------------------------------------------------------
(***************************************************************************)
(* What follows from it.                                                   *)
(***************************************************************************)

\* In each stage the control block has the types of its fields.
LEMMA InvTypes == Inv => TypeOK
<1> SUFFICES ASSUME Inv PROVE TypeOK
  OBVIOUS
<1>1. load.out \in Nat
  BY Loads DEF Inv, Load
<1>2. CASE Established(c, load)
  <2>1. Receiver(c, load.in) /\ Sender(c) /\ OutNumbers(c) /\ OutOK(c) /\ c.written \in Nat
    BY <1>2, EstablishedNumbers
  <2>2. /\ c.state \in {"SYN_RCVD", "ESTABLISHED", "CLOSE_WAIT", "FIN_WAIT_1", "FIN_WAIT_2",
                        "CLOSING", "LAST_ACK", "TIME_WAIT"}
        /\ c.sk \in {"CONNECTING", "CONNECTED", "CLOSING", "CLOSED", "GONE"}
    BY <2>1 DEF Receiver, Phase
  <2>3. c.sndack \in Numbers /\ c.rcvwnd \in 0..RCVMAX /\ c.recv \in 0..RCVMAX
    BY <2>1 DEF Receiver, Window
  <2>4. c.send \in 0..load.out
    <3>1. c.send \in Nat /\ c.send <= c.written
      BY <2>1, RestIs
    <3>2. c.written <= load.out
      BY <1>2 DEF Established
    <3> QED BY <1>1, <2>1, <3>1, <3>2
  <2>5. \A s \in c.out : s.len \in 0..SNDMSS
    BY <2>1 DEF OutOK, SegOK
  <2> QED BY <2>1, <2>2, <2>3, <2>4, <2>5 DEF OutNumbers, TypeOK
<1>3. CASE Handshake(c, load)
  <2>1. Receiver(c, load.in) /\ c.state = "SYN_RCVD" /\ c.send = 0 /\ c.out = {}
    BY <1>3 DEF Handshake
  <2>2. {c.sndseq, c.maxrcvack, c.rcvack} \subseteq Numbers
    BY <1>3, FirstNumbers DEF Handshake
  <2>3. /\ c.sk \in {"CONNECTING", "CONNECTED", "CLOSING", "CLOSED", "GONE"}
        /\ c.sndack \in Numbers /\ c.rcvwnd \in 0..RCVMAX /\ c.recv \in 0..RCVMAX
    BY <2>1 DEF Receiver, Phase, Window
  <2> QED BY <1>1, <2>1, <2>2, <2>3 DEF TypeOK
<1>4. CASE Closed(c, load.in)
  BY <1>1, <1>4 DEF Closed, TypeOK
<1> QED BY <1>2, <1>3, <1>4 DEF Inv, Connection

\* What comes in is the peer's stream.
LEMMA InvReceives == Inv => ReceivesStream
<1> SUFFICES ASSUME Inv PROVE ReceivesStream
  OBVIOUS
<1>1. CASE Receiver(c, load.in)
  <2>1. c.stream \in Seq(Nat) /\ \A i \in 1..Len(c.stream) : c.stream[i] = i
    BY <1>1 DEF Receiver, Stream
  <2>2. InAt(c.sndack) = Len(c.stream) + (IF c.finRcvd THEN 1 ELSE 0)
    BY <1>1 DEF Receiver, Window, Awaited, FinOf
  <2>3. c.finRcvd => Len(c.stream) = load.in
    BY <1>1 DEF Receiver, Stream
  <2> QED BY <2>1, <2>2, <2>3 DEF ReceivesStream
<1>2. CASE Closed(c, load.in)
  <2>1. c.stream \in Seq(Nat) /\ \A i \in 1..Len(c.stream) : c.stream[i] = i
    BY <1>2 DEF Closed
  <2>2. c.sk # "GONE" => InAt(c.sndack) = Len(c.stream) + (IF c.finRcvd THEN 1 ELSE 0)
    BY <1>2 DEF Closed, Awaited, FinOf
  <2>3. c.finRcvd => Len(c.stream) = load.in
    BY <1>2 DEF Closed
  <2>4. \A i \in DOMAIN c.stream : c.stream[i] = i
    BY <2>1
  <2> QED BY <2>2, <2>3, <2>4, Zenon DEF ReceivesStream
<1> QED BY <1>1, <1>2, EstablishedNumbers DEF Inv, Connection, Handshake

\* What goes out is what was written.
LEMMA InvSends == Inv => SendsStream
<1> SUFFICES ASSUME Inv PROVE SendsStream
  OBVIOUS
<1>1. CASE Established(c, load) /\ Heard(c, peer)
  <2>1. /\ Sender(c) /\ OutOK(c) /\ Positions(c) /\ c.written \in Nat /\ AckedTo(c) \in Nat
    BY <1>1, EstablishedNumbers
  <2>2. \A s \in c.out : s.len > 0 => s.pos = s.at
    BY <2>1 DEF OutOK, SegOK
  <2>3. ASSUME ~EarlyFin PROVE NothingLost
    <3>1. /\ AckedTo(c) <= c.written + 1
          /\ c.send = IF AckedTo(c) <= c.written THEN c.written - AckedTo(c) ELSE 0
      BY <2>1 DEF Positions
    <3>2. peer.got \in Nat /\ AckedTo(c) <= peer.got + FinTaken(peer) /\ peer.got <= c.written
      BY <1>1 DEF Heard
    <3>3. CASE peer.fin
      <4>1. PICK s \in c.out : s.fin /\ s.at + s.len = peer.got
        BY <1>1, <3>3 DEF Heard
      <4>2. peer.got = c.written
        BY <2>3, <4>1 DEF EarlyFin
      <4>3. c.written - c.send <= peer.got
        BY <2>1, <3>1, <4>2
      <4> QED BY <4>3 DEF NothingLost
    <3>4. CASE ~peer.fin
      <4>1. AckedTo(c) <= peer.got
        BY <2>1, <3>2, <3>4 DEF FinTaken
      <4>2. c.written - c.send <= peer.got
        BY <2>1, <3>1, <3>2, <4>1
      <4> QED BY <4>2 DEF NothingLost
    <3> QED BY <3>3, <3>4
  <2> QED BY <2>2, <2>3 DEF SendsStream
<1>2. CASE Handshake(c, load) /\ peer = Silent
  <2>1. c.out = {} /\ c.written = 0 /\ c.send = 0 /\ peer.got = 0
    BY <1>2 DEF Handshake, Silent
  <2> QED BY <2>1 DEF SendsStream, NothingLost
<1>3. CASE Closed(c, load.in)
  <2>1. c.out = {} /\ ~Open
    BY <1>3 DEF Closed, Open
  <2> QED BY <2>1 DEF SendsStream, NothingLost
<1> QED BY <1>1, <1>2, <1>3 DEF Inv, Connection

\* Nobody waits for nothing.
LEMMA InvStalls == Inv => NeverStalls
<1> SUFFICES ASSUME Inv PROVE NeverStalls
  OBVIOUS
<1>1. CASE Established(c, load)
  <2>1. c.send > 0 => c.rexmit \/ c.persist \/ ConnectionTimer
    BY <1>1 DEF Established, Waits, ConnectionTimer
  <2>2. ASSUME c.sk = "CONNECTED", ~c.close, c.recv = 0
        PROVE  c.edge > InAt(c.sndack)
    <3>1. Receiver(c, load.in) /\ Called(c)
      BY <1>1 DEF Established, Both
    <3>2. ~c.finRcvd
      BY <2>2, <3>1 DEF Called, Receiver, Phase
    <3>3. /\ InAt(c.sndack) = Awaited(c) /\ Len(c.stream) \in Nat /\ c.edge \in Nat
          /\ c.freed \in Nat
      BY <3>1 DEF Receiver, Window
    <3>4. Awaited(c) \in Nat
      <4>1. FinOf(c) = 0 /\ Awaited(c) = Len(c.stream) + FinOf(c)
        BY <3>2 DEF FinOf, Awaited
      <4> QED BY <3>3, <4>1
    <3>5. /\ c.edge + c.recv + c.freed + Slack >= Awaited(c) + RCVMAX
          /\ c.freed = 0 \/ c.freed < Half
      BY <2>2, <3>1, <3>2 DEF Receiver, Opens
    <3> QED BY <2>2, <3>3, <3>4, <3>5, HalfIs DEF Slack
  <2> QED BY <2>1, <2>2 DEF NeverStalls
<1>2. CASE Handshake(c, load)
  <2>1. c.send = 0 /\ c.sk # "CONNECTED"
    BY <1>2 DEF Handshake, Receiver, Phase
  <2> QED BY <2>1 DEF NeverStalls
<1>3. CASE Closed(c, load.in)
  BY <1>3 DEF Closed, Open, NeverStalls
<1> QED BY <1>1, <1>2, <1>3 DEF Inv, Connection

\* The control block keeps its types: no counter of the buffers leaves its range and
\* no number the number space.
THEOREM TypeCorrect == Spec => []TypeOK
BY AlwaysInv, InvTypes, PTL

\* What the application reads is the peer's stream from its first byte on, without a
\* gap, a repetition or a byte out of place, and what was acknowledged was received,
\* for every size of the number space, the buffers, the segments and the windows.
THEOREM ReceivedAsSent == Spec => []ReceivesStream
BY AlwaysInv, InvReceives, PTL

\* Every byte goes out under its own number, and the send buffer lets go only of
\* those that the peer has, on a connection whose FIN was sent behind them all.
THEOREM SentAsWritten == Spec => []SendsStream
BY AlwaysInv, InvSends, PTL

\* While bytes wait a timer runs, and an application that has read all there is has
\* told the peer of a window.
THEOREM NobodyStalls == Spec => []NeverStalls
BY AlwaysInv, InvStalls, PTL
=============================================================================
