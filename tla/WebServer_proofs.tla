--------------------------- MODULE WebServer_proofs ---------------------------
(***************************************************************************)
(* For any number of slots, sockets and clients, although poll() exchanges *)
(* the socket of a slot from the interrupt, between any two steps of the   *)
(* thread: every socket has one owner; only resets cost slots; while no    *)
(* client ends its connection early, the service reads all it was sent;    *)
(* the types are right; and no client gets more than one answer.           *)
(***************************************************************************)
EXTENDS WebServer, WellFoundedInduction, FiniteSetTheorems, SequenceTheorems, TLAPS

\* A set of naturals that is not empty has a least element: the slot
\* or socket that a search finds.
LEMMA LeastNatural ==
    ASSUME NEW S \in SUBSET Nat, S # {}
    PROVE  \E x \in S : \A y \in S : x <= y
<1>1. PICK x \in S : \A y \in S : <<y, x>> \notin OpToRel(<, Nat)
  BY NatLessThanWellFounded, WFMin, Zenon
<1>2. ASSUME NEW y \in S PROVE x <= y
  <2>1. x \in Nat /\ y \in Nat
    OBVIOUS
  <2>2. ~(y < x)
    BY <1>1, <2>1, Zenon DEF OpToRel
  <2> QED BY <2>1, <2>2
<1> QED BY <1>2

InUse(s) == sock[s].state # "UNUSED"

\* A socket and the thread are records of these fields, whatever is in them.
IsSocket(r) ==
    r = [state |-> r.state, peer |-> r.peer, head |-> r.head,
         received |-> r.received, reset |-> r.reset]

IsThread(r) ==
    r = [pc |-> r.pc, i |-> r.i, status |-> r.status, listening |-> r.listening,
         found |-> r.found, entry |-> r.entry, remaining |-> r.remaining, text |-> r.text]

SocketRecords ==
    /\ sock = [s \in Socks |-> sock[s]]
    /\ \A s \in Socks :
        /\ IsSocket(sock[s])
        /\ ~InUse(s) => sock[s] = Unused
        /\ sock[s].state = "SS_LISTENING" => sock[s].peer = "nobody" /\ sock[s].head = 0

SlotRecords == slot \in [Slots -> [ptr : Socks \union {0}, port : BOOLEAN]]

\* A socket in use has the slot that points to it, or waits at a socket that
\* listens, alone.
Owners ==
    /\ \A i \in Slots : slot[i].ptr # 0 => InUse(slot[i].ptr) /\ sock[slot[i].ptr].head = 0
    /\ \A i, j \in Slots : slot[i].ptr = slot[j].ptr /\ slot[i].ptr # 0 => i = j
    /\ \A s \in Socks : InUse(s) /\ sock[s].head = 0 => \E i \in Slots : slot[i].ptr = s
    /\ \A s \in Socks : InUse(s) /\ sock[s].head # 0 =>
          sock[s].head \in Socks /\ sock[sock[s].head].state = "SS_LISTENING"
    /\ \A s, q \in Socks : InUse(s) /\ InUse(q) /\ sock[s].head = sock[q].head
                              /\ sock[s].head # 0 => s = q

Listens(i) == slot[i].ptr # 0 /\ sock[slot[i].ptr].state = "SS_LISTENING"

\* The thread at a step that uses a slot's socket finds one there.
Uses ==
    /\ IsThread(th)
    /\ th.i \in 1..(SLOTS + 1) /\ th.found \in Slots \union {0}
    /\ th.pc \in {"act", "listen", "mark", "register", "assign"} => th.i \in Slots
    /\ th.pc = "act" /\ th.status \in {"ESTABLISHED", "CLOSE_WAIT"} => slot[th.i].ptr # 0
    /\ th.pc \in {"listen", "mark", "register", "assign"} => slot[th.i].ptr # 0
    /\ th.pc = "listen" => /\ ~slot[th.i].port
                           /\ sock[slot[th.i].ptr].state = "SS_CLOSED"
                           /\ sock[slot[th.i].ptr].peer = "nobody"
    /\ th.pc \in {"available", "head", "body", "stop"} =>
          th.found \in Slots /\ slot[th.found].ptr # 0

\* The thread makes a listening socket only when there is none: the scan has not
\* passed over one.
OneListens ==
    /\ \A i \in Slots : Listens(i) => slot[i].port \/ (th.pc = "mark" /\ th.i = i)
    /\ th.pc \in {"scan", "act"} /\ ~th.listening => \A i \in Slots : Listens(i) => i >= th.i
    /\ th.pc = "act" /\ th.status # "LISTEN" => ~Listens(th.i)
    /\ th.pc \in {"socketBegin", "listen"} => \A i \in Slots : ~Listens(i)

IInv == SocketRecords /\ SlotRecords /\ Owners /\ Uses /\ OneListens

-----------------------------------------------------------------------------
\* Sockets and slots are numbered from 1.
LEMMA Numbered == Socks \subseteq Nat \ {0} /\ Slots \subseteq Nat \ {0}
BY SocketConstants, ServerConstants DEF Socks, Slots

\* The invariant gives every socket in use exactly one owner.
LEMMA OwnersAreOne == IInv => OneOwner
<1> SUFFICES ASSUME IInv PROVE OneOwner
  OBVIOUS
<1>1. ASSUME NEW s \in Socks, InUse(s)
      PROVE  Cardinality({i \in Slots : slot[i].ptr = s})
               + Cardinality({l \in Socks : sock[s].head = l /\ sock[l].state = "SS_LISTENING"}) = 1
  <2> DEFINE A == {i \in Slots : slot[i].ptr = s}
             B == {l \in Socks : sock[s].head = l /\ sock[l].state = "SS_LISTENING"}
  <2>0. s # 0
    BY Numbered
  <2>1. CASE sock[s].head = 0
    <3>1. PICK i \in Slots : slot[i].ptr = s
      BY <1>1, <2>1 DEF IInv, Owners
    <3>2. A = {i}
      BY <2>0, <3>1 DEF IInv, Owners
    <3>3. B = {}
      BY <2>1, Numbered
    <3>4. Cardinality(A) = 1 /\ Cardinality(B) = 0
      BY <3>2, <3>3, FS_Singleton, FS_EmptySet
    <3> QED BY <3>4
  <2>2. CASE sock[s].head # 0
    <3>1. A = {}
      BY <2>0, <2>2 DEF IInv, Owners
    <3>2. B = {sock[s].head}
      BY <1>1, <2>2 DEF IInv, Owners
    <3>3. Cardinality(A) = 0 /\ Cardinality(B) = 1
      BY <3>1, <3>2, FS_Singleton, FS_EmptySet
    <3> QED BY <3>3
  <2> QED BY <2>1, <2>2
<1>2. ASSUME NEW i \in Slots, slot[i].ptr # 0 PROVE sock[slot[i].ptr].state # "UNUSED"
  BY <1>2 DEF IInv, Owners, InUse
<1> QED BY <1>1, <1>2 DEF OneOwner, InUse

-----------------------------------------------------------------------------
(***************************************************************************)
(* What the operations do to the owners.                                   *)
(***************************************************************************)
Links == SocketRecords /\ SlotRecords /\ Owners

\* Changing other fields of a socket than these three.
LEMMA FieldsStay ==
    ASSUME NEW r, IsSocket(r), NEW m, NEW b
    PROVE  /\ IsSocket([r EXCEPT !.received = m])
           /\ [r EXCEPT !.received = m].state = r.state
           /\ [r EXCEPT !.received = m].peer = r.peer
           /\ [r EXCEPT !.received = m].head = r.head
           /\ IsSocket([r EXCEPT !.reset = b])
           /\ [r EXCEPT !.reset = b].state = r.state
           /\ [r EXCEPT !.reset = b].peer = r.peer
           /\ [r EXCEPT !.reset = b].head = r.head
<1>1. PICK st, pe, he, rec, re :
         r = [state |-> st, peer |-> pe, head |-> he, received |-> rec, reset |-> re]
  BY DEF IsSocket
<1>2. [r EXCEPT !.received = m] =
         [state |-> st, peer |-> pe, head |-> he, received |-> m, reset |-> re]
  BY <1>1
<1>3. [r EXCEPT !.reset = b] =
         [state |-> st, peer |-> pe, head |-> he, received |-> rec, reset |-> b]
  BY <1>1
<1> QED BY <1>1, <1>2, <1>3 DEF IsSocket

\* No socket changes its state, its other end or its queue, and no slot its socket.
SameLinks ==
    /\ sock' = [s \in Socks |-> sock'[s]]
    /\ \A s \in Socks :
        /\ IsSocket(sock'[s])
        /\ sock'[s].state = sock[s].state /\ sock'[s].peer = sock[s].peer
        /\ sock'[s].head = sock[s].head
        /\ ~InUse(s) => sock'[s] = sock[s]
    /\ SlotRecords'
    /\ \A i \in Slots : slot'[i].ptr = slot[i].ptr

\* The links of sockets and slots are all that the owners depend on.
LEMMA SameLinksKeep ==
    ASSUME Links, SameLinks
    PROVE  Links' /\ \A i \in Slots : Listens(i)' <=> Listens(i)
<1>1. \A s \in Socks : InUse(s)' <=> InUse(s)
  BY DEF SameLinks, InUse
<1>2. SocketRecords'
  BY <1>1 DEF Links, SameLinks, SocketRecords
<1>3. \A i \in Slots : slot[i].ptr \in Socks \union {0}
  BY DEF Links, SlotRecords
<1>4. Owners'
  BY <1>1, <1>3 DEF Links, SameLinks, Owners
<1>5. \A i \in Slots : Listens(i)' <=> Listens(i)
  BY <1>3 DEF SameLinks, Listens
<1> QED BY <1>2, <1>4, <1>5 DEF Links, SameLinks

\* Nothing changes.
LEMMA StayKeeps ==
    ASSUME Links, UNCHANGED <<sock, slot>>
    PROVE  Links' /\ \A i \in Slots : Listens(i)' <=> Listens(i)
BY DEF Links, SocketRecords, SlotRecords, Owners, Listens, InUse

\* One socket in use gets another content.
LEMMA ContentKeeps ==
    ASSUME Links, NEW s \in Socks, InUse(s), NEW r, IsSocket(r),
           r.state = sock[s].state, r.peer = sock[s].peer, r.head = sock[s].head,
           sock' = [sock EXCEPT ![s] = r], slot' = slot
    PROVE  Links' /\ \A i \in Slots : Listens(i)' <=> Listens(i)
<1>1. \A q \in Socks : sock'[q] = IF q = s THEN r ELSE sock[q]
  BY DEF Links, SocketRecords
<1>2. sock' = [q \in Socks |-> sock'[q]]
  BY DEF Links, SocketRecords
<1>3. SameLinks
  BY <1>1, <1>2 DEF Links, SocketRecords, SlotRecords, SameLinks
<1> QED BY <1>3, SameLinksKeep

\* Receiving from the socket of a slot.
LEMMA RecvKeeps ==
    ASSUME Links, NEW i \in Slots, slot[i].ptr # 0, Recv(slot[i].ptr), slot' = slot
    PROVE  Links' /\ \A j \in Slots : Listens(j)' <=> Listens(j)
<1> DEFINE s == slot[i].ptr
           r == [sock[s] EXCEPT !.reset = @ /\ ~RecvFails(s), !.received = << >>]
<1>1. s \in Socks /\ InUse(s)
  BY DEF Links, SlotRecords, Owners
<1>2. sock' = [sock EXCEPT ![s] = r]
  BY DEF Recv
<1>3. IsSocket(r) /\ r.state = sock[s].state /\ r.peer = sock[s].peer /\ r.head = sock[s].head
  <2> DEFINE r1 == [sock[s] EXCEPT !.reset = @ /\ ~RecvFails(s)]
  <2>1. IsSocket(sock[s])
    BY <1>1 DEF Links, SocketRecords
  <2>2. IsSocket(r1) /\ r1.state = sock[s].state /\ r1.peer = sock[s].peer /\ r1.head = sock[s].head
    BY <2>1, FieldsStay
  <2>3. r = [r1 EXCEPT !.received = << >>]
    OBVIOUS
  <2> HIDE DEF r1, r
  <2> QED BY <2>2, <2>3, FieldsStay
<1> HIDE DEF s, r
<1>4. Links' /\ \A j \in Slots : Listens(j)' <=> Listens(j)
  BY <1>1, <1>2, <1>3, ContentKeeps
<1> QED BY <1>4

\* Sending on the socket of a slot.
LEMMA SendKeeps ==
    ASSUME Links, NEW i \in Slots, slot[i].ptr # 0, NEW what, Send(slot[i].ptr, what), slot' = slot
    PROVE  Links' /\ \A j \in Slots : Listens(j)' <=> Listens(j)
<1>1. CASE sock[slot[i].ptr].state = "SS_CONNECTED"
  BY <1>1, StayKeeps DEF Send
<1>2. CASE sock[slot[i].ptr].state # "SS_CONNECTED"
  <2> DEFINE s == slot[i].ptr
             r == [sock[s] EXCEPT !.reset = FALSE]
  <2>1. s \in Socks /\ InUse(s)
    BY DEF Links, SlotRecords, Owners
  <2>2. sock' = [sock EXCEPT ![s] = r]
    BY <1>2 DEF Send
  <2>3. IsSocket(r) /\ r.state = sock[s].state /\ r.peer = sock[s].peer /\ r.head = sock[s].head
    <3>1. IsSocket(sock[s])
      BY <2>1 DEF Links, SocketRecords
    <3> QED BY <3>1, FieldsStay
  <2> HIDE DEF s, r
  <2>4. Links' /\ \A j \in Slots : Listens(j)' <=> Listens(j)
    BY <2>1, <2>2, <2>3, ContentKeeps
  <2> QED BY <2>4
<1> QED BY <1>1, <1>2

\* Closing the socket of a slot, with what waits at it, and forgetting it.
LEMMA DisconnectKeeps ==
    ASSUME Links, NEW i \in Slots, slot[i].ptr # 0, Disconnect(i)
    PROVE  /\ Links'
           /\ \A j \in Slots : Listens(j)' => Listens(j)
           /\ \A j \in Slots \ {i} : slot'[j] = slot[j]
           /\ slot'[i].port = slot[i].port
<1> DEFINE s == slot[i].ptr
           gone == {s} \union Incoming(s)
<1>1. s \in Socks /\ InUse(s) /\ sock[s].head = 0 /\ gone \subseteq Socks
  BY DEF Links, SlotRecords, Owners, Incoming
<1>2. \A q \in Socks : sock'[q] = IF q \in gone THEN Unused ELSE sock[q]
  BY DEF Disconnect, Close
<1>3. sock' = [q \in Socks |-> sock'[q]]
  BY DEF Disconnect, Close
<1>4. IsSocket(Unused) /\ Unused.state = "UNUSED" /\ Unused.head = 0
  BY DEF IsSocket, Unused
<1>5. slot' = [slot EXCEPT ![i].ptr = 0]
  BY DEF Disconnect
<1>6. \A q \in Socks : q \in gone <=> (q = s \/ (InUse(q) /\ sock[q].head = s))
  BY DEF Incoming, InUse
<1>7. /\ \A j \in Slots \ {i} : slot'[j] = slot[j]
      /\ slot'[i].ptr = 0 /\ slot'[i].port = slot[i].port
      /\ SlotRecords'
  BY <1>5 DEF Links, SlotRecords
<1> HIDE DEF gone
<1>8. SocketRecords'
  BY <1>2, <1>3, <1>4 DEF Links, SocketRecords, InUse
<1>9. \A q \in Socks : InUse(q)' <=> InUse(q) /\ q \notin gone
  BY <1>2, <1>4 DEF InUse
<1>10. \A j \in Slots \ {i} : slot[j].ptr # 0 => slot[j].ptr \in Socks /\ slot[j].ptr \notin gone
  BY <1>1, <1>6 DEF Links, SlotRecords, Owners
<1>11. Owners'
  <2>1. \A j \in Slots : slot'[j].ptr # 0 =>
           sock'[slot'[j].ptr].state # "UNUSED" /\ sock'[slot'[j].ptr].head = 0
    <3> TAKE j \in Slots
    <3> HAVE slot'[j].ptr # 0
    <3>1. slot'[j] = slot[j] /\ j # i
      BY <1>7
    <3>2. slot[j].ptr \in Socks /\ slot[j].ptr \notin gone
      BY <1>10, <3>1
    <3>3. InUse(slot[j].ptr) /\ sock[slot[j].ptr].head = 0
      BY <3>1 DEF Links, Owners
    <3>4. sock'[slot[j].ptr] = sock[slot[j].ptr]
      BY <1>2, <3>2
    <3> QED BY <3>1, <3>3, <3>4 DEF InUse
  <2>2. \A j, k \in Slots : slot'[j].ptr = slot'[k].ptr /\ slot'[j].ptr # 0 => j = k
    BY <1>7 DEF Links, Owners
  <2>3. \A q \in Socks : InUse(q)' /\ sock'[q].head = 0 => \E j \in Slots : slot'[j].ptr = q
    BY <1>2, <1>6, <1>7, <1>9 DEF Links, Owners
  <2>4. \A q \in Socks : InUse(q)' /\ sock'[q].head # 0 =>
           sock'[q].head \in Socks /\ sock'[sock'[q].head].state = "SS_LISTENING"
    <3> TAKE q \in Socks
    <3> HAVE InUse(q)' /\ sock'[q].head # 0
    <3>1. InUse(q) /\ q \notin gone /\ sock'[q] = sock[q]
      BY <1>2, <1>9
    <3>2. sock[q].head \in Socks /\ sock[sock[q].head].state = "SS_LISTENING"
      BY <3>1 DEF Links, Owners
    <3>3. sock[q].head # s
      BY <1>6, <3>1
    <3>4. sock[sock[q].head].head = 0
      BY <3>2 DEF Links, SocketRecords
    <3>5. sock[q].head \notin gone
      BY <1>1, <1>6, <3>2, <3>3, <3>4, Numbered
    <3> QED BY <1>2, <3>1, <3>2, <3>5
  <2>5. \A q, p \in Socks : InUse(q)' /\ InUse(p)' /\ sock'[q].head = sock'[p].head
                              /\ sock'[q].head # 0 => q = p
    <3> TAKE q, p \in Socks
    <3> HAVE InUse(q)' /\ InUse(p)' /\ sock'[q].head = sock'[p].head /\ sock'[q].head # 0
    <3>1. InUse(q) /\ InUse(p) /\ sock'[q] = sock[q] /\ sock'[p] = sock[p]
      BY <1>2, <1>9
    <3> QED BY <3>1 DEF Links, Owners
  <2> QED BY <2>1, <2>2, <2>3, <2>4, <2>5 DEF Owners, InUse
<1>12. \A j \in Slots : Listens(j)' => Listens(j)
  BY <1>2, <1>7, <1>10 DEF Listens
<1> QED BY <1>7, <1>8, <1>11, <1>12 DEF Links

\* Accepting: the connection takes the place of the listening socket in the slot.
LEMMA AcceptKeeps ==
    ASSUME Links, NEW i \in Slots, Listens(i), NEW q \in Incoming(slot[i].ptr),
           sock' = Accepted(slot[i].ptr, q), slot' = [slot EXCEPT ![i].ptr = q]
    PROVE  /\ Links'
           /\ \A j \in Slots : Listens(j)' => Listens(j)
           /\ \A j \in Slots \ {i} : slot'[j] = slot[j] /\ (slot[j].ptr # 0 =>
                 sock'[slot[j].ptr] = sock[slot[j].ptr])
           /\ slot'[i].ptr # 0 /\ slot'[i].port = slot[i].port
<1> DEFINE l == slot[i].ptr
<1>1. /\ l \in Socks /\ InUse(l) /\ sock[l].state = "SS_LISTENING" /\ sock[l].head = 0
      /\ q \in Socks /\ InUse(q) /\ sock[q].head = l /\ l # 0 /\ q # l
      /\ sock[q].state # "SS_LISTENING"
  BY DEF Links, SlotRecords, Owners, Listens, Incoming, InUse, SocketRecords
<1> DEFINE r == [sock[q] EXCEPT !.head = 0]
<1>2. /\ IsSocket(r) /\ r.state = sock[q].state /\ r.peer = sock[q].peer /\ r.head = 0
  <2>1. PICK st, pe, he, rec, re : sock[q] =
           [state |-> st, peer |-> pe, head |-> he, received |-> rec, reset |-> re]
    BY <1>1 DEF Links, SocketRecords, IsSocket
  <2>2. r = [state |-> st, peer |-> pe, head |-> 0, received |-> rec, reset |-> re]
    BY <2>1
  <2> QED BY <2>1, <2>2 DEF IsSocket
<1>3. /\ sock' = [s \in Socks |-> sock'[s]]
      /\ \A s \in Socks : sock'[s] = IF s = l THEN Unused ELSE IF s = q THEN r ELSE sock[s]
  BY <1>1 DEF Accepted, Links, SocketRecords
<1>4. /\ \A j \in Slots \ {i} : slot'[j] = slot[j]
      /\ slot'[i].ptr = q /\ slot'[i].port = slot[i].port
      /\ SlotRecords'
  BY <1>1 DEF Links, SlotRecords
<1>5. IsSocket(Unused) /\ Unused.state = "UNUSED" /\ Unused.head = 0
  BY DEF IsSocket, Unused
<1> HIDE DEF l, r
<1>6. \A s \in Socks : InUse(s)' <=> InUse(s) /\ s # l
  BY <1>1, <1>2, <1>3, <1>5 DEF InUse
<1>7. SocketRecords'
  <2>1. \A s \in Socks :
          /\ IsSocket(sock'[s])
          /\ sock'[s].state = "UNUSED" => sock'[s] = Unused
          /\ sock'[s].state = "SS_LISTENING" => sock'[s].peer = "nobody" /\ sock'[s].head = 0
    BY <1>1, <1>2, <1>3, <1>5 DEF Links, SocketRecords, InUse
  <2> QED BY <1>3, <2>1 DEF SocketRecords, InUse
<1>8. \A j \in Slots \ {i} : slot[j].ptr # 0 =>
         slot[j].ptr \in Socks /\ slot[j].ptr # l /\ slot[j].ptr # q
  BY <1>1 DEF Links, SlotRecords, Owners, l
<1>9. \A s \in Socks \ {l, q} : sock'[s] = sock[s]
  BY <1>3
<1>10. q # 0 /\ q \in Socks
  BY <1>1, Numbered
<1>11. Owners'
  <2>1. \A j \in Slots : slot'[j].ptr # 0 =>
           sock'[slot'[j].ptr].state # "UNUSED" /\ sock'[slot'[j].ptr].head = 0
    <3> TAKE j \in Slots
    <3> HAVE slot'[j].ptr # 0
    <3>1. CASE j = i
      BY <1>1, <1>2, <1>3, <1>4, <3>1 DEF InUse
    <3>2. CASE j # i
      <4>1. slot'[j] = slot[j] /\ slot[j].ptr # 0
        BY <1>4, <3>2
      <4>2. sock'[slot[j].ptr] = sock[slot[j].ptr]
        BY <1>8, <1>9, <3>2, <4>1
      <4>3. InUse(slot[j].ptr) /\ sock[slot[j].ptr].head = 0
        BY <4>1 DEF Links, Owners
      <4> QED BY <4>1, <4>2, <4>3 DEF InUse
    <3> QED BY <3>1, <3>2
  <2>2. \A j, k \in Slots : slot'[j].ptr = slot'[k].ptr /\ slot'[j].ptr # 0 => j = k
    BY <1>4, <1>8 DEF Links, Owners
  <2>3. \A s \in Socks : InUse(s)' /\ sock'[s].head = 0 => \E j \in Slots : slot'[j].ptr = s
    <3> TAKE s \in Socks
    <3> HAVE InUse(s)' /\ sock'[s].head = 0
    <3>1. CASE s = q
      BY <1>4, <3>1
    <3>2. CASE s # q
      <4>1. s # l /\ InUse(s) /\ sock[s].head = 0
        BY <1>6, <1>9, <3>2
      <4>2. PICK j \in Slots : slot[j].ptr = s
        BY <4>1 DEF Links, Owners
      <4>3. j # i
        BY <4>1, <4>2 DEF l
      <4> QED BY <1>4, <4>2, <4>3
    <3> QED BY <3>1, <3>2
  <2>4. \A s \in Socks : InUse(s)' /\ sock'[s].head # 0 =>
           sock'[s].head \in Socks /\ sock'[sock'[s].head].state = "SS_LISTENING"
    <3> TAKE s \in Socks
    <3> HAVE InUse(s)' /\ sock'[s].head # 0
    <3>1. s # l /\ s # q /\ InUse(s) /\ sock'[s] = sock[s]
      BY <1>2, <1>3, <1>6
    <3>2. sock[s].head \in Socks /\ sock[sock[s].head].state = "SS_LISTENING"
      BY <3>1 DEF Links, Owners
    <3>3. sock[s].head # l /\ sock[s].head # q
      BY <1>1, <3>1, <3>2 DEF Links, Owners
    <3> QED BY <1>9, <3>1, <3>2, <3>3
  <2>5. \A s, p \in Socks : InUse(s)' /\ InUse(p)' /\ sock'[s].head = sock'[p].head
                              /\ sock'[s].head # 0 => s = p
    <3> TAKE s, p \in Socks
    <3> HAVE InUse(s)' /\ InUse(p)' /\ sock'[s].head = sock'[p].head /\ sock'[s].head # 0
    <3>1. InUse(s) /\ InUse(p) /\ sock'[s] = sock[s] /\ sock'[p] = sock[p]
      BY <1>2, <1>3, <1>6
    <3> QED BY <3>1 DEF Links, Owners
  <2> QED BY <2>1, <2>2, <2>3, <2>4, <2>5 DEF Owners, InUse
<1>12. \A j \in Slots : Listens(j)' => Listens(j)
  BY <1>1, <1>2, <1>3, <1>4, <1>8, <1>9 DEF Listens
<1>13. \A j \in Slots \ {i} : slot[j].ptr # 0 => sock'[slot[j].ptr] = sock[slot[j].ptr]
  BY <1>8, <1>9
<1> QED BY <1>4, <1>7, <1>10, <1>11, <1>12, <1>13 DEF Links

\* A connection or a closed socket becomes another such, where it is.
LEMMA ChangeKeeps ==
    ASSUME Links, NEW s \in Socks, InUse(s), sock[s].state # "SS_LISTENING",
           NEW r, IsSocket(r), r.state \notin {"UNUSED", "SS_LISTENING"}, r.head = sock[s].head,
           sock' = [sock EXCEPT ![s] = r], slot' = slot
    PROVE  Links' /\ \A j \in Slots : Listens(j)' => Listens(j)
<1>1. /\ sock' = [q \in Socks |-> sock'[q]]
      /\ \A q \in Socks : sock'[q] = IF q = s THEN r ELSE sock[q]
  BY DEF Links, SocketRecords
<1>2. \A q \in Socks : InUse(q)' <=> InUse(q)
  BY <1>1 DEF InUse
<1>3. \A q \in Socks : sock'[q].head = sock[q].head
                        /\ (sock'[q].state = "SS_LISTENING" <=> sock[q].state = "SS_LISTENING")
  BY <1>1
<1>4. SocketRecords'
  BY <1>1, <1>2, <1>3 DEF Links, SocketRecords, InUse
<1>5. \A j \in Slots : slot[j].ptr \in Socks \union {0}
  BY DEF Links, SlotRecords
<1>6. SlotRecords'
  BY DEF Links, SlotRecords
<1>7. Owners'
  BY <1>2, <1>3, <1>5 DEF Links, Owners
<1>8. \A j \in Slots : Listens(j)' => Listens(j)
  BY <1>3, <1>5 DEF Listens
<1> QED BY <1>4, <1>6, <1>7, <1>8 DEF Links

\* A socket that is not in use becomes one with other contents, which these
\* lemmas need of it only.
LEMMA TakesSocket ==
    ASSUME Links, NEW s \in Socks, ~InUse(s), NEW r, IsSocket(r),
           r.state \notin {"UNUSED", "SS_LISTENING"}, sock' = [sock EXCEPT ![s] = r]
    PROVE  /\ SocketRecords'
           /\ sock'[s] = r /\ s # 0
           /\ \A q \in Socks \ {s} : sock'[q] = sock[q]
           /\ \A j \in Slots : slot[j].ptr # s
           /\ \A q \in Socks : InUse(q) /\ sock[q].head # 0 => sock[q].head # s
<1>1. /\ sock' = [q \in Socks |-> sock'[q]]
      /\ \A q \in Socks : sock'[q] = IF q = s THEN r ELSE sock[q]
  BY DEF Links, SocketRecords
<1>2. SocketRecords'
  BY <1>1 DEF Links, SocketRecords, InUse
<1>3. s # 0
  BY Numbered
<1>4. \A j \in Slots : slot[j].ptr # s
  BY <1>3 DEF Links, Owners
<1>5. \A q \in Socks : InUse(q) /\ sock[q].head # 0 => sock[q].head # s
  BY DEF Links, Owners, InUse
<1> QED BY <1>1, <1>2, <1>3, <1>4, <1>5

\* A new socket for an empty slot.
LEMMA CreateKeeps ==
    ASSUME Links, NEW i \in Slots, slot[i].ptr = 0, NEW s \in Socks, ~InUse(s), Create(s),
           slot' = [slot EXCEPT ![i] = [ptr |-> s, port |-> FALSE]]
    PROVE  /\ Links'
           /\ \A j \in Slots : Listens(j)' => Listens(j)
           /\ slot'[i].ptr = s /\ ~slot'[i].port /\ s # 0
           /\ sock'[s].state = "SS_CLOSED" /\ sock'[s].peer = "nobody"
<1>0. PICK r : r = [Unused EXCEPT !.state = "SS_CLOSED"]
  OBVIOUS
<1>1. IsSocket(r) /\ r.state = "SS_CLOSED" /\ r.peer = "nobody" /\ r.head = 0
  <2>1. r = [state |-> "SS_CLOSED", peer |-> "nobody", head |-> 0,
             received |-> << >>, reset |-> FALSE]
    BY <1>0 DEF Unused
  <2> QED BY <2>1 DEF IsSocket
<1>2. sock' = [sock EXCEPT ![s] = r]
  BY <1>0 DEF Create
<1>3. /\ SocketRecords'
      /\ sock'[s] = r /\ s # 0
      /\ \A q \in Socks \ {s} : sock'[q] = sock[q]
      /\ \A j \in Slots : slot[j].ptr # s
      /\ \A q \in Socks : InUse(q) /\ sock[q].head # 0 => sock[q].head # s
  BY <1>1, <1>2, TakesSocket
<1>4. /\ SlotRecords'
      /\ slot'[i].ptr = s /\ ~slot'[i].port
      /\ \A j \in Slots \ {i} : slot'[j] = slot[j]
  BY DEF Links, SlotRecords
<1>5. \A j \in Slots \ {i} : slot[j].ptr # 0 =>
         slot[j].ptr \in Socks /\ sock'[slot[j].ptr] = sock[slot[j].ptr]
  BY <1>3 DEF Links, SlotRecords
<1>6. \A q \in Socks : InUse(q)' <=> InUse(q) \/ q = s
  BY <1>1, <1>3 DEF InUse
<1>7. Owners'
  <2>1. \A j \in Slots : slot'[j].ptr # 0 =>
           sock'[slot'[j].ptr].state # "UNUSED" /\ sock'[slot'[j].ptr].head = 0
    <3> TAKE j \in Slots
    <3> HAVE slot'[j].ptr # 0
    <3>1. CASE j = i
      BY <1>1, <1>3, <1>4, <3>1
    <3>2. CASE j # i
      <4>1. slot'[j] = slot[j] /\ slot[j].ptr # 0 /\ sock'[slot[j].ptr] = sock[slot[j].ptr]
        BY <1>4, <1>5, <3>2
      <4>2. InUse(slot[j].ptr) /\ sock[slot[j].ptr].head = 0
        BY <4>1 DEF Links, Owners
      <4> QED BY <4>1, <4>2 DEF InUse
    <3> QED BY <3>1, <3>2
  <2>2. \A j, k \in Slots : slot'[j].ptr = slot'[k].ptr /\ slot'[j].ptr # 0 => j = k
    BY <1>3, <1>4 DEF Links, Owners
  <2>3. \A q \in Socks : InUse(q)' /\ sock'[q].head = 0 => \E j \in Slots : slot'[j].ptr = q
    <3> TAKE q \in Socks
    <3> HAVE InUse(q)' /\ sock'[q].head = 0
    <3>1. CASE q = s
      BY <1>4, <3>1
    <3>2. CASE q # s
      <4>1. InUse(q) /\ sock[q].head = 0 /\ q # 0
        BY <1>3, <1>6, <3>2, Numbered
      <4>2. PICK j \in Slots : slot[j].ptr = q
        BY <4>1 DEF Links, Owners
      <4> QED BY <1>4, <4>1, <4>2
    <3> QED BY <3>1, <3>2
  <2>4. \A q \in Socks : InUse(q)' /\ sock'[q].head # 0 =>
           sock'[q].head \in Socks /\ sock'[sock'[q].head].state = "SS_LISTENING"
    <3> TAKE q \in Socks
    <3> HAVE InUse(q)' /\ sock'[q].head # 0
    <3>1. q # s /\ InUse(q) /\ sock'[q] = sock[q]
      BY <1>1, <1>3, <1>6
    <3>2. sock[q].head \in Socks /\ sock[sock[q].head].state = "SS_LISTENING"
      BY <3>1 DEF Links, Owners
    <3> QED BY <1>3, <3>1, <3>2
  <2>5. \A q, p \in Socks : InUse(q)' /\ InUse(p)' /\ sock'[q].head = sock'[p].head
                              /\ sock'[q].head # 0 => q = p
    <3> TAKE q, p \in Socks
    <3> HAVE InUse(q)' /\ InUse(p)' /\ sock'[q].head = sock'[p].head /\ sock'[q].head # 0
    <3>1. InUse(q) /\ InUse(p) /\ sock'[q] = sock[q] /\ sock'[p] = sock[p]
      BY <1>1, <1>3, <1>6
    <3> QED BY <3>1 DEF Links, Owners
  <2> QED BY <2>1, <2>2, <2>3, <2>4, <2>5 DEF Owners, InUse
<1>8. \A j \in Slots : Listens(j)' => Listens(j)
  BY <1>1, <1>3, <1>4, <1>5 DEF Listens
<1> QED BY <1>1, <1>3, <1>4, <1>7, <1>8 DEF Links

\* A connection comes to wait at a listening socket where none does.
LEMMA ConnectKeeps ==
    ASSUME Links, NEW l \in Socks, sock[l].state = "SS_LISTENING", Incoming(l) = {},
           NEW s \in Socks, ~InUse(s), NEW c,
           sock' = [sock EXCEPT ![s] =
                      [Unused EXCEPT !.state = "SS_CONNECTED", !.peer = c, !.head = l]],
           slot' = slot
    PROVE  /\ Links'
           /\ \A j \in Slots : Listens(j)' => Listens(j)
           /\ \A q \in Socks : InUse(q) => sock'[q] = sock[q]
<1>0. PICK r : r = [Unused EXCEPT !.state = "SS_CONNECTED", !.peer = c, !.head = l]
  OBVIOUS
<1>1. IsSocket(r) /\ r.state = "SS_CONNECTED" /\ r.peer = c /\ r.head = l
  <2>1. r = [state |-> "SS_CONNECTED", peer |-> c, head |-> l,
             received |-> << >>, reset |-> FALSE]
    BY <1>0 DEF Unused
  <2> QED BY <2>1 DEF IsSocket
<1>2. sock' = [sock EXCEPT ![s] = r]
  BY <1>0
<1>3. /\ SocketRecords'
      /\ sock'[s] = r /\ s # 0
      /\ \A q \in Socks \ {s} : sock'[q] = sock[q]
      /\ \A j \in Slots : slot[j].ptr # s
      /\ \A q \in Socks : InUse(q) /\ sock[q].head # 0 => sock[q].head # s
  BY <1>1, <1>2, TakesSocket
<1>4. SlotRecords' /\ \A j \in Slots : slot[j].ptr \in Socks \union {0}
  BY DEF Links, SlotRecords
<1>5. \A q \in Socks : InUse(q)' <=> InUse(q) \/ q = s
  BY <1>1, <1>3 DEF InUse
<1>6. l # 0 /\ l # s /\ \A q \in Socks : InUse(q) => sock[q].head # l
  BY Numbered DEF InUse, Incoming
<1>7. Owners'
  <2>1. \A j \in Slots : slot'[j].ptr # 0 =>
           sock'[slot'[j].ptr].state # "UNUSED" /\ sock'[slot'[j].ptr].head = 0
    <3> TAKE j \in Slots
    <3> HAVE slot'[j].ptr # 0
    <3>1. InUse(slot[j].ptr) /\ sock[slot[j].ptr].head = 0
      BY DEF Links, Owners
    <3>2. sock'[slot[j].ptr] = sock[slot[j].ptr]
      BY <1>3, <1>4
    <3> QED BY <3>1, <3>2 DEF InUse
  <2>2. \A j, k \in Slots : slot'[j].ptr = slot'[k].ptr /\ slot'[j].ptr # 0 => j = k
    BY DEF Links, Owners
  <2>3. \A q \in Socks : InUse(q)' /\ sock'[q].head = 0 => \E j \in Slots : slot'[j].ptr = q
    <3> TAKE q \in Socks
    <3> HAVE InUse(q)' /\ sock'[q].head = 0
    <3>1. q # s
      BY <1>1, <1>3, <1>6
    <3> QED BY <1>3, <1>5, <3>1 DEF Links, Owners
  <2>4. \A q \in Socks : InUse(q)' /\ sock'[q].head # 0 =>
           sock'[q].head \in Socks /\ sock'[sock'[q].head].state = "SS_LISTENING"
    <3> TAKE q \in Socks
    <3> HAVE InUse(q)' /\ sock'[q].head # 0
    <3>1. CASE q = s
      BY <1>1, <1>3, <1>6, <3>1
    <3>2. CASE q # s
      <4>1. InUse(q) /\ sock'[q] = sock[q]
        BY <1>3, <1>5, <3>2
      <4>2. sock[q].head \in Socks /\ sock[sock[q].head].state = "SS_LISTENING"
        BY <4>1 DEF Links, Owners
      <4> QED BY <1>3, <4>1, <4>2
    <3> QED BY <3>1, <3>2
  <2>5. \A q, p \in Socks : InUse(q)' /\ InUse(p)' /\ sock'[q].head = sock'[p].head
                              /\ sock'[q].head # 0 => q = p
    <3> TAKE q, p \in Socks
    <3> HAVE InUse(q)' /\ InUse(p)' /\ sock'[q].head = sock'[p].head /\ sock'[q].head # 0
    <3>1. CASE q # s /\ p # s
      BY <1>3, <1>5, <3>1 DEF Links, Owners
    <3>2. CASE q = s \/ p = s
      BY <1>1, <1>3, <1>5, <1>6, <3>2
    <3> QED BY <3>1, <3>2
  <2> QED BY <2>1, <2>2, <2>3, <2>4, <2>5 DEF Owners, InUse
<1>8. \A j \in Slots : Listens(j)' => Listens(j)
  BY <1>3, <1>4 DEF Listens
<1>9. \A q \in Socks : InUse(q) => sock'[q] = sock[q]
  BY <1>3
<1> QED BY <1>3, <1>4, <1>7, <1>8, <1>9 DEF Links

\* A connection that nobody accepted goes away.
LEMMA DropKeeps ==
    ASSUME Links, NEW s \in Socks, InUse(s), sock[s].head # 0,
           sock' = [sock EXCEPT ![s] = Unused], slot' = slot
    PROVE  Links' /\ \A j \in Slots : Listens(j)' => Listens(j)
<1>1. /\ sock' = [q \in Socks |-> sock'[q]]
      /\ \A q \in Socks : sock'[q] = IF q = s THEN Unused ELSE sock[q]
  BY DEF Links, SocketRecords
<1>2. IsSocket(Unused) /\ Unused.state = "UNUSED" /\ Unused.head = 0
  BY DEF IsSocket, Unused
<1>3. \A q \in Socks : InUse(q)' <=> InUse(q) /\ q # s
  BY <1>1, <1>2 DEF InUse
<1>4. SocketRecords'
  <2>1. \A q \in Socks :
          /\ IsSocket(sock'[q])
          /\ sock'[q].state = "UNUSED" => sock'[q] = Unused
          /\ sock'[q].state = "SS_LISTENING" => sock'[q].peer = "nobody" /\ sock'[q].head = 0
    BY <1>1, <1>2 DEF Links, SocketRecords, InUse
  <2> QED BY <1>1, <2>1 DEF SocketRecords, InUse
<1>5. SlotRecords' /\ \A j \in Slots : slot[j].ptr # 0 =>
         slot[j].ptr \in Socks /\ slot[j].ptr # s
  BY DEF Links, SlotRecords, Owners
<1>6. Owners'
  <2>1. \A j \in Slots : slot'[j].ptr # 0 =>
           sock'[slot'[j].ptr].state # "UNUSED" /\ sock'[slot'[j].ptr].head = 0
    <3> TAKE j \in Slots
    <3> HAVE slot'[j].ptr # 0
    <3>1. InUse(slot[j].ptr) /\ sock[slot[j].ptr].head = 0
      BY DEF Links, Owners
    <3>2. sock'[slot[j].ptr] = sock[slot[j].ptr]
      BY <1>1, <1>5
    <3> QED BY <3>1, <3>2 DEF InUse
  <2>2. \A j, k \in Slots : slot'[j].ptr = slot'[k].ptr /\ slot'[j].ptr # 0 => j = k
    BY DEF Links, Owners
  <2>3. \A q \in Socks : InUse(q)' /\ sock'[q].head = 0 => \E j \in Slots : slot'[j].ptr = q
    BY <1>1, <1>3 DEF Links, Owners
  <2>4. \A q \in Socks : InUse(q)' /\ sock'[q].head # 0 =>
           sock'[q].head \in Socks /\ sock'[sock'[q].head].state = "SS_LISTENING"
    <3> TAKE q \in Socks
    <3> HAVE InUse(q)' /\ sock'[q].head # 0
    <3>1. InUse(q) /\ sock'[q] = sock[q]
      BY <1>1, <1>3
    <3>2. sock[q].head \in Socks /\ sock[sock[q].head].state = "SS_LISTENING"
      BY <3>1 DEF Links, Owners
    <3>3. sock[q].head # s
      BY <3>2 DEF Links, SocketRecords
    <3> QED BY <1>1, <3>1, <3>2, <3>3
  <2>5. \A q, p \in Socks : InUse(q)' /\ InUse(p)' /\ sock'[q].head = sock'[p].head
                              /\ sock'[q].head # 0 => q = p
    BY <1>1, <1>3 DEF Links, Owners
  <2> QED BY <2>1, <2>2, <2>3, <2>4, <2>5 DEF Owners, InUse
<1>7. \A j \in Slots : Listens(j)' => Listens(j)
  BY <1>1, <1>5 DEF Listens
<1> QED BY <1>4, <1>5, <1>6, <1>7 DEF Links

\* The socket of a slot starts to listen.
LEMMA ListenKeeps ==
    ASSUME Links, NEW i \in Slots, slot[i].ptr # 0, sock[slot[i].ptr].peer = "nobody",
           Listen(slot[i].ptr), slot' = slot
    PROVE  Links' /\ \A j \in Slots : Listens(j)' => Listens(j) \/ j = i
<1> DEFINE s == slot[i].ptr
           r == [sock[s] EXCEPT !.state = "SS_LISTENING"]
<1>1. s \in Socks /\ InUse(s) /\ sock[s].head = 0
  BY DEF Links, SlotRecords, Owners
<1>2. IsSocket(r) /\ r.state = "SS_LISTENING" /\ r.peer = "nobody" /\ r.head = 0
  <2>0. IsSocket(sock[s])
    BY <1>1 DEF Links, SocketRecords
  <2>1. PICK st, pe, he, rec, re : sock[s] =
           [state |-> st, peer |-> pe, head |-> he, received |-> rec, reset |-> re]
    BY <2>0 DEF IsSocket
  <2>2. r = [state |-> "SS_LISTENING", peer |-> pe, head |-> he, received |-> rec, reset |-> re]
    BY <2>1
  <2> QED BY <1>1, <2>1, <2>2 DEF IsSocket
<1>3. sock' = [sock EXCEPT ![s] = r]
  BY DEF Listen
<1> HIDE DEF s, r
<1>4. /\ sock' = [q \in Socks |-> sock'[q]]
      /\ \A q \in Socks : sock'[q] = IF q = s THEN r ELSE sock[q]
  BY <1>3 DEF Links, SocketRecords
<1>5. \A q \in Socks : InUse(q)' <=> InUse(q)
  BY <1>1, <1>2, <1>4 DEF InUse
<1>6. \A q \in Socks : sock'[q].head = sock[q].head
        /\ (sock[q].state = "SS_LISTENING" => sock'[q].state = "SS_LISTENING")
  BY <1>1, <1>2, <1>4
<1>7. SocketRecords'
  BY <1>1, <1>2, <1>4, <1>5 DEF Links, SocketRecords, InUse
<1>8. SlotRecords' /\ \A j \in Slots : slot[j].ptr \in Socks \union {0}
  BY DEF Links, SlotRecords
<1>9. Owners'
  BY <1>5, <1>6, <1>8 DEF Links, Owners
<1>10. \A j \in Slots : Listens(j)' => Listens(j) \/ j = i
  BY <1>1, <1>4, <1>8 DEF Listens, Links, Owners, s
<1> QED BY <1>7, <1>8, <1>9, <1>10 DEF Links

\* A slot is claimed for the server, or given up.
LEMMA PortKeeps ==
    ASSUME Links, NEW i \in Slots, NEW b \in BOOLEAN,
           slot' = [slot EXCEPT ![i].port = b], sock' = sock
    PROVE  /\ Links' /\ \A j \in Slots : Listens(j)' <=> Listens(j)
           /\ \A j \in Slots : slot'[j].ptr = slot[j].ptr
           /\ \A j \in Slots \ {i} : slot'[j].port = slot[j].port
           /\ slot'[i].port = b
<1>1. /\ SlotRecords'
      /\ \A j \in Slots : slot'[j].ptr = slot[j].ptr
      /\ \A j \in Slots \ {i} : slot'[j].port = slot[j].port
      /\ slot'[i].port = b
  BY DEF Links, SlotRecords
<1>2. SameLinks
  BY <1>1 DEF Links, SocketRecords, SameLinks
<1> QED BY <1>1, <1>2, SameLinksKeep

-----------------------------------------------------------------------------
(***************************************************************************)
(* Steps of the interrupts and of the clients, between the thread's.       *)
(***************************************************************************)

\* What every such step leaves to the thread.
OthersStep ==
    /\ Links' /\ th' = th
    /\ \A j \in Slots : Listens(j)' => Listens(j)
    /\ \A j \in Slots :
        /\ slot'[j].port = slot[j].port
        /\ slot[j].ptr # 0 => slot'[j].ptr # 0
        /\ /\ slot[j].ptr # 0 /\ sock[slot[j].ptr].state = "SS_CLOSED"
           /\ sock[slot[j].ptr].peer = "nobody"
           => slot'[j].ptr = slot[j].ptr /\ sock'[slot[j].ptr] = sock[slot[j].ptr]

\* The thread finds what it left, and no socket listens that did not.
LEMMA OthersKeep ==
    ASSUME IInv, OthersStep
    PROVE  IInv'
<1>1. Uses'
  <2>1. th.pc = "listen" =>
          /\ ~slot'[th.i].port
          /\ sock'[slot'[th.i].ptr].state = "SS_CLOSED"
          /\ sock'[slot'[th.i].ptr].peer = "nobody"
    BY DEF IInv, Uses, OthersStep
  <2>2. th.pc = "act" /\ th.status \in {"ESTABLISHED", "CLOSE_WAIT"} => slot'[th.i].ptr # 0
    BY DEF IInv, Uses, OthersStep
  <2>3. th.pc \in {"listen", "mark", "register", "assign"} => slot'[th.i].ptr # 0
    BY DEF IInv, Uses, OthersStep
  <2>4. th.pc \in {"available", "head", "body", "stop"} =>
          th.found \in Slots /\ slot'[th.found].ptr # 0
    BY DEF IInv, Uses, OthersStep
  <2>5. th' = th
    BY DEF OthersStep
  <2> QED BY <2>1, <2>2, <2>3, <2>4, <2>5 DEF IInv, Uses
<1>2. OneListens'
  <2>1. \A j \in Slots : Listens(j)' => slot'[j].port \/ (th.pc = "mark" /\ th.i = j)
    BY DEF IInv, OneListens, OthersStep
  <2>2. th.pc \in {"scan", "act"} /\ ~th.listening => \A j \in Slots : Listens(j)' => j >= th.i
    BY DEF IInv, OneListens, OthersStep
  <2>3. th.pc = "act" /\ th.status # "LISTEN" => th.i \in Slots /\ ~Listens(th.i)
    BY DEF IInv, OneListens, Uses
  <2>4. \A j \in Slots : Listens(j)' => Listens(j)
    BY DEF OthersStep
  <2>5. th.pc \in {"socketBegin", "listen"} => \A j \in Slots : ~Listens(j)
    BY DEF IInv, OneListens
  <2>6. th' = th
    BY DEF OthersStep
  <2> QED BY <2>1, <2>2, <2>3, <2>4, <2>5, <2>6 DEF OneListens, Listens
<1> QED BY <1>1, <1>2 DEF IInv, OthersStep, Links

\* poll() either finds nobody waiting, or exchanges the socket of the slot.
LEMMA PollKeeps == ASSUME IInv, Poll PROVE IInv'
<1>0. Links
  BY DEF IInv, Links
<1>1. PICK i \in Slots :
        /\ slot[i].port /\ socketStatus(i) = "LISTEN"
        /\ IF Incoming(slot[i].ptr) = {}
           THEN error' = "AGAIN" /\ UNCHANGED <<sock, slot, services>>
           ELSE \E q \in Incoming(slot[i].ptr) :
                 /\ sock' = Accepted(slot[i].ptr, q)
                 /\ slot' = [slot EXCEPT ![i].ptr = q]
                 /\ services' = Unregistered
                 /\ UNCHANGED error
  BY DEF Poll
<1>2. th' = th
  BY DEF Poll
<1>3. Listens(i)
  BY <1>1 DEF socketStatus, Listens
<1>4. OthersStep
  <2>1. CASE Incoming(slot[i].ptr) = {}
    <3>1. UNCHANGED <<sock, slot>>
      BY <1>1, <2>1
    <3>2. Links' /\ \A j \in Slots : Listens(j)' <=> Listens(j)
      BY <1>0, <3>1, StayKeeps
    <3> QED BY <1>2, <3>1, <3>2 DEF OthersStep
  <2>2. CASE Incoming(slot[i].ptr) # {}
    <3>1. PICK q \in Incoming(slot[i].ptr) :
             sock' = Accepted(slot[i].ptr, q) /\ slot' = [slot EXCEPT ![i].ptr = q]
      BY <1>1, <2>2
    <3>2. /\ Links'
          /\ \A j \in Slots : Listens(j)' => Listens(j)
          /\ \A j \in Slots \ {i} : slot'[j] = slot[j] /\ (slot[j].ptr # 0 =>
                sock'[slot[j].ptr] = sock[slot[j].ptr])
          /\ slot'[i].ptr # 0 /\ slot'[i].port = slot[i].port
      BY <1>0, <1>3, <3>1, AcceptKeeps
    <3>3. sock[slot[i].ptr].state # "SS_CLOSED"
      BY <1>3 DEF Listens
    <3> QED BY <1>2, <3>2, <3>3 DEF OthersStep
  <2> QED BY <2>1, <2>2
<1> QED BY <1>4, OthersKeep

\* A new socket is one that was not in use.
LEMMA NewSocketIsFree == FreeSockets # {} => NewSocket \in Socks /\ ~InUse(NewSocket)
<1> SUFFICES ASSUME FreeSockets # {} PROVE NewSocket \in FreeSockets
  BY DEF FreeSockets, InUse
<1>1. FreeSockets \in SUBSET Nat
  BY Numbered DEF FreeSockets
<1>2. \E s \in FreeSockets : \A q \in FreeSockets : s <= q
  BY <1>1, LeastNatural
<1> QED BY <1>2, Zenon DEF NewSocket

\* The socket of a client's connection is in use, and none that listens.
LEMMA ConnectionSocket ==
    ASSUME SocketRecords, NEW c \in CLIENTS, NEW s \in SocketsOf(c)
    PROVE  s \in Socks /\ InUse(s) /\ sock[s].state # "SS_LISTENING" /\ sock[s].peer # "nobody"
<1>1. s \in Socks /\ sock[s].peer # "nobody"
  BY SocketConstants DEF SocketsOf
<1>2. Unused.peer = "nobody"
  BY DEF Unused
<1> QED BY <1>1, <1>2 DEF SocketRecords

\* Only the socket of a connection changes, or one that was not in use.
LEMMA NetworkIsOthers ==
    ASSUME Links', th' = th, slot' = slot,
           \A j \in Slots : Listens(j)' => Listens(j),
           SlotRecords, NEW s, \A q \in Socks \ {s} : sock'[q] = sock[q],
           s \in Socks => ~InUse(s) \/ sock[s].peer # "nobody", Owners
    PROVE  OthersStep
<1> SUFFICES ASSUME NEW j \in Slots, slot[j].ptr # 0, sock[slot[j].ptr].peer = "nobody"
             PROVE  sock'[slot[j].ptr] = sock[slot[j].ptr]
  BY DEF OthersStep
<1>1. slot[j].ptr \in Socks
  BY DEF SlotRecords
<1>2. InUse(slot[j].ptr)
  BY DEF Owners
<1> QED BY <1>1, <1>2

\* What a reset leaves of a socket.
LEMMA ClosedFields ==
    ASSUME NEW q, IsSocket(q),
           NEW r, r = [q EXCEPT !.state = "SS_CLOSED", !.peer = "nobody", !.reset = TRUE]
    PROVE  IsSocket(r) /\ r.state = "SS_CLOSED" /\ r.peer = "nobody" /\ r.head = q.head
<1>1. PICK st, pe, he, rec, re :
         q = [state |-> st, peer |-> pe, head |-> he, received |-> rec, reset |-> re]
  BY DEF IsSocket
<1>2. r = [state |-> "SS_CLOSED", peer |-> "nobody", head |-> he,
           received |-> rec, reset |-> TRUE]
  BY <1>1
<1> QED BY <1>1, <1>2 DEF IsSocket

\* A client's connection, its segments, its FIN and its reset.
LEMMA NetworkKeeps ==
    ASSUME IInv, NEW c \in CLIENTS, Network(c), UNCHANGED <<slotVars, th>>
    PROVE  IInv'
<1>0. Links /\ SocketRecords /\ SlotRecords /\ Owners /\ th' = th /\ slot' = slot
  BY DEF IInv, Links, slotVars
<1>1. CASE Connect(c)
  <2> DEFINE n == NewSocket
  <2>1. n \in Socks /\ ~InUse(n)
    BY <1>1, NewSocketIsFree DEF Connect
  <2>2. PICK l \in Socks :
          /\ sock[l].state = "SS_LISTENING" /\ Incoming(l) = {}
          /\ sock' = [sock EXCEPT ![n] =
                        [Unused EXCEPT !.state = "SS_CONNECTED", !.peer = c, !.head = l]]
    BY <1>1 DEF Connect
  <2> HIDE DEF n
  <2>3. /\ Links'
        /\ \A j \in Slots : Listens(j)' => Listens(j)
    BY <1>0, <2>1, <2>2, ConnectKeeps
  <2>4. \A q \in Socks \ {n} : sock'[q] = sock[q]
    BY <1>0, <2>2 DEF SocketRecords
  <2>5. OthersStep
    BY <1>0, <2>1, <2>3, <2>4, NetworkIsOthers
  <2> QED BY <2>5, OthersKeep
<1>2. CASE SendPiece(c)
  <2>0. PICK m : \E s \in SocketsOf(c) : sock' = [sock EXCEPT ![s].received = m]
    BY <1>2 DEF SendPiece
  <2>1. PICK s \in SocketsOf(c) : sock' = [sock EXCEPT ![s].received = m]
    BY <2>0
  <2>2. s \in Socks /\ InUse(s) /\ sock[s].state # "SS_LISTENING" /\ sock[s].peer # "nobody"
    BY <1>0, ConnectionSocket
  <2>3. PICK r : r = [sock[s] EXCEPT !.received = m]
    OBVIOUS
  <2>4. sock' = [sock EXCEPT ![s] = r]
    BY <2>1, <2>3
  <2>5. IsSocket(r) /\ r.state = sock[s].state /\ r.peer = sock[s].peer /\ r.head = sock[s].head
    <3>1. IsSocket(sock[s])
      BY <1>0, <2>2 DEF SocketRecords
    <3> QED BY <2>3, <3>1, FieldsStay
  <2>6. Links' /\ \A j \in Slots : Listens(j)' => Listens(j)
    BY <1>0, <2>2, <2>4, <2>5, ContentKeeps
  <2>7. \A q \in Socks \ {s} : sock'[q] = sock[q]
    BY <1>0, <2>4 DEF SocketRecords
  <2>8. OthersStep
    BY <1>0, <2>2, <2>6, <2>7, NetworkIsOthers
  <2> QED BY <2>8, OthersKeep
<1>3. CASE HalfClose(c)
  <2>1. PICK s \in SocketsOf(c) : sock' = [sock EXCEPT ![s].state = "SS_CLOSING"]
    BY <1>3 DEF HalfClose
  <2>2. s \in Socks /\ InUse(s) /\ sock[s].state # "SS_LISTENING" /\ sock[s].peer # "nobody"
    BY <1>0, ConnectionSocket
  <2>3. PICK r : r = [sock[s] EXCEPT !.state = "SS_CLOSING"]
    OBVIOUS
  <2>4. sock' = [sock EXCEPT ![s] = r]
    BY <2>1, <2>3
  <2>5. IsSocket(r) /\ r.state = "SS_CLOSING" /\ r.head = sock[s].head
    <3>1. IsSocket(sock[s])
      BY <1>0, <2>2 DEF SocketRecords
    <3>2. PICK st, pe, he, rec, re : sock[s] =
             [state |-> st, peer |-> pe, head |-> he, received |-> rec, reset |-> re]
      BY <3>1 DEF IsSocket
    <3>3. r = [state |-> "SS_CLOSING", peer |-> pe, head |-> he, received |-> rec, reset |-> re]
      BY <2>3, <3>2
    <3> QED BY <3>2, <3>3 DEF IsSocket
  <2>6. Links' /\ \A j \in Slots : Listens(j)' => Listens(j)
    BY <1>0, <2>2, <2>4, <2>5, ChangeKeeps
  <2>7. \A q \in Socks \ {s} : sock'[q] = sock[q]
    BY <1>0, <2>4 DEF SocketRecords
  <2>8. OthersStep
    BY <1>0, <2>2, <2>6, <2>7, NetworkIsOthers
  <2> QED BY <2>8, OthersKeep
<1>4. CASE Reset(c)
  <2>1. PICK s \in SocketsOf(c) :
          sock' = [sock EXCEPT ![s] =
                     IF @.head # 0 THEN Unused
                     ELSE [@ EXCEPT !.state = "SS_CLOSED", !.peer = "nobody", !.reset = TRUE]]
    BY <1>4 DEF Reset
  <2>2. s \in Socks /\ InUse(s) /\ sock[s].state # "SS_LISTENING" /\ sock[s].peer # "nobody"
    BY <1>0, ConnectionSocket
  <2>3. \A q \in Socks \ {s} : sock'[q] = sock[q]
    BY <1>0, <2>1 DEF SocketRecords
  <2>4. Links' /\ \A j \in Slots : Listens(j)' => Listens(j)
    <3>1. CASE sock[s].head # 0
      <4>1. sock' = [sock EXCEPT ![s] = Unused]
        BY <2>1, <3>1
      <4> QED BY <1>0, <2>2, <3>1, <4>1, DropKeeps
    <3>2. CASE sock[s].head = 0
      <4>1. PICK r : r = [sock[s] EXCEPT !.state = "SS_CLOSED", !.peer = "nobody", !.reset = TRUE]
        OBVIOUS
      <4>2. sock' = [sock EXCEPT ![s] = r]
        BY <2>1, <3>2, <4>1
      <4>3. IsSocket(r) /\ r.state = "SS_CLOSED" /\ r.head = sock[s].head
        <5>1. IsSocket(sock[s])
          BY <1>0, <2>2 DEF SocketRecords
        <5> QED BY <4>1, <5>1, ClosedFields
      <4> QED BY <1>0, <2>2, <4>2, <4>3, ChangeKeeps
    <3> QED BY <3>1, <3>2
  <2>5. OthersStep
    BY <1>0, <2>2, <2>3, <2>4, NetworkIsOthers
  <2> QED BY <2>5, OthersKeep
<1> QED BY <1>1, <1>2, <1>3, <1>4 DEF Network

-----------------------------------------------------------------------------
(***************************************************************************)
(* Steps of the thread.                                                    *)
(***************************************************************************)

\* The thread is at a place, with these locals; the others are not about sockets.
ThreadIs(t, pc, i, status, listening, found) ==
    /\ IsThread(t)
    /\ t.pc = pc /\ t.i = i /\ t.status = status
    /\ t.listening = listening /\ t.found = found

\* What the assignments of the actions leave of the other locals.
LEMMA ThreadSteps ==
    ASSUME NEW t, IsThread(t), NEW u, NEW a, NEW b, NEW c, NEW d
    PROVE  /\ u = [t EXCEPT !.pc = a] => ThreadIs(u, a, t.i, t.status, t.listening, t.found)
           /\ u = [t EXCEPT !.pc = a, !.i = b] =>
                ThreadIs(u, a, b, t.status, t.listening, t.found)
           /\ u = [t EXCEPT !.pc = a, !.status = b] =>
                ThreadIs(u, a, t.i, b, t.listening, t.found)
           /\ u = [t EXCEPT !.pc = a, !.entry = b] =>
                ThreadIs(u, a, t.i, t.status, t.listening, t.found)
           /\ u = [t EXCEPT !.pc = a, !.text = b] =>
                ThreadIs(u, a, t.i, t.status, t.listening, t.found)
           /\ u = [t EXCEPT !.pc = a, !.text = b, !.remaining = c] =>
                ThreadIs(u, a, t.i, t.status, t.listening, t.found)
           /\ u = [t EXCEPT !.pc = a, !.i = b, !.found = c, !.listening = d] =>
                ThreadIs(u, a, b, t.status, d, c)
<1>1. PICK pc, i, st, li, fo, en, re, te : t =
         [pc |-> pc, i |-> i, status |-> st, listening |-> li, found |-> fo,
          entry |-> en, remaining |-> re, text |-> te]
  BY DEF IsThread
<1> DEFINE Thread(p, j, s, l, f, e, r, x) ==
         [pc |-> p, i |-> j, status |-> s, listening |-> l, found |-> f,
          entry |-> e, remaining |-> r, text |-> x]
<1>2. ASSUME u = [t EXCEPT !.pc = a] PROVE u = Thread(a, i, st, li, fo, en, re, te)
  BY <1>1, <1>2
<1>3. ASSUME u = [t EXCEPT !.pc = a, !.i = b] PROVE u = Thread(a, b, st, li, fo, en, re, te)
  BY <1>1, <1>3
<1>4. ASSUME u = [t EXCEPT !.pc = a, !.status = b] PROVE u = Thread(a, i, b, li, fo, en, re, te)
  BY <1>1, <1>4
<1>5. ASSUME u = [t EXCEPT !.pc = a, !.entry = b] PROVE u = Thread(a, i, st, li, fo, b, re, te)
  BY <1>1, <1>5
<1>6. ASSUME u = [t EXCEPT !.pc = a, !.text = b] PROVE u = Thread(a, i, st, li, fo, en, re, b)
  BY <1>1, <1>6
<1>7. ASSUME u = [t EXCEPT !.pc = a, !.text = b, !.remaining = c]
      PROVE  u = Thread(a, i, st, li, fo, en, c, b)
  BY <1>1, <1>7
<1>8. ASSUME u = [t EXCEPT !.pc = a, !.i = b, !.found = c, !.listening = d]
      PROVE  u = Thread(a, b, st, d, c, en, re, te)
  BY <1>1, <1>8
<1>9. ASSUME NEW p, NEW j, NEW s, NEW l, NEW f, NEW e, NEW r, NEW x,
             u = Thread(p, j, s, l, f, e, r, x)
      PROVE  ThreadIs(u, p, j, s, l, f)
  BY <1>9 DEF ThreadIs, IsThread
<1>10. t.i = i /\ t.status = st /\ t.listening = li /\ t.found = fo
  BY <1>1
<1> HIDE DEF Thread
<1> QED BY <1>2, <1>3, <1>4, <1>5, <1>6, <1>7, <1>8, <1>9, <1>10

\* available() goes on to the next slot, and has not passed over one that listens.
LEMMA NextSlotKeeps ==
    ASSUME IInv, th.pc \in {"scan", "act"}, th.i \in Slots, Links',
           \A j \in Slots : Listens(j)' => Listens(j) /\ slot'[j].port,
           NEW found \in Slots \union {0}, NEW listening, NextSlot(found, listening),
           ~listening => ~th.listening /\ ~Listens(th.i)
    PROVE  IInv'
<1>1. ThreadIs(th', "scan", th.i + 1, th.status, listening, found)
  BY ThreadSteps, Zenon DEF NextSlot, IInv, Uses
<1>2. Uses'
  BY <1>1, ServerConstants DEF ThreadIs, Uses, Slots
<1>3. OneListens'
  <2>1. \A j \in Slots : ~listening /\ Listens(j)' => j >= th.i + 1
    <3> TAKE j \in Slots
    <3> HAVE ~listening /\ Listens(j)'
    <3>1. j >= th.i /\ j # th.i
      BY DEF IInv, OneListens
    <3>2. j \in Nat /\ th.i \in Nat
      BY Numbered
    <3> QED BY <3>1, <3>2
  <2> QED BY <1>1, <2>1 DEF OneListens, ThreadIs
<1> QED BY <1>2, <1>3, Zenon DEF IInv, Links

\* The other places of the thread ask nothing of the sockets that listen, but
\* that they are the server's.
LEMMA ElseKeeps ==
    ASSUME Links', Uses', th'.pc \notin {"scan", "act", "socketBegin", "listen"},
           \A j \in Slots : Listens(j)' => slot'[j].port \/ (th'.pc = "mark" /\ th'.i = j)
    PROVE  IInv'
BY DEF IInv, Links, OneListens

\* The thread starts its next pass over the slots.
LEMMA IdleKeeps ==
    ASSUME Links', th' = Idle, \A j \in Slots : Listens(j)' => slot'[j].port
    PROVE  IInv'
<1>1. Uses'
  BY ServerConstants DEF Uses, IsThread, Idle
<1>2. OneListens'
  BY Numbered DEF OneListens, Idle, Slots
<1> QED BY <1>1, <1>2 DEF IInv, Links

\* There is a socket for the slot when no socket listens: nobody waits, and every
\* socket in use is a slot's.
LEMMA EnoughSockets ==
    ASSUME Links, \A j \in Slots : ~Listens(j)
    PROVE  FreeSockets # {}
<1> SUFFICES ASSUME FreeSockets = {} PROVE FALSE
  OBVIOUS
<1>1. \A s \in Socks : \E j \in Slots : slot[j].ptr = s
  <2> TAKE s \in Socks
  <2>1. InUse(s)
    BY DEF FreeSockets, InUse
  <2>2. CASE sock[s].head # 0
    <3>1. sock[s].head \in Socks /\ sock[sock[s].head].state = "SS_LISTENING"
      BY <2>1, <2>2 DEF Links, Owners
    <3>2. InUse(sock[s].head) /\ sock[sock[s].head].head = 0 /\ sock[s].head # 0
      BY <2>2, <3>1 DEF Links, SocketRecords, InUse
    <3>3. PICK j \in Slots : slot[j].ptr = sock[s].head
      BY <3>1, <3>2 DEF Links, Owners
    <3> QED BY <3>1, <3>2, <3>3 DEF Listens
  <2>3. CASE sock[s].head = 0
    BY <2>1, <2>3 DEF Links, Owners
  <2> QED BY <2>2, <2>3
<1>2. PICK f \in [Socks -> Slots] : \A s \in Socks : slot[f[s]].ptr = s
  <2> DEFINE g == [s \in Socks |-> CHOOSE j \in Slots : slot[j].ptr = s]
  <2>1. g \in [Socks -> Slots] /\ \A s \in Socks : slot[g[s]].ptr = s
    BY <1>1
  <2> QED BY <2>1
<1>3. /\ IsFiniteSet(Socks) /\ Cardinality(Socks) = SOCKETS
      /\ IsFiniteSet(Slots) /\ Cardinality(Slots) = SLOTS
  <2>1. SOCKETS \in Nat /\ SLOTS \in Nat
    BY SocketConstants, ServerConstants
  <2>2. SOCKETS = SOCKETS - 1 + 1 /\ SLOTS = SLOTS - 1 + 1
    BY <2>1
  <2> QED BY <2>1, <2>2, FS_Interval DEF Socks, Slots
<1>4. Cardinality(Socks) > Cardinality(Slots)
  BY <1>3, SocketConstants, ServerConstants
<1>5. PICK s, q \in Socks : s # q /\ f[s] = f[q]
  BY <1>3, <1>4, FS_PigeonHole
<1> QED BY <1>2, <1>5

\* The first slot without a socket is one.
LEMMA FirstNullIsNull == NullSlots # {} => FirstNull \in Slots /\ slot[FirstNull].ptr = 0
<1> SUFFICES ASSUME NullSlots # {} PROVE FirstNull \in NullSlots
  BY DEF NullSlots
<1>1. NullSlots \in SUBSET Nat
  BY Numbered DEF NullSlots
<1>2. \E i \in NullSlots : \A j \in NullSlots : i <= j
  BY <1>1, LeastNatural
<1> QED BY <1>2, Zenon DEF FirstNull

\* The status the thread reads says whether the slot has a socket, and listens.
LEMMA StatusSays ==
    ASSUME NEW i
    PROVE  /\ socketStatus(i) = "LISTEN" <=> Listens(i)
           /\ socketStatus(i) \in {"ESTABLISHED", "CLOSE_WAIT"} => slot[i].ptr # 0
<1>1. CASE slot[i].ptr = 0
  BY <1>1 DEF socketStatus, Listens
<1>2. CASE slot[i].ptr # 0
  BY <1>2 DEF socketStatus, Listens
<1> QED BY <1>1, <1>2

\* A slot of somebody else, the reading of a status, and the end of the pass.
LEMMA ScanStepKeeps ==
    ASSUME IInv, ScanSkips \/ ScanReadsStatus \/ ScanEnds
    PROVE  IInv'
<1>1. Links' /\ \A j \in Slots : Listens(j)' <=> Listens(j)
  BY StayKeeps DEF IInv, Links, ScanSkips, ScanReadsStatus, ScanEnds, socketVars, slotVars
<1>2. \A j \in Slots : Listens(j)' => Listens(j) /\ slot'[j].port
  <2>1. th.pc = "scan" /\ slot' = slot
    BY DEF ScanSkips, ScanReadsStatus, ScanEnds, slotVars
  <2> QED BY <1>1, <2>1 DEF IInv, OneListens
<1>3. CASE ScanSkips
  <2>1. th.i \in Slots /\ ~Listens(th.i)
    BY <1>3, ServerConstants DEF ScanSkips, IInv, Uses, OneListens, Slots
  <2>2. th.found \in Slots \union {0}
    BY DEF IInv, Uses
  <2> QED BY <1>1, <1>2, <1>3, <2>1, <2>2, NextSlotKeeps DEF ScanSkips
<1>4. CASE ScanReadsStatus
  <2>1. th.i \in Slots
    BY <1>4, ServerConstants DEF ScanReadsStatus, IInv, Uses, Slots
  <2>2. ThreadIs(th', "act", th.i, socketStatus(th.i), th.listening, th.found)
    BY <1>4, ThreadSteps, Zenon DEF ScanReadsStatus, IInv, Uses
  <2>3. slot' = slot /\ sock' = sock /\ th.pc = "scan"
    BY <1>4 DEF ScanReadsStatus, socketVars, slotVars
  <2>4. Uses'
    <3>1. socketStatus(th.i) \in {"ESTABLISHED", "CLOSE_WAIT"} => slot'[th.i].ptr # 0
      BY <2>3, StatusSays
    <3>2. th'.i \in 1..(SLOTS + 1) /\ th'.found \in Slots \union {0}
      BY <2>2 DEF IInv, Uses, ThreadIs
    <3> QED BY <2>1, <2>2, <3>1, <3>2 DEF Uses, ThreadIs
  <2>5. OneListens'
    <3>1. socketStatus(th.i) # "LISTEN" => ~Listens(th.i)'
      BY <1>1, <2>1, <2>2, StatusSays DEF ThreadIs
    <3>2. ~th.listening => \A j \in Slots : Listens(j)' => j >= th.i
      BY <1>1, <2>3 DEF IInv, OneListens
    <3>3. \A j \in Slots : Listens(j)' => slot'[j].port
      BY <1>2
    <3> QED BY <2>2, <3>1, <3>2, <3>3 DEF OneListens, ThreadIs
  <2> QED BY <1>1, <2>4, <2>5 DEF IInv, Links
<1>5. CASE ScanEnds
  <2>1. PICK place : /\ place = IF th.listening THEN "connected" ELSE "socketBegin"
                     /\ th' = [th EXCEPT !.pc = place]
    BY <1>5, Zenon DEF ScanEnds
  <2>2. ThreadIs(th', place, th.i, th.status, th.listening, th.found)
    BY <2>1, ThreadSteps, Zenon DEF IInv, Uses
  <2>3. Uses'
    BY <2>1, <2>2 DEF IInv, Uses, ThreadIs
  <2>4. ~th.listening => \A j \in Slots : ~Listens(j)
    <3> SUFFICES ASSUME ~th.listening, NEW j \in Slots, Listens(j) PROVE FALSE
      OBVIOUS
    <3>1. th.pc = "scan" /\ th.i > SLOTS
      BY <1>5 DEF ScanEnds
    <3>2. j >= th.i
      BY <3>1 DEF IInv, OneListens
    <3>3. th.i \in Nat /\ j \in 1..SLOTS
      BY ServerConstants DEF IInv, Uses, Slots
    <3> QED BY <3>1, <3>2, <3>3, ServerConstants
  <2>5. OneListens'
    BY <1>1, <1>2, <2>1, <2>2, <2>4 DEF OneListens, ThreadIs
  <2> QED BY <1>1, <2>3, <2>5 DEF IInv, Links
<1> QED BY <1>3, <1>4, <1>5

\* What available() does to a slot after it has read its status.
LEMMA ActStepKeeps ==
    ASSUME IInv, ActOnConnection \/ ActOnListening \/ ActOnClosed
    PROVE  IInv'
<1>1. th.pc = "act" /\ th.i \in Slots /\ th.found \in Slots \union {0}
  BY DEF ActOnConnection, ActOnListening, ActOnClosed, IInv, Uses
<1>2. Links /\ \A j \in Slots : Listens(j) => slot[j].port
  BY <1>1 DEF IInv, Links, OneListens
<1>3. CASE ActOnConnection
  <2>1. slot[th.i].ptr # 0 /\ ~Listens(th.i)
    BY <1>1, <1>3 DEF ActOnConnection, IInv, Uses, OneListens
  <2>2. PICK found \in Slots \union {0} : NextSlot(found, th.listening)
    BY <1>1, <1>3 DEF ActOnConnection
  <2>3. \/ UNCHANGED <<sock, slot>>
        \/ Disconnect(th.i)
        \/ Recv(slot[th.i].ptr) /\ slot' = slot
    BY <1>3 DEF ActOnConnection, socketVars
  <2>4. Links' /\ \A j \in Slots : Listens(j)' => Listens(j) /\ slot'[j].port
    <3>1. CASE UNCHANGED <<sock, slot>>
      BY <1>2, <3>1, StayKeeps
    <3>2. CASE Disconnect(th.i)
      <4>1. /\ Links'
            /\ \A j \in Slots : Listens(j)' => Listens(j)
            /\ \A j \in Slots \ {th.i} : slot'[j] = slot[j]
            /\ slot'[th.i].port = slot[th.i].port
        BY <1>1, <1>2, <2>1, <3>2, DisconnectKeeps
      <4> QED BY <1>1, <1>2, <4>1
    <3>3. CASE Recv(slot[th.i].ptr) /\ slot' = slot
      <4>1. Links' /\ \A j \in Slots : Listens(j)' <=> Listens(j)
        BY <1>1, <1>2, <2>1, <3>3, RecvKeeps
      <4> QED BY <1>2, <3>3, <4>1
    <3> QED BY <2>3, <3>1, <3>2, <3>3
  <2> QED BY <1>1, <2>1, <2>2, <2>4, NextSlotKeeps
<1>4. CASE ActOnListening
  <2>1. Links' /\ \A j \in Slots : Listens(j)' => Listens(j) /\ slot'[j].port
    BY <1>2, <1>4, StayKeeps DEF ActOnListening, socketVars, slotVars
  <2>2. NextSlot(th.found, TRUE)
    BY <1>4 DEF ActOnListening
  <2> QED BY <1>1, <2>1, <2>2, NextSlotKeeps
<1>5. CASE ActOnClosed
  <2>1. ~Listens(th.i)
    BY <1>1, <1>5 DEF ActOnClosed, IInv, OneListens
  <2>2. slot' = [slot EXCEPT ![th.i].port = FALSE] /\ sock' = sock
    BY <1>5 DEF ActOnClosed, socketVars
  <2>3. /\ Links' /\ \A j \in Slots : Listens(j)' <=> Listens(j)
        /\ \A j \in Slots \ {th.i} : slot'[j].port = slot[j].port
    BY <1>1, <1>2, <2>2, PortKeeps
  <2>4. \A j \in Slots : Listens(j)' => Listens(j) /\ slot'[j].port
    BY <1>1, <1>2, <2>1, <2>3
  <2>5. NextSlot(th.found, th.listening)
    BY <1>5 DEF ActOnClosed
  <2> QED BY <1>1, <2>1, <2>3, <2>4, <2>5, NextSlotKeeps
<1> QED BY <1>3, <1>4, <1>5

\* The new socket is in the slot before it listens.
LEMMA socketBeginKeeps ==
    ASSUME IInv, socketBegin
    PROVE  IInv'
<1>1. Links /\ th.pc = "socketBegin" /\ \A j \in Slots : ~Listens(j)
  BY DEF socketBegin, IInv, Links, OneListens
<1>2. CASE NullSlots = {}
  <2>1. th' = [th EXCEPT !.pc = "connected"] /\ UNCHANGED <<sock, slot>>
    BY <1>2, Zenon DEF socketBegin
  <2>2. ThreadIs(th', "connected", th.i, th.status, th.listening, th.found)
    BY <2>1, ThreadSteps, Zenon DEF IInv, Uses
  <2>3. Links' /\ \A j \in Slots : ~Listens(j)'
    BY <1>1, <2>1, StayKeeps
  <2>4. Uses'
    BY <2>2 DEF IInv, Uses, ThreadIs
  <2> QED BY <2>2, <2>3, <2>4, ElseKeeps DEF ThreadIs
<1>3. CASE NullSlots # {}
  <2> DEFINE i == FirstNull
             s == NewSocket
  <2>1. i \in Slots /\ slot[i].ptr = 0
    BY <1>3, FirstNullIsNull
  <2>2. s \in Socks /\ ~InUse(s)
    BY <1>1, EnoughSockets, NewSocketIsFree
  <2>3. /\ Create(s) /\ slot' = [slot EXCEPT ![i] = [ptr |-> s, port |-> FALSE]]
        /\ th' = [th EXCEPT !.pc = "listen", !.i = i]
    BY <1>3 DEF socketBegin
  <2> HIDE DEF i, s
  <2>4. /\ Links'
        /\ \A j \in Slots : Listens(j)' => Listens(j)
        /\ slot'[i].ptr = s /\ ~slot'[i].port /\ s # 0
        /\ sock'[s].state = "SS_CLOSED" /\ sock'[s].peer = "nobody"
    BY <1>1, <2>1, <2>2, <2>3, CreateKeeps, Zenon
  <2>5. ThreadIs(th', "listen", i, th.status, th.listening, th.found)
    BY <2>3, ThreadSteps, Zenon DEF IInv, Uses
  <2>6. Uses'
    <3>1. i \in 1..(SLOTS + 1)
      BY <2>1, ServerConstants DEF Slots
    <3>2. th.found \in Slots \union {0}
      BY DEF IInv, Uses
    <3> QED BY <2>1, <2>4, <2>5, <3>1, <3>2 DEF Uses, ThreadIs
  <2>7. OneListens'
    BY <1>1, <2>4, <2>5 DEF OneListens, ThreadIs
  <2> QED BY <2>4, <2>6, <2>7 DEF IInv, Links
<1> QED BY <1>2, <1>3

\* The slot is claimed only after its socket listens: until then it is begin()'s.
LEMMA BeginStepKeeps ==
    ASSUME IInv, BeginListens \/ BeginMarks \/ BeginRegisters \/ BeginAssigns
    PROVE  IInv'
<1>1. Links /\ th.i \in Slots /\ slot[th.i].ptr # 0
  BY DEF IInv, Links, Uses, BeginListens, BeginMarks, BeginRegisters, BeginAssigns
<1>2. th.i \in 1..(SLOTS + 1) /\ th.found \in Slots \union {0} /\ IsThread(th)
  BY DEF IInv, Uses
<1>3. \A j \in Slots : Listens(j) => slot[j].port \/ (th.pc = "mark" /\ th.i = j)
  BY DEF IInv, OneListens
<1>4. CASE BeginListens
  <2>1. /\ sock[slot[th.i].ptr].peer = "nobody" /\ Listen(slot[th.i].ptr) /\ slot' = slot
        /\ th.pc = "listen" /\ th' = [th EXCEPT !.pc = "mark"]
    BY <1>4 DEF BeginListens, IInv, Uses, slotVars
  <2>2. Links' /\ \A j \in Slots : Listens(j)' => Listens(j) \/ j = th.i
    BY <1>1, <2>1, ListenKeeps, Zenon
  <2>3. ThreadIs(th', "mark", th.i, th.status, th.listening, th.found)
    BY <1>2, <2>1, ThreadSteps, Zenon
  <2>4. Uses'
    BY <1>1, <1>2, <2>1, <2>3 DEF Uses, ThreadIs
  <2>5. \A j \in Slots : Listens(j)' => slot'[j].port \/ (th'.pc = "mark" /\ th'.i = j)
    BY <1>3, <2>1, <2>2, <2>3 DEF ThreadIs
  <2> QED BY <2>2, <2>3, <2>4, <2>5, ElseKeeps DEF ThreadIs
<1>5. CASE BeginMarks
  <2>1. /\ slot' = [slot EXCEPT ![th.i].port = TRUE] /\ sock' = sock
        /\ th.pc = "mark" /\ th' = [th EXCEPT !.pc = "register"]
    BY <1>5 DEF BeginMarks, socketVars
  <2>2. /\ Links' /\ \A j \in Slots : Listens(j)' <=> Listens(j)
        /\ \A j \in Slots : slot'[j].ptr = slot[j].ptr
        /\ \A j \in Slots \ {th.i} : slot'[j].port = slot[j].port
        /\ slot'[th.i].port = TRUE
    BY <1>1, <2>1, PortKeeps, Zenon
  <2>3. ThreadIs(th', "register", th.i, th.status, th.listening, th.found)
    BY <1>2, <2>1, ThreadSteps, Zenon
  <2>4. Uses'
    BY <1>1, <1>2, <2>2, <2>3 DEF Uses, ThreadIs
  <2>5. \A j \in Slots : Listens(j)' => slot'[j].port
    BY <1>3, <2>2
  <2> QED BY <2>2, <2>3, <2>4, <2>5, ElseKeeps DEF ThreadIs
<1>6. CASE BeginRegisters
  <2>1. /\ UNCHANGED <<sock, slot>> /\ th.pc = "register"
        /\ \E e : th' = [th EXCEPT !.pc = "assign", !.entry = e]
    BY <1>6 DEF BeginRegisters, socketVars
  <2>2. Links' /\ \A j \in Slots : Listens(j)' <=> Listens(j)
    BY <1>1, <2>1, StayKeeps, Zenon
  <2>3. ThreadIs(th', "assign", th.i, th.status, th.listening, th.found)
    BY <1>2, <2>1, ThreadSteps, Zenon
  <2>4. Uses'
    BY <1>1, <1>2, <2>1, <2>3 DEF Uses, ThreadIs
  <2>5. \A j \in Slots : Listens(j)' => slot'[j].port
    BY <1>3, <2>1, <2>2
  <2> QED BY <2>2, <2>3, <2>4, <2>5, ElseKeeps DEF ThreadIs
<1>7. CASE BeginAssigns
  <2>1. /\ th.pc = "assign" /\ th' = [th EXCEPT !.pc = "connected"]
        /\ Disconnect(th.i) \/ UNCHANGED <<sock, slot>>
    BY <1>7 DEF BeginAssigns
  <2>2. Links' /\ \A j \in Slots : Listens(j)' => slot'[j].port
    <3>1. CASE Disconnect(th.i)
      <4>1. /\ Links'
            /\ \A j \in Slots : Listens(j)' => Listens(j)
            /\ \A j \in Slots \ {th.i} : slot'[j] = slot[j]
            /\ slot'[th.i].port = slot[th.i].port
        BY <1>1, <3>1, DisconnectKeeps
      <4> QED BY <1>3, <2>1, <4>1
    <3>2. CASE UNCHANGED <<sock, slot>>
      BY <1>1, <1>3, <2>1, <3>2, StayKeeps, Zenon
    <3> QED BY <2>1, <3>1, <3>2
  <2>3. ThreadIs(th', "connected", th.i, th.status, th.listening, th.found)
    BY <1>2, <2>1, ThreadSteps, Zenon
  <2>4. Uses'
    BY <1>2, <2>3 DEF Uses, ThreadIs
  <2> QED BY <2>2, <2>3, <2>4, ElseKeeps DEF ThreadIs
<1> QED BY <1>4, <1>5, <1>6, <1>7

\* The service's steps: every one at a place where the slot found has a socket.
LEMMA ServiceStepKeeps ==
    ASSUME IInv, ServiceStep
    PROVE  IInv'
<1>1. Links /\ IsThread(th) /\ th.i \in 1..(SLOTS + 1) /\ th.found \in Slots \union {0}
  BY DEF IInv, Links, Uses
<1>2. \A j \in Slots : Listens(j) => slot[j].port
  BY DEF IInv, OneListens, ServiceStep, NobodyThere, ConnectedAfterFin, Connected, ReadsRequest,
         WritesHead, WritesBody, Write, Stops
<1>3. CASE NobodyThere
  <2>1. UNCHANGED <<sock, slot>> /\ th' = Idle
    BY <1>3 DEF NobodyThere, socketVars, slotVars
  <2> QED BY <1>1, <1>2, <2>1, StayKeeps, IdleKeeps
<1>4. CASE Connected
  <2>1. /\ UNCHANGED <<sock, slot>> /\ th' = [th EXCEPT !.pc = "available"]
        /\ th.found \in Slots /\ slot[th.found].ptr # 0
    BY <1>1, <1>4, StatusSays, Zenon DEF Connected, socketVars, slotVars
  <2>2. ThreadIs(th', "available", th.i, th.status, th.listening, th.found)
    BY <1>1, <2>1, ThreadSteps, Zenon
  <2>3. Links' /\ \A j \in Slots : Listens(j)' <=> Listens(j)
    BY <1>1, <2>1, StayKeeps
  <2>4. Uses'
    BY <1>1, <2>1, <2>2 DEF Uses, ThreadIs
  <2>5. \A j \in Slots : Listens(j)' => slot'[j].port
    BY <1>2, <2>1, <2>3
  <2> QED BY <2>2, <2>3, <2>4, <2>5, ElseKeeps DEF ThreadIs
<1>5. CASE ConnectedAfterFin \/ ReadsRequest
  <2>1. /\ slot' = slot /\ th.found \in Slots /\ slot[th.found].ptr # 0
        /\ Recv(slot[th.found].ptr) \/ sock' = sock
    BY <1>1, <1>5, StatusSays
       DEF ConnectedAfterFin, ReadsRequest, ClientAvailable, slotVars, IInv, Uses
  <2>2. Links' /\ \A j \in Slots : Listens(j)' <=> Listens(j)
    BY <1>1, <2>1, RecvKeeps, StayKeeps
  <2>3. \A j \in Slots : Listens(j)' => slot'[j].port
    BY <1>2, <2>1, <2>2, Zenon
  <2>4. \/ th' = Idle
        \/ \E place \in {"available", "head"} :
              \/ th' = [th EXCEPT !.pc = place]
              \/ \E text : th' = [th EXCEPT !.pc = place, !.text = text]
              \/ \E text, remaining :
                    th' = [th EXCEPT !.pc = place, !.text = text, !.remaining = remaining]
    <3>1. CASE ConnectedAfterFin
      BY <3>1 DEF ConnectedAfterFin, ClientAvailable
    <3>2. CASE ReadsRequest
      BY <3>2 DEF ReadsRequest, ClientAvailable
    <3> QED BY <1>5, <3>1, <3>2
  <2>5. CASE th' = Idle
    BY <2>2, <2>3, <2>5, IdleKeeps
  <2>6. CASE th' # Idle
    <3>1. PICK place \in {"available", "head"} :
             ThreadIs(th', place, th.i, th.status, th.listening, th.found)
      BY <1>1, <2>4, <2>6, ThreadSteps, Zenon
    <3>2. Uses'
      BY <1>1, <2>1, <3>1 DEF Uses, ThreadIs
    <3> QED BY <2>2, <2>3, <3>1, <3>2, ElseKeeps, Zenon DEF ThreadIs
  <2> QED BY <2>5, <2>6
<1>6. CASE WritesHead \/ WritesBody
  <2>1. PICK next \in {"body", "stop"} :
          /\ \E what : Send(slot[th.found].ptr, what)
          /\ th' = [th EXCEPT !.pc = next]
          /\ slot' = slot /\ th.found \in Slots /\ slot[th.found].ptr # 0
    BY <1>6 DEF WritesHead, WritesBody, Write, slotVars, IInv, Uses
  <2>2. Links' /\ \A j \in Slots : Listens(j)' <=> Listens(j)
    BY <1>1, <2>1, SendKeeps
  <2>3. \A j \in Slots : Listens(j)' => slot'[j].port
    BY <1>2, <2>1, <2>2, Zenon
  <2>4. ThreadIs(th', next, th.i, th.status, th.listening, th.found)
    BY <1>1, <2>1, ThreadSteps, Zenon
  <2>5. Uses'
    BY <1>1, <2>1, <2>4 DEF Uses, ThreadIs
  <2> QED BY <2>2, <2>3, <2>4, <2>5, ElseKeeps DEF ThreadIs
<1>7. CASE Stops
  <2>1. th.found \in Slots /\ slot[th.found].ptr # 0 /\ Disconnect(th.found) /\ th' = Idle
    BY <1>7 DEF Stops, IInv, Uses
  <2>2. /\ Links'
        /\ \A j \in Slots : Listens(j)' => Listens(j)
        /\ \A j \in Slots \ {th.found} : slot'[j] = slot[j]
        /\ slot'[th.found].port = slot[th.found].port
    BY <1>1, <2>1, DisconnectKeeps
  <2>3. \A j \in Slots : Listens(j)' => slot'[j].port
    BY <1>2, <2>1, <2>2
  <2> QED BY <2>1, <2>2, <2>3, IdleKeeps
<1> QED BY <1>3, <1>4, <1>5, <1>6, <1>7 DEF ServiceStep

-----------------------------------------------------------------------------
\* No socket is in use, and no slot has one.
LEMMA Initially == Init => IInv
<1> SUFFICES ASSUME Init PROVE IInv
  OBVIOUS
<1>1. IsSocket(Unused) /\ Unused.state = "UNUSED" /\ Unused.head = 0
  BY DEF IsSocket, Unused
<1>2. sock = [s \in Socks |-> Unused] /\ slot \in [Slots -> [ptr : {0}, port : BOOLEAN]]
  BY DEF Init, ServerInit, SocketInit, NewClient
<1>3. (\A s \in Socks : sock[s] = Unused /\ ~InUse(s)) /\ (\A j \in Slots : slot[j].ptr = 0)
  BY <1>1, <1>2 DEF InUse
<1>4. SocketRecords /\ SlotRecords /\ Owners
  BY <1>1, <1>2, <1>3 DEF SocketRecords, SlotRecords, Owners, InUse
<1>5. th = [pc |-> "socketBegin", i |-> 1, status |-> "CLOSED", listening |-> FALSE,
            found |-> 0, entry |-> 0, remaining |-> 0, text |-> << >>]
  BY DEF Init, Idle
<1>6. Uses
  BY <1>5, ServerConstants DEF Uses, IsThread
<1>7. OneListens
  BY <1>3, <1>5 DEF OneListens, Listens
<1> QED BY <1>4, <1>6, <1>7 DEF IInv

\* Steps of nobody.
LEMMA Stutters == IInv /\ UNCHANGED vars => IInv'
BY DEF IInv, SocketRecords, SlotRecords, Owners, Uses, OneListens, Listens, InUse,
       vars, socketVars, slotVars

\* Every step of the thread, of the interrupts and of the clients.
LEMMA Step == IInv /\ Next => IInv'
<1> SUFFICES ASSUME IInv, Next PROVE IInv'
  OBVIOUS
<1>1. CASE ServerStep
  BY <1>1, ScanStepKeeps, ActStepKeeps, socketBeginKeeps, BeginStepKeeps DEF ServerStep
<1>2. CASE ServiceStep
  BY <1>2, ServiceStepKeeps
<1>3. CASE Poll
  BY <1>3, PollKeeps
<1>4. CASE \E c \in CLIENTS : Network(c) /\ UNCHANGED <<slotVars, th>>
  BY <1>4, NetworkKeeps
<1> QED BY <1>1, <1>2, <1>3, <1>4 DEF Next

\* Whatever the clients do and whenever poll() runs, a socket in use belongs to
\* one slot, or waits at one listening socket, and no slot points to a socket that
\* was closed.
THEOREM EverySocketHasOneOwner == Spec => []OneOwner
<1>1. Init => IInv
  BY Initially
<1>2. IInv /\ [Next]_vars => IInv'
  BY Step, Stutters
<1>3. IInv => OneOwner
  BY OwnersAreOne
<1> QED BY <1>1, <1>2, <1>3, PTL DEF Spec

-----------------------------------------------------------------------------
(***************************************************************************)
(* Slots are lost to resets only.                                          *)
(***************************************************************************)
IsClient(r) == r = [phase |-> r.phase, sent |-> r.sent, fin |-> r.fin, got |-> r.got]

\* A connection the server holds is one that a client holds, and no other's; one
\* that waits to be accepted is not closed.
Connections ==
    /\ client = [c \in CLIENTS |-> client[c]]
    /\ \A c \in CLIENTS : IsClient(client[c])
    /\ \A s \in Socks : sock[s].peer # "nobody" =>
          sock[s].peer \in CLIENTS /\ client[sock[s].peer].phase = "open"
    /\ \A s, q \in Socks : sock[s].peer = sock[q].peer /\ sock[s].peer # "nobody" => s = q
    /\ \A s \in Socks : InUse(s) /\ sock[s].head # 0 =>
          sock[s].state \in {"SS_CONNECTED", "SS_CLOSING"}

HasClosed(j) ==
    /\ slot[j].ptr # 0
    /\ sock[slot[j].ptr].state \notin {"SS_LISTENING", "SS_CONNECTED", "SS_CLOSING"}

\* Lost, or about to be: the thread is not making a listening socket of it.
Closed == {j \in Slots : HasClosed(j) /\ ~(th.pc = "listen" /\ th.i = j)}
Left == {c \in CLIENTS : client[c].phase = "left"}

CInv == IInv /\ Connections /\ Cardinality(Closed) <= Cardinality(Left)

\* The slots that SlotsLostToResets counts are among the closed ones.
LEMMA LostAreClosed == CInv => SlotsLostToResets
<1> SUFFICES ASSUME CInv PROVE SlotsLostToResets
  OBVIOUS
<1>1. LostSlots \subseteq Closed
  BY DEF LostSlots, Closed, HasClosed, socketStatus
<1>2. IsFiniteSet(Slots)
  BY FS_Interval, ServerConstants DEF Slots
<1>3. IsFiniteSet(Closed) /\ IsFiniteSet(Left)
  BY <1>2, FS_Subset, SocketConstants DEF Closed, Left
<1>4. Cardinality(LostSlots) <= Cardinality(Closed) /\ IsFiniteSet(LostSlots)
  BY <1>1, <1>3, FS_Subset
<1>5. Cardinality(LostSlots) \in Nat /\ Cardinality(Closed) \in Nat /\ Cardinality(Left) \in Nat
  BY <1>3, <1>4, FS_CardinalityType
<1>6. Cardinality(LostSlots) <= Cardinality(Left)
  BY <1>4, <1>5 DEF CInv
<1> QED BY <1>6 DEF SlotsLostToResets, Left

\* A step that closes no slot's socket and brings no client back.
LEMMA CountKeeps ==
    ASSUME Cardinality(Closed) <= Cardinality(Left),
           Closed' \subseteq Closed, Left \subseteq Left'
    PROVE  Cardinality(Closed') <= Cardinality(Left')
<1>1. IsFiniteSet(Slots)
  BY FS_Interval, ServerConstants DEF Slots
<1>2. IsFiniteSet(Closed) /\ IsFiniteSet(Left')
  BY <1>1, FS_Subset, SocketConstants DEF Closed, Left
<1>3. /\ IsFiniteSet(Closed') /\ Cardinality(Closed') <= Cardinality(Closed)
      /\ IsFiniteSet(Left) /\ Cardinality(Left) <= Cardinality(Left')
  BY <1>2, FS_Subset
<1>4. /\ Cardinality(Closed) \in Nat /\ Cardinality(Left) \in Nat
      /\ Cardinality(Closed') \in Nat /\ Cardinality(Left') \in Nat
  BY <1>2, <1>3, FS_CardinalityType
<1> QED BY <1>3, <1>4

\* A reset closes the socket of one slot, and the client is gone for good.
LEMMA CountsReset ==
    ASSUME Cardinality(Closed) <= Cardinality(Left), NEW i, NEW c \in CLIENTS,
           Closed' \subseteq Closed \union {i}, c \notin Left, Left' = Left \union {c}
    PROVE  Cardinality(Closed') <= Cardinality(Left')
<1>1. IsFiniteSet(Slots)
  BY FS_Interval, ServerConstants DEF Slots
<1>2. IsFiniteSet(Closed) /\ IsFiniteSet(Left)
  BY <1>1, FS_Subset, SocketConstants DEF Closed, Left
<1>3. Cardinality(Left') = Cardinality(Left) + 1
  BY <1>2, FS_AddElement
<1>4. /\ IsFiniteSet(Closed \union {i})
      /\ Cardinality(Closed \union {i}) = Cardinality(Closed)
           \/ Cardinality(Closed \union {i}) = Cardinality(Closed) + 1
  BY <1>2, FS_AddElement
<1>5. IsFiniteSet(Closed') /\ Cardinality(Closed') <= Cardinality(Closed \union {i})
  BY <1>4, FS_Subset
<1>6. /\ Cardinality(Closed) \in Nat /\ Cardinality(Left) \in Nat
      /\ Cardinality(Closed') \in Nat
  BY <1>2, <1>5, FS_CardinalityType
<1> QED BY <1>3, <1>4, <1>5, <1>6

-----------------------------------------------------------------------------
\* What every operation but a reset keeps: the connections that stay are their
\* clients', and no other slot gets a closed socket.
Kept ==
    /\ Connections'
    /\ Left \subseteq Left'
    /\ \A j \in Slots : HasClosed(j)' => HasClosed(j)

LEMMA ConnectionsKeep ==
    ASSUME Connections, client' = [c \in CLIENTS |-> client'[c]],
           \A c \in CLIENTS : IsClient(client'[c]) /\ client'[c].phase = client[c].phase,
           \A s \in Socks : sock'[s].peer = "nobody" \/ sock'[s].peer = sock[s].peer,
           \A s \in Socks : InUse(s)' /\ sock'[s].head # 0 =>
              sock'[s].state \in {"SS_CONNECTED", "SS_CLOSING"}
    PROVE  Connections' /\ Left \subseteq Left'
<1>1. Left \subseteq Left'
  BY DEF Left
<1>2. \A s \in Socks : sock'[s].peer # "nobody" =>
         sock'[s].peer \in CLIENTS /\ client'[sock'[s].peer].phase = "open"
  BY Zenon DEF Connections
<1>3. \A s, q \in Socks : sock'[s].peer = sock'[q].peer /\ sock'[s].peer # "nobody" => s = q
  BY DEF Connections
<1> QED BY <1>1, <1>2, <1>3 DEF Connections

\* Nothing but the data of the sockets changes.
LEMMA DataKept ==
    ASSUME Links, Connections, slot' = slot, client' = [c \in CLIENTS |-> client'[c]],
           \A c \in CLIENTS : IsClient(client'[c]) /\ client'[c].phase = client[c].phase,
           \A s \in Socks :
              /\ sock'[s].state = sock[s].state /\ sock'[s].peer = sock[s].peer
              /\ sock'[s].head = sock[s].head
    PROVE  Kept
<1>1. Connections' /\ Left \subseteq Left'
  BY ConnectionsKeep DEF Connections, InUse
<1>2. \A j \in Slots : slot[j].ptr # 0 => slot[j].ptr \in Socks
  BY DEF Links, SlotRecords
<1>3. \A j \in Slots : HasClosed(j)' => HasClosed(j)
  BY <1>2 DEF HasClosed
<1> QED BY <1>1, <1>3 DEF Kept

\* The record of a client in another phase, or with another field.
LEMMA ClientFields ==
    ASSUME NEW r, IsClient(r), NEW u, NEW a
    PROVE  /\ u = [r EXCEPT !.phase = a] => IsClient(u) /\ u.phase = a /\ u.fin = r.fin
           /\ u = [r EXCEPT !.sent = a] => IsClient(u) /\ u.phase = r.phase /\ u.fin = r.fin
           /\ u = [r EXCEPT !.got = a] => IsClient(u) /\ u.phase = r.phase /\ u.fin = r.fin
           /\ u = [r EXCEPT !.fin = a] => IsClient(u) /\ u.phase = r.phase /\ u.fin = a
<1>1. PICK ph, se, fi, go : r = [phase |-> ph, sent |-> se, fin |-> fi, got |-> go]
  BY DEF IsClient
<1>2. ASSUME u = [r EXCEPT !.phase = a]
      PROVE  u = [phase |-> a, sent |-> se, fin |-> fi, got |-> go]
  BY <1>1, <1>2
<1>3. ASSUME u = [r EXCEPT !.sent = a]
      PROVE  u = [phase |-> ph, sent |-> a, fin |-> fi, got |-> go]
  BY <1>1, <1>3
<1>4. ASSUME u = [r EXCEPT !.got = a]
      PROVE  u = [phase |-> ph, sent |-> se, fin |-> fi, got |-> a]
  BY <1>1, <1>4
<1>5. ASSUME u = [r EXCEPT !.fin = a]
      PROVE  u = [phase |-> ph, sent |-> se, fin |-> a, got |-> go]
  BY <1>1, <1>5
<1>6. ASSUME NEW p, NEW s, NEW f, NEW g, u = [phase |-> p, sent |-> s, fin |-> f, got |-> g]
      PROVE  IsClient(u) /\ u.phase = p /\ u.fin = f
  BY <1>6 DEF IsClient
<1>7. r.phase = ph /\ r.fin = fi
  BY <1>1
<1> QED BY <1>2, <1>3, <1>4, <1>5, <1>6, <1>7

\* Nothing changes.
LEMMA StayKept ==
    ASSUME Links, Connections, UNCHANGED <<sock, client, slot>>
    PROVE  Kept
BY DataKept DEF Connections

\* Receiving from the socket of a slot changes its data only.
LEMMA RecvData ==
    ASSUME Links, NEW i \in Slots, slot[i].ptr # 0, Recv(slot[i].ptr)
    PROVE  \A q \in Socks :
             /\ sock'[q].state = sock[q].state /\ sock'[q].peer = sock[q].peer
             /\ sock'[q].head = sock[q].head
<1> DEFINE s == slot[i].ptr
<1>1. s \in Socks /\ IsSocket(sock[s])
  BY DEF Links, SlotRecords, SocketRecords
<1>2. PICK r1 : r1 = [sock[s] EXCEPT !.reset = @ /\ ~RecvFails(s)]
  OBVIOUS
<1>3. PICK r : r = [r1 EXCEPT !.received = << >>]
  OBVIOUS
<1>4. IsSocket(r1) /\ r1.state = sock[s].state /\ r1.peer = sock[s].peer /\ r1.head = sock[s].head
  BY <1>1, <1>2, FieldsStay
<1>5. r.state = sock[s].state /\ r.peer = sock[s].peer /\ r.head = sock[s].head
  BY <1>3, <1>4, FieldsStay
<1>6. sock' = [sock EXCEPT ![s] = r]
  BY <1>2, <1>3 DEF Recv
<1> HIDE DEF s
<1>7. \A q \in Socks : sock'[q] = IF q = s THEN r ELSE sock[q]
  BY <1>6 DEF Links, SocketRecords
<1> QED BY <1>5, <1>7

\* Receiving keeps the connections.
LEMMA RecvKept ==
    ASSUME Links, Connections, NEW i \in Slots, slot[i].ptr # 0, Recv(slot[i].ptr),
           UNCHANGED <<client, slot>>
    PROVE  Kept
<1>1. \A q \in Socks :
        /\ sock'[q].state = sock[q].state /\ sock'[q].peer = sock[q].peer
        /\ sock'[q].head = sock[q].head
  BY RecvData
<1> QED BY <1>1, DataKept DEF Connections

\* Sending on the socket of a slot: the client gets it, or the socket forgets that
\* it was reset.
LEMMA SendData ==
    ASSUME Links, NEW i \in Slots, slot[i].ptr # 0, NEW what, Send(slot[i].ptr, what)
    PROVE  \A q \in Socks :
             /\ sock'[q].state = sock[q].state /\ sock'[q].peer = sock[q].peer
             /\ sock'[q].head = sock[q].head
<1> DEFINE s == slot[i].ptr
<1>1. s \in Socks /\ IsSocket(sock[s])
  BY Zenon DEF Links, SlotRecords, SocketRecords
<1>2. CASE sock[s].state = "SS_CONNECTED"
  BY <1>2 DEF Send
<1>3. CASE sock[s].state # "SS_CONNECTED"
  <2>1. PICK r : r = [sock[s] EXCEPT !.reset = FALSE]
    OBVIOUS
  <2>2. r.state = sock[s].state /\ r.peer = sock[s].peer /\ r.head = sock[s].head
    BY <1>1, <2>1, FieldsStay
  <2>3. sock' = [sock EXCEPT ![s] = r]
    BY <1>3, <2>1 DEF Send
  <2> HIDE DEF s
  <2>4. \A q \in Socks : sock'[q] = IF q = s THEN r ELSE sock[q]
    BY <2>3 DEF Links, SocketRecords
  <2> QED BY <2>2, <2>4
<1> QED BY <1>2, <1>3

\* What is sent is one more answer in the client's record.
LEMMA SendToClient ==
    ASSUME Connections, NEW s, NEW what, Send(s, what)
    PROVE  /\ client' = [c \in CLIENTS |-> client'[c]]
           /\ \A c \in CLIENTS :
                /\ IsClient(client'[c]) /\ client'[c].phase = client[c].phase
                /\ client'[c].fin = client[c].fin
<1>1. CASE client' = client
  BY <1>1 DEF Connections
<1>2. CASE client' = [client EXCEPT ![sock[s].peer].got = Append(@, what)]
  <2>1. PICK p, g : client' = [client EXCEPT ![p] = [client[p] EXCEPT !.got = g]]
    BY <1>2
  <2>2. /\ client' = [c \in CLIENTS |-> client'[c]]
        /\ \A c \in CLIENTS : client'[c] = IF c = p THEN [client[p] EXCEPT !.got = g] ELSE client[c]
    BY <2>1 DEF Connections
  <2>3. ASSUME NEW c \in CLIENTS
        PROVE  /\ IsClient(client'[c]) /\ client'[c].phase = client[c].phase
               /\ client'[c].fin = client[c].fin
    <3>1. CASE c = p
      <4>1. PICK u : u = client'[c]
        OBVIOUS
      <4>2. u = [client[c] EXCEPT !.got = g] /\ IsClient(client[c])
        BY <2>2, <3>1, <4>1 DEF Connections
      <4> QED BY <4>1, <4>2, ClientFields
    <3>2. CASE c # p
      BY <2>2, <3>2 DEF Connections
    <3> QED BY <3>1, <3>2
  <2> QED BY <2>2, <2>3
<1> QED BY <1>1, <1>2 DEF Send

\* Sending keeps the connections.
LEMMA SendKept ==
    ASSUME Links, Connections, NEW i \in Slots, slot[i].ptr # 0,
           NEW what, Send(slot[i].ptr, what), slot' = slot
    PROVE  Kept
<1>1. \A q \in Socks :
        /\ sock'[q].state = sock[q].state /\ sock'[q].peer = sock[q].peer
        /\ sock'[q].head = sock[q].head
  BY SendData
<1>2. /\ client' = [c \in CLIENTS |-> client'[c]]
      /\ \A c \in CLIENTS : IsClient(client'[c]) /\ client'[c].phase = client[c].phase
  BY SendToClient
<1> QED BY <1>1, <1>2, DataKept

\* Closing: the clients whose connection it was hold it no longer, no other does.
LEMMA DisconnectKept ==
    ASSUME Links, Connections, NEW i \in Slots, slot[i].ptr # 0, Disconnect(i)
    PROVE  Kept
<1> DEFINE s == slot[i].ptr
           gone == {s} \union Incoming(s)
           end == IF sock[s].state = "SS_CONNECTED" THEN "closed" ELSE "aborted"
<1>1. /\ \A q \in Socks : sock'[q] = IF q \in gone THEN Unused ELSE sock[q]
      /\ slot' = [slot EXCEPT ![i].ptr = 0]
  BY DEF Disconnect, Close
<1>2. /\ client' = [c \in CLIENTS |-> client'[c]]
      /\ \A c \in CLIENTS : client'[c] = IF SocketsOf(c) \intersect gone = {} THEN client[c]
                                         ELSE [client[c] EXCEPT !.phase = end]
  BY DEF Disconnect, Close
<1>3. Unused.peer = "nobody" /\ Unused.state = "UNUSED"
  BY DEF Unused
<1>4. gone \subseteq Socks
  BY DEF Incoming, Links, SlotRecords
<1> HIDE DEF s, gone, end
<1>5. \A c \in CLIENTS : IsClient(client'[c])
  <2> TAKE c \in CLIENTS
  <2>1. CASE client'[c] = client[c]
    BY <2>1 DEF Connections
  <2>2. CASE client'[c] = [client[c] EXCEPT !.phase = end]
    <3>1. PICK ph, se, fi, go : client[c] = [phase |-> ph, sent |-> se, fin |-> fi, got |-> go]
      BY DEF Connections, IsClient
    <3>2. PICK r : r = client'[c]
      OBVIOUS
    <3>3. r = [phase |-> end, sent |-> se, fin |-> fi, got |-> go]
      BY <2>2, <3>1, <3>2
    <3> QED BY <3>2, <3>3 DEF IsClient
  <2> QED BY <1>2, <2>1, <2>2
<1>6. \A c \in CLIENTS : SocketsOf(c) \intersect gone # {} => client[c].phase = "open"
  BY <1>4, SocketConstants DEF SocketsOf, Connections
<1>7. Left \subseteq Left'
  BY <1>2, <1>6 DEF Left
<1>8. \A q \in Socks : sock'[q].peer # "nobody" =>
         /\ q \notin gone /\ sock'[q] = sock[q]
         /\ sock[q].peer \in CLIENTS /\ client'[sock[q].peer] = client[sock[q].peer]
  <2> TAKE q \in Socks
  <2> HAVE sock'[q].peer # "nobody"
  <2>1. q \notin gone /\ sock'[q] = sock[q]
    BY <1>1, <1>3
  <2>2. sock[q].peer \in CLIENTS /\ SocketsOf(sock[q].peer) = {q}
    BY <2>1 DEF Connections, SocketsOf
  <2> QED BY <1>2, <2>1, <2>2
<1>9. \A q \in Socks : InUse(q)' /\ sock'[q].head # 0 =>
         sock'[q].state \in {"SS_CONNECTED", "SS_CLOSING"}
  BY <1>1, <1>3 DEF Connections, InUse
<1>10. Connections'
  <2>1. \A q \in Socks : sock'[q].peer # "nobody" =>
           sock'[q].peer \in CLIENTS /\ client'[sock'[q].peer].phase = "open"
    BY <1>8 DEF Connections
  <2>2. \A q, p \in Socks : sock'[q].peer = sock'[p].peer /\ sock'[q].peer # "nobody" => q = p
    <3> TAKE q, p \in Socks
    <3> HAVE sock'[q].peer = sock'[p].peer /\ sock'[q].peer # "nobody"
    <3>1. sock'[q] = sock[q] /\ sock'[p] = sock[p]
      BY <1>8
    <3> QED BY <3>1 DEF Connections
  <2> QED BY <1>2, <1>5, <1>9, <2>1, <2>2 DEF Connections
<1>11. \A j \in Slots : HasClosed(j)' => HasClosed(j)
  <2> TAKE j \in Slots
  <2> HAVE HasClosed(j)'
  <2>1. j # i /\ slot'[j] = slot[j] /\ slot[j].ptr # 0
    BY <1>1 DEF HasClosed, Links, SlotRecords
  <2>2. slot[j].ptr \in Socks /\ InUse(slot[j].ptr)' 
    BY <2>1, DisconnectKeeps DEF Links, SlotRecords, Owners
  <2>3. sock'[slot[j].ptr] = sock[slot[j].ptr]
    BY <1>1, <1>3, <2>1, <2>2 DEF InUse
  <2> QED BY <2>1, <2>3 DEF HasClosed
<1> QED BY <1>7, <1>10, <1>11 DEF Kept

\* Accepting: what waited is connected, or half of it is.
LEMMA AcceptKept ==
    ASSUME Links, Connections, NEW i \in Slots, Listens(i), NEW q \in Incoming(slot[i].ptr),
           sock' = Accepted(slot[i].ptr, q), slot' = [slot EXCEPT ![i].ptr = q],
           client' = client
    PROVE  Kept
<1> DEFINE l == slot[i].ptr
<1>1. /\ q \in Socks /\ sock[q].head = l /\ l # 0 /\ q # l /\ sock[l].peer = "nobody"
      /\ sock[q].state \in {"SS_CONNECTED", "SS_CLOSING"} /\ l \in Socks
  BY DEF Links, SlotRecords, Owners, Listens, Incoming, InUse, SocketRecords, Connections
<1>2. PICK r : r = [sock[q] EXCEPT !.head = 0]
  OBVIOUS
<1>3. r.state = sock[q].state /\ r.peer = sock[q].peer /\ r.head = 0
  <2>1. IsSocket(sock[q])
    BY <1>1 DEF Links, SocketRecords
  <2>2. PICK st, pe, he, rec, re : sock[q] =
           [state |-> st, peer |-> pe, head |-> he, received |-> rec, reset |-> re]
    BY <2>1 DEF IsSocket
  <2>3. r = [state |-> st, peer |-> pe, head |-> 0, received |-> rec, reset |-> re]
    BY <1>2, <2>2
  <2> QED BY <2>2, <2>3
<1>4. \A s \in Socks : sock'[s] = IF s = l THEN Unused ELSE IF s = q THEN r ELSE sock[s]
  BY <1>1, <1>2 DEF Accepted, Links, SocketRecords
<1>5. Unused.peer = "nobody" /\ Unused.state = "UNUSED"
  BY DEF Unused
<1>6. \A j \in Slots : slot'[j] = IF j = i THEN [slot[i] EXCEPT !.ptr = q] ELSE slot[j]
  BY DEF Links, SlotRecords
<1>7. slot'[i].ptr = q
  BY Zenon DEF Links, SlotRecords
<1> HIDE DEF l
<1>8. Connections' /\ Left \subseteq Left'
  <2>1. \A s \in Socks : sock'[s].peer = "nobody" \/ sock'[s].peer = sock[s].peer
    BY <1>3, <1>4, <1>5
  <2>2. \A s \in Socks : InUse(s)' /\ sock'[s].head # 0 =>
           sock'[s].state \in {"SS_CONNECTED", "SS_CLOSING"}
    BY <1>3, <1>4, <1>5 DEF Connections, InUse
  <2> QED BY <2>1, <2>2, ConnectionsKeep DEF Connections
<1>9. \A j \in Slots : HasClosed(j)' => HasClosed(j)
  <2> TAKE j \in Slots
  <2> HAVE HasClosed(j)'
  <2>1. j # i
    BY <1>1, <1>3, <1>4, <1>7 DEF HasClosed
  <2>2. slot'[j] = slot[j] /\ slot[j].ptr # 0
    BY <1>6, <2>1 DEF HasClosed
  <2>3. sock'[slot[j].ptr] = sock[slot[j].ptr]
    BY <2>1, <2>2, AcceptKeeps
  <2> QED BY <2>2, <2>3 DEF HasClosed
<1> QED BY <1>8, <1>9 DEF Kept

\* A socket nobody is connected to starts to listen.
LEMMA ListenKept ==
    ASSUME Links, Connections, NEW i \in Slots, slot[i].ptr # 0, sock[slot[i].ptr].peer = "nobody",
           Listen(slot[i].ptr), UNCHANGED <<client, slot>>
    PROVE  Kept /\ ~HasClosed(i)'
<1> DEFINE s == slot[i].ptr
<1>1. s \in Socks /\ IsSocket(sock[s]) /\ sock[s].head = 0
  BY DEF Links, SlotRecords, SocketRecords, Owners
<1>2. PICK r : r = [sock[s] EXCEPT !.state = "SS_LISTENING"]
  OBVIOUS
<1>3. r.state = "SS_LISTENING" /\ r.peer = "nobody" /\ r.head = 0
  <2>1. PICK st, pe, he, rec, re : sock[s] =
           [state |-> st, peer |-> pe, head |-> he, received |-> rec, reset |-> re]
    BY <1>1 DEF IsSocket
  <2>2. r = [state |-> "SS_LISTENING", peer |-> pe, head |-> he, received |-> rec, reset |-> re]
    BY <1>2, <2>1
  <2> QED BY <1>1, <2>1, <2>2
<1>4. \A q \in Socks : sock'[q] = IF q = s THEN r ELSE sock[q]
  BY <1>1, <1>2 DEF Listen, Links, SocketRecords
<1> HIDE DEF s
<1>5. Connections' /\ Left \subseteq Left'
  <2>1. \A q \in Socks : InUse(q)' /\ sock'[q].head # 0 =>
           sock'[q].state \in {"SS_CONNECTED", "SS_CLOSING"}
    BY <1>3, <1>4 DEF Connections, InUse
  <2> QED BY <1>3, <1>4, <2>1, ConnectionsKeep DEF Connections
<1>6. \A j \in Slots : HasClosed(j)' => HasClosed(j) /\ j # i
  BY <1>1, <1>3, <1>4 DEF HasClosed, Links, SlotRecords, s
<1> QED BY <1>5, <1>6 DEF Kept

\* A new socket is closed, in the slot that is being made.
LEMMA CreateKept ==
    ASSUME Links, Connections, NEW i \in Slots, slot[i].ptr = 0,
           NEW s \in Socks, ~InUse(s), Create(s),
           slot' = [slot EXCEPT ![i] = [ptr |-> s, port |-> FALSE]], client' = client
    PROVE  /\ Connections' /\ Left \subseteq Left'
           /\ \A j \in Slots \ {i} : HasClosed(j)' => HasClosed(j)
<1>1. PICK r : r = [Unused EXCEPT !.state = "SS_CLOSED"]
  OBVIOUS
<1>2. r.state = "SS_CLOSED" /\ r.peer = "nobody" /\ r.head = 0
  BY <1>1 DEF Unused
<1>3. \A q \in Socks : sock'[q] = IF q = s THEN r ELSE sock[q]
  BY <1>1 DEF Create, Links, SocketRecords
<1>4. Connections' /\ Left \subseteq Left'
  <2>1. \A q \in Socks : InUse(q)' /\ sock'[q].head # 0 =>
           sock'[q].state \in {"SS_CONNECTED", "SS_CLOSING"}
    BY <1>2, <1>3 DEF Connections, InUse
  <2> QED BY <1>2, <1>3, <2>1, ConnectionsKeep DEF Connections
<1>5. \A j \in Slots \ {i} : slot'[j] = slot[j]
  BY DEF Links, SlotRecords
<1>6. \A j \in Slots : slot[j].ptr # 0 => slot[j].ptr \in Socks /\ slot[j].ptr # s
  BY DEF Links, SlotRecords, Owners
<1> QED BY <1>3, <1>4, <1>5, <1>6 DEF HasClosed

\* A step that closes no slot's socket, of the thread or beside it.
LEMMA KeptCounts ==
    ASSUME CInv, Kept, IInv',
           th' = th \/ \A j \in Slots : HasClosed(j)' => ~(th.pc = "listen" /\ th.i = j)
    PROVE  CInv'
<1>1. Closed' \subseteq Closed
  BY DEF Closed, Kept
<1>2. Cardinality(Closed') <= Cardinality(Left')
  BY <1>1, CountKeeps DEF CInv, Kept
<1> QED BY <1>2 DEF CInv, Kept

\* The clients' steps.
LEMMA NetworkCounts ==
    ASSUME CInv, NEW c \in CLIENTS, Network(c), UNCHANGED <<slotVars, th>>
    PROVE  CInv'
<1>0. /\ Links /\ Connections /\ SocketRecords /\ SlotRecords /\ Owners
      /\ th' = th /\ slot' = slot /\ IInv'
  BY NetworkKeeps DEF CInv, IInv, Links, slotVars
<1>1. \A j \in Slots : slot[j].ptr # 0 =>
         slot[j].ptr \in Socks /\ InUse(slot[j].ptr) /\ sock[slot[j].ptr].head = 0
  BY <1>0 DEF SlotRecords, Owners
<1>2. IsClient(client[c]) /\ client = [d \in CLIENTS |-> client[d]]
  BY <1>0 DEF Connections
<1>3. \A s \in Socks : sock[s].peer # "nobody" =>
         sock[s].peer \in CLIENTS /\ client[sock[s].peer].phase = "open"
  BY <1>0 DEF Connections
<1>4. CASE Connect(c)
  <2>1. PICK r : r = [client[c] EXCEPT !.phase = "open"]
    OBVIOUS
  <2>2. IsClient(r) /\ r.phase = "open"
    BY <1>2, <2>1, ClientFields
  <2>3. /\ client' = [d \in CLIENTS |-> client'[d]]
        /\ \A d \in CLIENTS : client'[d] = IF d = c THEN r ELSE client[d]
    BY <1>2, <1>4, <2>1 DEF Connect
  <2>4. client[c].phase = "idle" /\ \A s \in Socks : sock[s].peer # c
    BY <1>3, <1>4, SocketConstants DEF Connect
  <2> DEFINE n == NewSocket
  <2>5. n \in Socks /\ ~InUse(n)
    BY <1>4, NewSocketIsFree DEF Connect
  <2>6. PICK l : sock' = [sock EXCEPT ![n] =
                    [Unused EXCEPT !.state = "SS_CONNECTED", !.peer = c, !.head = l]]
    BY <1>4 DEF Connect
  <2>7. PICK q : q = [Unused EXCEPT !.state = "SS_CONNECTED", !.peer = c, !.head = l]
    OBVIOUS
  <2>8. q = [state |-> "SS_CONNECTED", peer |-> c, head |-> l,
             received |-> << >>, reset |-> FALSE]
    BY <2>7 DEF Unused
  <2> HIDE DEF n
  <2>9. \A s \in Socks : sock'[s] = IF s = n THEN q ELSE sock[s]
    BY <1>0, <2>6, <2>7 DEF SocketRecords
  <2>10. Connections'
    <3>1. \A d \in CLIENTS : IsClient(client'[d])
      BY <1>0, <2>2, <2>3 DEF Connections
    <3>2. \A s \in Socks : sock'[s].peer # "nobody" =>
             sock'[s].peer \in CLIENTS /\ client'[sock'[s].peer].phase = "open"
      BY <1>3, <2>2, <2>3, <2>8, <2>9
    <3>3. \A s, p \in Socks : sock'[s].peer = sock'[p].peer /\ sock'[s].peer # "nobody" => s = p
      BY <1>0, <2>4, <2>8, <2>9 DEF Connections
    <3>4. \A s \in Socks : InUse(s)' /\ sock'[s].head # 0 =>
             sock'[s].state \in {"SS_CONNECTED", "SS_CLOSING"}
      BY <1>0, <2>8, <2>9 DEF Connections, InUse
    <3> QED BY <2>3, <3>1, <3>2, <3>3, <3>4 DEF Connections
  <2>11. Left \subseteq Left'
    BY <2>3, <2>4 DEF Left
  <2>12. \A j \in Slots : HasClosed(j)' => HasClosed(j)
    BY <1>0, <1>1, <2>5, <2>9 DEF HasClosed
  <2> QED BY <1>0, <2>10, <2>11, <2>12, KeptCounts DEF Kept
<1>5. CASE SendPiece(c)
  <2>1. PICK r : r = [client[c] EXCEPT !.sent = client[c].sent + 1]
    OBVIOUS
  <2>2. IsClient(r) /\ r.phase = client[c].phase
    BY <1>2, <2>1, ClientFields
  <2>3. /\ client' = [d \in CLIENTS |-> client'[d]]
        /\ \A d \in CLIENTS : client'[d] = IF d = c THEN r ELSE client[d]
    BY <1>2, <1>5, <2>1 DEF SendPiece
  <2>0. PICK m : \E s \in SocketsOf(c) : sock' = [sock EXCEPT ![s].received = m]
    BY <1>5 DEF SendPiece
  <2>4. PICK s \in SocketsOf(c) : sock' = [sock EXCEPT ![s].received = m]
    BY <2>0
  <2>5. PICK q : q = [sock[s] EXCEPT !.received = m]
    OBVIOUS
  <2>6. s \in Socks /\ IsSocket(sock[s])
    BY <1>0 DEF SocketRecords, SocketsOf
  <2>7. q.state = sock[s].state /\ q.peer = sock[s].peer /\ q.head = sock[s].head
    BY <2>5, <2>6, FieldsStay
  <2>8. \A p \in Socks : sock'[p] = IF p = s THEN q ELSE sock[p]
    BY <1>0, <2>4, <2>5 DEF SocketRecords
  <2>9. \A d \in CLIENTS : IsClient(client'[d]) /\ client'[d].phase = client[d].phase
    BY <1>0, <2>2, <2>3 DEF Connections
  <2>10. Kept
    BY <1>0, <2>3, <2>7, <2>8, <2>9, DataKept
  <2> QED BY <1>0, <2>10, KeptCounts
<1>6. CASE HalfClose(c)
  <2>1. PICK r : r = [client[c] EXCEPT !.fin = TRUE]
    OBVIOUS
  <2>2. IsClient(r) /\ r.phase = client[c].phase
    BY <1>2, <2>1, ClientFields
  <2>3. /\ client' = [d \in CLIENTS |-> client'[d]]
        /\ \A d \in CLIENTS : client'[d] = IF d = c THEN r ELSE client[d]
    BY <1>2, <1>6, <2>1 DEF HalfClose
  <2>4. PICK s \in SocketsOf(c) : sock' = [sock EXCEPT ![s].state = "SS_CLOSING"]
    BY <1>6 DEF HalfClose
  <2>5. PICK q : q = [sock[s] EXCEPT !.state = "SS_CLOSING"]
    OBVIOUS
  <2>6. s \in Socks /\ IsSocket(sock[s])
    BY <1>0 DEF SocketRecords, SocketsOf
  <2>7. q.state = "SS_CLOSING" /\ q.peer = sock[s].peer
    <3>1. PICK st, pe, he, rec, re : sock[s] =
             [state |-> st, peer |-> pe, head |-> he, received |-> rec, reset |-> re]
      BY <2>6 DEF IsSocket
    <3>2. q = [state |-> "SS_CLOSING", peer |-> pe, head |-> he, received |-> rec, reset |-> re]
      BY <2>5, <3>1
    <3> QED BY <3>1, <3>2
  <2>8. \A p \in Socks : sock'[p] = IF p = s THEN q ELSE sock[p]
    BY <1>0, <2>4, <2>5 DEF SocketRecords
  <2>9. \A d \in CLIENTS : IsClient(client'[d]) /\ client'[d].phase = client[d].phase
    BY <1>0, <2>2, <2>3 DEF Connections
  <2>10. \A p \in Socks : InUse(p)' /\ sock'[p].head # 0 =>
             sock'[p].state \in {"SS_CONNECTED", "SS_CLOSING"}
    BY <1>0, <2>7, <2>8 DEF Connections, InUse
  <2>11. Connections' /\ Left \subseteq Left'
    BY <1>0, <2>3, <2>7, <2>8, <2>9, <2>10, ConnectionsKeep
  <2>12. \A j \in Slots : HasClosed(j)' => HasClosed(j)
    BY <1>0, <1>1, <2>7, <2>8 DEF HasClosed
  <2> QED BY <1>0, <2>11, <2>12, KeptCounts DEF Kept
<1>7. CASE Reset(c)
  <2>1. PICK r : r = [client[c] EXCEPT !.phase = "left"]
    OBVIOUS
  <2>2. IsClient(r) /\ r.phase = "left"
    BY <1>2, <2>1, ClientFields
  <2>3. /\ client' = [d \in CLIENTS |-> client'[d]]
        /\ \A d \in CLIENTS : client'[d] = IF d = c THEN r ELSE client[d]
    BY <1>2, <1>7, <2>1 DEF Reset
  <2>4. c \notin Left /\ Left' = Left \union {c}
    BY <1>7, <2>2, <2>3 DEF Left, Reset
  <2>5. PICK s \in SocketsOf(c) :
          sock' = [sock EXCEPT ![s] =
                     IF @.head # 0 THEN Unused
                     ELSE [@ EXCEPT !.state = "SS_CLOSED", !.peer = "nobody", !.reset = TRUE]]
    BY <1>7 DEF Reset
  <2>6. s \in Socks /\ IsSocket(sock[s]) /\ sock[s].peer = c
    BY <1>0 DEF SocketRecords, SocketsOf
  <2>7. PICK q : /\ \A p \in Socks : sock'[p] = IF p = s THEN q ELSE sock[p]
                 /\ q.peer = "nobody" /\ (q.state # "UNUSED" => q.head = 0)
    <3>1. CASE sock[s].head # 0
      <4>1. \A p \in Socks : sock'[p] = IF p = s THEN Unused ELSE sock[p]
        BY <1>0, <2>5, <3>1 DEF SocketRecords
      <4>2. Unused.peer = "nobody" /\ Unused.state = "UNUSED"
        BY DEF Unused
      <4> QED BY <4>1, <4>2
    <3>2. CASE sock[s].head = 0
      <4>1. PICK q : q = [sock[s] EXCEPT !.state = "SS_CLOSED", !.peer = "nobody", !.reset = TRUE]
        OBVIOUS
      <4>2. \A p \in Socks : sock'[p] = IF p = s THEN q ELSE sock[p]
        BY <1>0, <2>5, <3>2, <4>1 DEF SocketRecords
      <4>3. q.peer = "nobody" /\ q.head = sock[s].head
        BY <2>6, <4>1, ClosedFields
      <4> QED BY <3>2, <4>2, <4>3
    <3> QED BY <3>1, <3>2
  <2>8. Connections'
    <3>1. \A d \in CLIENTS : IsClient(client'[d])
      BY <1>0, <2>2, <2>3 DEF Connections
    <3>2. \A p \in Socks : p # s => sock[p].peer # c
      BY <1>0, <2>6, SocketConstants DEF Connections
    <3>3. \A p \in Socks : sock'[p].peer # "nobody" =>
             sock'[p].peer \in CLIENTS /\ client'[sock'[p].peer].phase = "open"
      BY <1>3, <2>3, <2>7, <3>2
    <3>4. \A p, o \in Socks : sock'[p].peer = sock'[o].peer /\ sock'[p].peer # "nobody" => p = o
      BY <1>0, <2>7 DEF Connections
    <3>5. \A p \in Socks : InUse(p)' /\ sock'[p].head # 0 =>
             sock'[p].state \in {"SS_CONNECTED", "SS_CLOSING"}
      BY <1>0, <2>7 DEF Connections, InUse
    <3> QED BY <2>3, <3>1, <3>3, <3>4, <3>5 DEF Connections
  <2>9. \E i : Closed' \subseteq Closed \union {i}
    <3>1. \A j \in Slots : HasClosed(j)' => HasClosed(j) \/ slot[j].ptr = s
      BY <1>0, <1>1, <2>7 DEF HasClosed
    <3>2. \A j, k \in Slots : slot[j].ptr = s /\ slot[k].ptr = s => j = k
      BY <1>0, <2>6, Numbered DEF Owners
    <3>3. CASE \E i \in Slots : slot[i].ptr = s
      <4>1. PICK i \in Slots : slot[i].ptr = s
        BY <3>3
      <4>2. Closed' \subseteq Closed \union {i}
        BY <1>0, <3>1, <3>2, <4>1 DEF Closed
      <4> QED BY <4>2
    <3>4. CASE ~ \E i \in Slots : slot[i].ptr = s
      <4>1. Closed' \subseteq Closed \union {0}
        BY <1>0, <3>1, <3>4 DEF Closed
      <4> QED BY <4>1
    <3> QED BY <3>3, <3>4
  <2>10. Cardinality(Closed') <= Cardinality(Left')
    BY <2>4, <2>9, CountsReset DEF CInv
  <2> QED BY <1>0, <2>8, <2>10 DEF CInv
<1> QED BY <1>4, <1>5, <1>6, <1>7 DEF Network

\* available(): it closes no socket but one of a connection that is over.
LEMMA ScanActCounts ==
    ASSUME CInv, ScanSkips \/ ScanReadsStatus \/ ScanEnds
                   \/ ActOnConnection \/ ActOnListening \/ ActOnClosed
    PROVE  CInv'
<1>1. /\ Links /\ Connections /\ IInv' /\ th.pc # "listen"
      /\ SlotRecords /\ \A j \in Slots : slot[j].ptr # 0 => slot[j].ptr \in Socks
  BY ScanStepKeeps, ActStepKeeps DEF CInv, IInv, Links, SlotRecords,
     ScanSkips, ScanReadsStatus, ScanEnds, ActOnConnection, ActOnListening, ActOnClosed
<1>2. CASE ScanSkips \/ ScanReadsStatus \/ ScanEnds \/ ActOnListening
  <2>1. UNCHANGED <<sock, client, slot>>
    BY <1>2 DEF ScanSkips, ScanReadsStatus, ScanEnds, ActOnListening, socketVars, slotVars
  <2> QED BY <1>1, <2>1, StayKept, KeptCounts
<1>3. CASE ActOnClosed
  <2>1. /\ sock' = sock /\ client' = client
        /\ slot' = [slot EXCEPT ![th.i].port = FALSE] /\ th.i \in Slots
    BY <1>3 DEF ActOnClosed, socketVars, CInv, IInv, Uses
  <2>2. \A j \in Slots : slot'[j].ptr = slot[j].ptr
    BY <1>1, <2>1, PortKeeps
  <2>3. Connections' /\ Left \subseteq Left'
    BY <1>1, <2>1, ConnectionsKeep DEF Connections, InUse
  <2>4. Kept
    BY <1>1, <2>1, <2>2, <2>3 DEF Kept, HasClosed
  <2> QED BY <1>1, <2>4, KeptCounts
<1>4. CASE ActOnConnection
  <2>1. th.i \in Slots /\ slot[th.i].ptr # 0
    BY <1>4 DEF ActOnConnection, CInv, IInv, Uses
  <2>2. \/ UNCHANGED <<sock, client, slot>>
        \/ Disconnect(th.i)
        \/ Recv(slot[th.i].ptr) /\ UNCHANGED <<client, slot>>
    BY <1>4 DEF ActOnConnection, socketVars
  <2>3. Kept
    BY <1>1, <2>1, <2>2, StayKept, DisconnectKept, RecvKept
  <2> QED BY <1>1, <2>3, KeptCounts
<1> QED BY <1>2, <1>3, <1>4

\* begin(): the socket it makes is closed until it listens, and is not counted.
LEMMA BeginCounts ==
    ASSUME CInv, socketBegin \/ BeginListens \/ BeginMarks \/ BeginRegisters \/ BeginAssigns
    PROVE  CInv'
<1>1. Links /\ Connections /\ IInv' /\ IsThread(th)
  BY socketBeginKeeps, BeginStepKeeps DEF CInv, IInv, Links, Uses
<1>2. CASE socketBegin
  <2>1. th.pc = "socketBegin" /\ client' = client
    BY <1>2 DEF socketBegin
  <2>2. CASE NullSlots = {}
    <3>1. UNCHANGED <<sock, client, slot>>
      BY <1>2, <2>1, <2>2 DEF socketBegin
    <3> QED BY <1>1, <2>1, <3>1, StayKept, KeptCounts
  <2>3. CASE NullSlots # {}
    <3> DEFINE i == FirstNull
               s == NewSocket
    <3>1. i \in Slots /\ slot[i].ptr = 0
      BY <2>3, FirstNullIsNull
    <3>2. \A j \in Slots : ~Listens(j)
      BY <2>1 DEF CInv, IInv, OneListens
    <3>3. s \in Socks /\ ~InUse(s)
      BY <1>1, <3>2, EnoughSockets, NewSocketIsFree
    <3>4. /\ Create(s) /\ slot' = [slot EXCEPT ![i] = [ptr |-> s, port |-> FALSE]]
          /\ th' = [th EXCEPT !.pc = "listen", !.i = i]
      BY <1>2, <2>3 DEF socketBegin
    <3> HIDE DEF i, s
    <3>5. /\ Connections' /\ Left \subseteq Left'
          /\ \A j \in Slots \ {i} : HasClosed(j)' => HasClosed(j)
      BY <1>1, <2>1, <3>1, <3>3, <3>4, CreateKept, Zenon
    <3>6. th'.pc = "listen" /\ th'.i = i
      <4>1. ThreadIs(th', "listen", i, th.status, th.listening, th.found)
        BY <1>1, <3>4, ThreadSteps, Zenon
      <4> QED BY <4>1 DEF ThreadIs
    <3>7. Closed' \subseteq Closed
      BY <2>1, <3>5, <3>6 DEF Closed
    <3>8. Cardinality(Closed') <= Cardinality(Left')
      BY <3>5, <3>7, CountKeeps DEF CInv
    <3> QED BY <1>1, <3>5, <3>8 DEF CInv
  <2> QED BY <2>2, <2>3
<1>3. CASE BeginListens
  <2>1. /\ th.i \in Slots /\ slot[th.i].ptr # 0 /\ sock[slot[th.i].ptr].peer = "nobody"
        /\ Listen(slot[th.i].ptr) /\ UNCHANGED <<client, slot>>
    BY <1>3 DEF BeginListens, CInv, IInv, Uses, slotVars
  <2>2. Kept /\ \A j \in Slots : HasClosed(j)' => j # th.i
    <3>1. PICK i \in Slots : i = th.i
      BY <2>1
    <3>2. Kept /\ ~HasClosed(i)'
      BY <1>1, <2>1, <3>1, ListenKept
    <3> QED BY <3>1, <3>2
  <2> QED BY <1>1, <2>2, KeptCounts
<1>4. CASE BeginMarks
  <2>1. /\ sock' = sock /\ client' = client /\ th.pc = "mark"
        /\ slot' = [slot EXCEPT ![th.i].port = TRUE] /\ th.i \in Slots
    BY <1>4 DEF BeginMarks, socketVars, CInv, IInv, Uses
  <2>2. \A j \in Slots : slot'[j].ptr = slot[j].ptr
    BY <1>1, <2>1, PortKeeps
  <2>3. Connections' /\ Left \subseteq Left'
    BY <1>1, <2>1, ConnectionsKeep DEF Connections, InUse
  <2>4. Kept
    BY <2>1, <2>2, <2>3 DEF Kept, HasClosed
  <2> QED BY <1>1, <2>1, <2>4, KeptCounts
<1>5. CASE BeginRegisters
  <2>1. UNCHANGED <<sock, client, slot>> /\ th.pc = "register"
    BY <1>5 DEF BeginRegisters, socketVars
  <2> QED BY <1>1, <2>1, StayKept, KeptCounts
<1>6. CASE BeginAssigns
  <2>1. /\ th.i \in Slots /\ slot[th.i].ptr # 0 /\ th.pc = "assign"
        /\ Disconnect(th.i) \/ UNCHANGED <<sock, client, slot>>
    BY <1>6 DEF BeginAssigns, CInv, IInv, Uses
  <2>2. Kept
    BY <1>1, <2>1, DisconnectKept, StayKept
  <2> QED BY <1>1, <2>1, <2>2, KeptCounts
<1> QED BY <1>2, <1>3, <1>4, <1>5, <1>6

\* The service's steps.
LEMMA ServiceCounts ==
    ASSUME CInv, ServiceStep
    PROVE  CInv'
<1>1. /\ Links /\ Connections /\ IInv' /\ th.pc # "listen"
      /\ th.found \in Slots \union {0}
  BY ServiceStepKeeps DEF CInv, IInv, Links, Uses, ServiceStep, NobodyThere, ConnectedAfterFin,
     Connected, ReadsRequest, WritesHead, WritesBody, Write, Stops
<1>2. CASE NobodyThere \/ Connected
  <2>1. UNCHANGED <<sock, client, slot>>
    BY <1>2 DEF NobodyThere, Connected, socketVars, slotVars
  <2> QED BY <1>1, <2>1, StayKept, KeptCounts
<1>3. CASE ConnectedAfterFin \/ ReadsRequest
  <2>1. /\ UNCHANGED <<client, slot>> /\ th.found \in Slots /\ slot[th.found].ptr # 0
        /\ Recv(slot[th.found].ptr) \/ sock' = sock
    BY <1>1, <1>3, StatusSays
       DEF ConnectedAfterFin, ReadsRequest, ClientAvailable, slotVars, CInv, IInv, Uses
  <2>2. Kept
    BY <1>1, <2>1, RecvKept, StayKept
  <2> QED BY <1>1, <2>2, KeptCounts
<1>4. CASE WritesHead \/ WritesBody
  <2>1. /\ slot' = slot /\ th.found \in Slots /\ slot[th.found].ptr # 0
        /\ \E what : Send(slot[th.found].ptr, what)
    BY <1>4 DEF WritesHead, WritesBody, Write, slotVars, CInv, IInv, Uses
  <2>2. Kept
    BY <1>1, <2>1, SendKept
  <2> QED BY <1>1, <2>2, KeptCounts
<1>5. CASE Stops
  <2>1. th.found \in Slots /\ slot[th.found].ptr # 0 /\ Disconnect(th.found)
    BY <1>5 DEF Stops, CInv, IInv, Uses
  <2>2. Kept
    BY <1>1, <2>1, DisconnectKept
  <2> QED BY <1>1, <2>2, KeptCounts
<1> QED BY <1>2, <1>3, <1>4, <1>5 DEF ServiceStep

\* poll() puts a connection where a listening socket was.
LEMMA PollCounts ==
    ASSUME CInv, Poll
    PROVE  CInv'
<1>1. Links /\ Connections /\ IInv' /\ th' = th /\ client' = client
  BY PollKeeps DEF CInv, IInv, Links, Poll
<1>2. PICK i \in Slots :
        /\ socketStatus(i) = "LISTEN"
        /\ \/ UNCHANGED <<sock, slot>>
           \/ \E q \in Incoming(slot[i].ptr) :
                 sock' = Accepted(slot[i].ptr, q) /\ slot' = [slot EXCEPT ![i].ptr = q]
  BY DEF Poll
<1>3. Listens(i)
  BY <1>2, StatusSays
<1>4. Kept
  BY <1>1, <1>2, <1>3, StayKept, AcceptKept
<1> QED BY <1>1, <1>4, KeptCounts

\* At the start nobody holds a connection, and no slot has a socket.
LEMMA InitiallyCounts == Init => CInv
<1> SUFFICES ASSUME Init PROVE CInv
  OBVIOUS
<1>1. IInv
  BY Initially
<1>2. /\ sock = [s \in Socks |-> Unused] /\ slot \in [Slots -> [ptr : {0}, port : BOOLEAN]]
      /\ client = [c \in CLIENTS |->
                     [phase |-> "idle", sent |-> 0, fin |-> FALSE, got |-> << >>]]
  BY DEF Init, ServerInit, SocketInit, NewClient
<1>3. Unused.peer = "nobody" /\ Unused.head = 0
  BY DEF Unused
<1>4. Connections
  BY <1>2, <1>3 DEF Connections, IsClient
<1>5. Closed = {}
  BY <1>2 DEF Closed, HasClosed
<1>6. Left = {}
  BY <1>2 DEF Left
<1> QED BY <1>1, <1>4, <1>5, <1>6, FS_EmptySet DEF CInv

\* Every step of the thread, of the interrupts and of the clients, and of nobody.
LEMMA StepCounts == CInv /\ [Next]_vars => CInv'
<1> SUFFICES ASSUME CInv, [Next]_vars PROVE CInv'
  OBVIOUS
<1>1. CASE ServerStep
  BY <1>1, ScanActCounts, BeginCounts DEF ServerStep
<1>2. CASE ServiceStep
  BY <1>2, ServiceCounts
<1>3. CASE Poll
  BY <1>3, PollCounts
<1>4. CASE \E c \in CLIENTS : Network(c) /\ UNCHANGED <<slotVars, th>>
  BY <1>4, NetworkCounts
<1>5. CASE UNCHANGED vars
  <2>1. Links /\ Connections /\ IInv' /\ th' = th /\ UNCHANGED <<sock, client, slot>>
    BY <1>5, Stutters DEF CInv, IInv, Links, vars, socketVars, slotVars
  <2> QED BY <2>1, StayKept, KeptCounts
<1> QED BY <1>1, <1>2, <1>3, <1>4, <1>5 DEF Next

\* However many clients reset their connections, and wherever the server and the
\* interrupt are, each reset costs at most one slot and nothing else costs any.
THEOREM ResetsCostTheSlots == Spec => []SlotsLostToResets
<1>1. Init => CInv
  BY InitiallyCounts
<1>2. CInv /\ [Next]_vars => CInv'
  BY StepCounts
<1>3. CInv => SlotsLostToResets
  BY LostAreClosed
<1> QED BY <1>1, <1>2, <1>3, PTL DEF Spec

-----------------------------------------------------------------------------
(***************************************************************************)
(* Nothing is lost as long as no client resets or closes its half.         *)
(***************************************************************************)
Held(f) == slot[f].ptr # 0 /\ sock[slot[f].ptr].state = "SS_CONNECTED"

\* No call fails, because the thread's socket is connected: nobody but the thread
\* closes it, and it closes others.
Peace ==
    /\ error # "NOTCONN"
    /\ \A s \in Socks : sock[s].state # "SS_CLOSING"
    /\ th.found # 0 => Held(th.found)
    /\ th.pc = "act" => /\ th.status # "CLOSE_WAIT"
                        /\ th.status = "ESTABLISHED" => Held(th.i)
    /\ th.pc \in {"listen", "mark", "register", "assign"} => th.i # th.found
    /\ th.pc \notin {"head", "body", "stop"} => th.remaining = 0

PInv == CInv /\ (Peaceful => Peace)

-----------------------------------------------------------------------------
\* No connection of these slots, nor any other, hears from its client that it ends.
Calm(F) ==
    /\ \A s \in Socks : sock'[s].state = "SS_CLOSING" => sock[s].state = "SS_CLOSING"
    /\ \A f \in F : Held(f) => Held(f)'

\* Steps that change the data of sockets only.
LEMMA DataCalm ==
    ASSUME Links, slot' = slot, \A s \in Socks : sock'[s].state = sock[s].state
    PROVE  Calm(Slots)
<1>1. \A f \in Slots : slot[f].ptr # 0 => slot[f].ptr \in Socks
  BY DEF Links, SlotRecords
<1> QED BY <1>1 DEF Calm, Held

\* Closing one slot's socket leaves the others'.
LEMMA DisconnectCalm ==
    ASSUME Links, NEW i \in Slots, slot[i].ptr # 0, Disconnect(i)
    PROVE  Calm(Slots \ {i})
<1> DEFINE gone == {slot[i].ptr} \union Incoming(slot[i].ptr)
<1>1. \A q \in Socks : sock'[q] = IF q \in gone THEN Unused ELSE sock[q]
  BY DEF Disconnect, Close
<1>2. Unused.state = "UNUSED"
  BY DEF Unused
<1>3. Links' /\ \A j \in Slots \ {i} : slot'[j] = slot[j]
  BY DisconnectKeeps
<1> HIDE DEF gone
<1>4. ASSUME NEW f \in Slots \ {i}, Held(f) PROVE Held(f)'
  <2>1. slot'[f] = slot[f] /\ slot[f].ptr # 0
    BY <1>3, <1>4 DEF Held
  <2>2. slot[f].ptr \in Socks /\ sock'[slot[f].ptr].state # "UNUSED"
    BY <1>3, <2>1 DEF Links, SlotRecords, Owners, InUse
  <2>3. sock'[slot[f].ptr] = sock[slot[f].ptr]
    BY <1>1, <1>2, <2>2
  <2> QED BY <1>4, <2>1, <2>3 DEF Held
<1> QED BY <1>1, <1>2, <1>4 DEF Calm

\* Accepting leaves the connections that were accepted before.
LEMMA AcceptCalm ==
    ASSUME Links, NEW i \in Slots, Listens(i), NEW q \in Incoming(slot[i].ptr),
           sock' = Accepted(slot[i].ptr, q), slot' = [slot EXCEPT ![i].ptr = q]
    PROVE  Calm(Slots)
<1> DEFINE l == slot[i].ptr
<1>1. q \in Socks /\ q # l /\ l \in Socks
  BY DEF Links, SlotRecords, Owners, Listens, Incoming, InUse, SocketRecords
<1>2. PICK r : r = [sock[q] EXCEPT !.head = 0]
  OBVIOUS
<1>3. r.state = sock[q].state
  <2>1. IsSocket(sock[q])
    BY <1>1 DEF Links, SocketRecords
  <2>2. PICK st, pe, he, rec, re : sock[q] =
           [state |-> st, peer |-> pe, head |-> he, received |-> rec, reset |-> re]
    BY <2>1 DEF IsSocket
  <2>3. r = [state |-> st, peer |-> pe, head |-> 0, received |-> rec, reset |-> re]
    BY <1>2, <2>2
  <2> QED BY <2>2, <2>3
<1>4. \A s \in Socks : sock'[s] = IF s = l THEN Unused ELSE IF s = q THEN r ELSE sock[s]
  BY <1>1, <1>2 DEF Accepted, Links, SocketRecords
<1>5. Unused.state = "UNUSED"
  BY DEF Unused
<1>6. \A s \in Socks : sock'[s].state = "SS_CLOSING" => sock[s].state = "SS_CLOSING"
  BY <1>3, <1>4, <1>5
<1>7. ASSUME NEW f \in Slots, Held(f) PROVE Held(f)'
  <2>1. f # i
    BY <1>7 DEF Held, Listens
  <2>2. slot'[f] = slot[f] /\ sock'[slot[f].ptr] = sock[slot[f].ptr]
    BY <1>7, <2>1, AcceptKeeps DEF Held
  <2> QED BY <1>7, <2>2 DEF Held
<1> QED BY <1>6, <1>7 DEF Calm

\* A socket that starts to listen is nobody's connection.
LEMMA ListenCalm ==
    ASSUME Links, NEW i \in Slots, slot[i].ptr # 0, sock[slot[i].ptr].state = "SS_CLOSED",
           Listen(slot[i].ptr), slot' = slot
    PROVE  Calm(Slots)
<1> DEFINE s == slot[i].ptr
<1>1. s \in Socks /\ IsSocket(sock[s])
  BY DEF Links, SlotRecords, SocketRecords
<1>2. PICK r : r = [sock[s] EXCEPT !.state = "SS_LISTENING"]
  OBVIOUS
<1>3. r.state = "SS_LISTENING"
  <2>1. PICK st, pe, he, rec, re : sock[s] =
           [state |-> st, peer |-> pe, head |-> he, received |-> rec, reset |-> re]
    BY <1>1 DEF IsSocket
  <2>2. r = [state |-> "SS_LISTENING", peer |-> pe, head |-> he, received |-> rec, reset |-> re]
    BY <1>2, <2>1
  <2> QED BY <2>2
<1>4. \A q \in Socks : sock'[q] = IF q = s THEN r ELSE sock[q]
  BY <1>1, <1>2 DEF Listen, Links, SocketRecords
<1>5. sock[s].state = "SS_CLOSED" /\ \A f \in Slots : slot[f].ptr # 0 => slot[f].ptr \in Socks
  BY DEF Links, SlotRecords
<1> HIDE DEF s
<1> QED BY <1>3, <1>4, <1>5 DEF Calm, Held

\* A new socket, in a slot that had none.
LEMMA CreateCalm ==
    ASSUME Links, NEW i \in Slots, slot[i].ptr = 0,
           NEW s \in Socks, ~InUse(s), Create(s),
           slot' = [slot EXCEPT ![i] = [ptr |-> s, port |-> FALSE]]
    PROVE  Calm(Slots)
<1>1. PICK r : r = [Unused EXCEPT !.state = "SS_CLOSED"]
  OBVIOUS
<1>2. r.state = "SS_CLOSED"
  BY <1>1 DEF Unused
<1>3. \A q \in Socks : sock'[q] = IF q = s THEN r ELSE sock[q]
  BY <1>1 DEF Create, Links, SocketRecords
<1>4. \A j \in Slots \ {i} : slot'[j] = slot[j]
  BY DEF Links, SlotRecords
<1>5. \A j \in Slots : slot[j].ptr # 0 => slot[j].ptr \in Socks /\ slot[j].ptr # s
  BY DEF Links, SlotRecords, Owners
<1>6. ASSUME NEW f \in Slots, Held(f) PROVE Held(f)'
  <2>1. f # i /\ slot[f].ptr # 0
    BY <1>6 DEF Held
  <2>2. slot'[f] = slot[f] /\ sock'[slot[f].ptr] = sock[slot[f].ptr]
    BY <1>3, <1>4, <1>5, <2>1
  <2> QED BY <1>6, <2>2 DEF Held
<1> QED BY <1>2, <1>3, <1>6 DEF Calm

\* A connection, and segments of a client that keeps both ways open.
LEMMA NetworkCalm ==
    ASSUME Links, NEW c \in CLIENTS, Connect(c) \/ SendPiece(c), slot' = slot
    PROVE  Calm(Slots)
<1>1. CASE Connect(c)
  <2> DEFINE n == NewSocket
  <2>1. n \in Socks /\ ~InUse(n)
    BY <1>1, NewSocketIsFree DEF Connect
  <2>2. PICK l : sock' = [sock EXCEPT ![n] =
                    [Unused EXCEPT !.state = "SS_CONNECTED", !.peer = c, !.head = l]]
    BY <1>1 DEF Connect
  <2>3. PICK q : q = [Unused EXCEPT !.state = "SS_CONNECTED", !.peer = c, !.head = l]
    OBVIOUS
  <2>4. q = [state |-> "SS_CONNECTED", peer |-> c, head |-> l,
             received |-> << >>, reset |-> FALSE]
    BY <2>3 DEF Unused
  <2> HIDE DEF n
  <2>5. \A s \in Socks : sock'[s] = IF s = n THEN q ELSE sock[s]
    BY <2>2, <2>3 DEF Links, SocketRecords
  <2>6. \A f \in Slots : slot[f].ptr # 0 => slot[f].ptr \in Socks
    BY DEF Links, SlotRecords
  <2> QED BY <2>4, <2>5, <2>6 DEF Calm, Held
<1>2. CASE SendPiece(c)
  <2>0. PICK m : \E s \in SocketsOf(c) : sock' = [sock EXCEPT ![s].received = m]
    BY <1>2 DEF SendPiece
  <2>1. PICK s \in SocketsOf(c) : sock' = [sock EXCEPT ![s].received = m]
    BY <2>0
  <2>2. PICK q : q = [sock[s] EXCEPT !.received = m]
    OBVIOUS
  <2>3. s \in Socks /\ IsSocket(sock[s])
    BY DEF Links, SocketRecords, SocketsOf
  <2>4. q.state = sock[s].state
    BY <2>2, <2>3, FieldsStay
  <2>5. \A p \in Socks : sock'[p] = IF p = s THEN q ELSE sock[p]
    BY <2>1, <2>2 DEF Links, SocketRecords
  <2> QED BY <2>4, <2>5, DataCalm
<1> QED BY <1>1, <1>2

\* The data the thread has read.
LEMMA ThreadData ==
    ASSUME NEW t, IsThread(t), NEW u, NEW a, NEW b, NEW c, NEW d
    PROVE  /\ u = [t EXCEPT !.pc = a] => u.remaining = t.remaining /\ u.text = t.text
           /\ u = [t EXCEPT !.pc = a, !.i = b] => u.remaining = t.remaining
           /\ u = [t EXCEPT !.pc = a, !.status = b] => u.remaining = t.remaining
           /\ u = [t EXCEPT !.pc = a, !.entry = b] => u.remaining = t.remaining
           /\ u = [t EXCEPT !.pc = a, !.i = b, !.found = c, !.listening = d] =>
                u.remaining = t.remaining
           /\ u = [t EXCEPT !.pc = a, !.text = b] => u.text = b
           /\ u = [t EXCEPT !.pc = a, !.text = b, !.remaining = c] => u.text = b
<1>1. PICK pc, i, st, li, fo, en, re, te : t =
         [pc |-> pc, i |-> i, status |-> st, listening |-> li, found |-> fo,
          entry |-> en, remaining |-> re, text |-> te]
  BY DEF IsThread
<1>2. /\ u = [t EXCEPT !.pc = a] => u.remaining = re /\ u.text = te
      /\ u = [t EXCEPT !.pc = a, !.i = b] => u.remaining = re
      /\ u = [t EXCEPT !.pc = a, !.status = b] => u.remaining = re
      /\ u = [t EXCEPT !.pc = a, !.entry = b] => u.remaining = re
      /\ u = [t EXCEPT !.pc = a, !.i = b, !.found = c, !.listening = d] => u.remaining = re
      /\ u = [t EXCEPT !.pc = a, !.text = b] => u.text = b
      /\ u = [t EXCEPT !.pc = a, !.text = b, !.remaining = c] => u.text = b
  BY <1>1
<1>3. t.remaining = re /\ t.text = te
  BY <1>1
<1> QED BY <1>2, <1>3

-----------------------------------------------------------------------------
\* What a client has done to its connection is not undone.
LEMMA PeaceWas ==
    ASSUME \A c \in CLIENTS : client'[c].fin = client[c].fin, Left \subseteq Left', Peaceful'
    PROVE  Peaceful
BY DEF Peaceful, Left

\* Closing a connection from here is not the client's FIN.
LEMMA DisconnectFin ==
    ASSUME Connections, NEW i, Disconnect(i)
    PROVE  \A c \in CLIENTS : client'[c].fin = client[c].fin
<1> TAKE c \in CLIENTS
<1>1. CASE client'[c] = client[c]
  BY <1>1
<1>2. CASE client'[c] # client[c]
  <2>1. \E end : client'[c] = [client[c] EXCEPT !.phase = end]
    BY <1>2 DEF Disconnect, Close
  <2>2. PICK end : client'[c] = [client[c] EXCEPT !.phase = end]
    BY <2>1
  <2>3. PICK u : u = client'[c]
    OBVIOUS
  <2>4. IsClient(client[c]) /\ u = [client[c] EXCEPT !.phase = end]
    BY <2>2, <2>3 DEF Connections
  <2> QED BY <2>3, <2>4, ClientFields
<1> QED BY <1>1, <1>2

\* No client ends its connection in a step after which all are peaceful.
LEMMA PeacefulNetwork ==
    ASSUME Connections, NEW c \in CLIENTS, Network(c), Peaceful'
    PROVE  Connect(c) \/ SendPiece(c)
<1>1. IsClient(client[c]) /\ client = [d \in CLIENTS |-> client[d]]
  BY DEF Connections
<1>2. CASE HalfClose(c)
  <2>1. PICK r : r = [client[c] EXCEPT !.fin = TRUE]
    OBVIOUS
  <2>2. client'[c] = r
    BY <1>1, <1>2, <2>1 DEF HalfClose
  <2>3. r.fin = TRUE
    BY <1>1, <2>1, ClientFields
  <2> QED BY <2>2, <2>3 DEF Peaceful
<1>3. CASE Reset(c)
  <2>1. PICK r : r = [client[c] EXCEPT !.phase = "left"]
    OBVIOUS
  <2>2. client'[c] = r
    BY <1>1, <1>3, <2>1 DEF Reset
  <2>3. r.phase = "left"
    BY <1>1, <2>1, ClientFields
  <2> QED BY <2>2, <2>3 DEF Peaceful
<1> QED BY <1>2, <1>3 DEF Network

\* When all clients are peaceful after a step, they were before.
LEMMA PeaceBefore ==
    ASSUME CInv, Next, Peaceful'
    PROVE  Peaceful
<1>1. Links /\ Connections
  BY DEF CInv, IInv, Links
<1>2. ASSUME client' = client PROVE Peaceful
  BY <1>2 DEF Peaceful
<1>3. ASSUME NEW i \in Slots, slot[i].ptr # 0, Disconnect(i) PROVE Peaceful
  BY <1>1, <1>3, DisconnectFin, DisconnectKept, PeaceWas DEF Kept
<1>4. CASE ServerStep
  <2>1. CASE ActOnConnection
    <3>1. th.i \in Slots /\ slot[th.i].ptr # 0
      BY <2>1 DEF ActOnConnection, CInv, IInv, Uses
    <3>2. client' = client \/ Disconnect(th.i)
      BY <2>1 DEF ActOnConnection, socketVars
    <3> QED BY <1>2, <1>3, <3>1, <3>2
  <2>2. CASE BeginAssigns
    <3>1. th.i \in Slots /\ slot[th.i].ptr # 0
      BY <2>2 DEF BeginAssigns, CInv, IInv, Uses
    <3>2. client' = client \/ Disconnect(th.i)
      BY <2>2 DEF BeginAssigns
    <3> QED BY <1>2, <1>3, <3>1, <3>2
  <2>3. CASE ~ActOnConnection /\ ~BeginAssigns
    <3>1. client' = client
      BY <1>4, <2>3 DEF ServerStep, ScanSkips, ScanReadsStatus, ActOnListening, ActOnClosed,
         ScanEnds, socketBegin, BeginListens, BeginMarks, BeginRegisters, socketVars
    <3> QED BY <1>2, <3>1
  <2> QED BY <2>1, <2>2, <2>3
<1>5. CASE ServiceStep
  <2>1. CASE WritesHead \/ WritesBody
    <3>1. \E s, what : Send(s, what)
      BY <2>1 DEF WritesHead, WritesBody, Write
    <3>2. \A c \in CLIENTS : client'[c].phase = client[c].phase /\ client'[c].fin = client[c].fin
      BY <1>1, <3>1, SendToClient
    <3> QED BY <3>2 DEF Peaceful
  <2>2. CASE Stops
    <3>1. th.found \in Slots /\ slot[th.found].ptr # 0 /\ Disconnect(th.found)
      BY <2>2 DEF Stops, CInv, IInv, Uses
    <3> QED BY <1>3, <3>1
  <2>3. CASE NobodyThere \/ ConnectedAfterFin \/ Connected \/ ReadsRequest
    <3>1. client' = client
      BY <2>3 DEF NobodyThere, ConnectedAfterFin, Connected, ReadsRequest, socketVars
    <3> QED BY <1>2, <3>1
  <2> QED BY <1>5, <2>1, <2>2, <2>3 DEF ServiceStep
<1>6. CASE Poll
  BY <1>2, <1>6 DEF Poll
<1>7. ASSUME NEW c \in CLIENTS, Network(c) PROVE Peaceful
  <2>1. IsClient(client[c]) /\ client = [d \in CLIENTS |-> client[d]]
    BY <1>1 DEF Connections
  <2>2. CASE Connect(c)
    <3>1. PICK r : r = [client[c] EXCEPT !.phase = "open"]
      OBVIOUS
    <3>2. \A d \in CLIENTS : client'[d] = IF d = c THEN r ELSE client[d]
      BY <2>1, <2>2, <3>1 DEF Connect
    <3>3. r.fin = client[c].fin /\ client[c].phase = "idle"
      BY <2>1, <2>2, <3>1, ClientFields DEF Connect
    <3> QED BY <3>2, <3>3 DEF Peaceful
  <2>3. CASE SendPiece(c)
    <3>1. PICK r : r = [client[c] EXCEPT !.sent = client[c].sent + 1]
      OBVIOUS
    <3>2. \A d \in CLIENTS : client'[d] = IF d = c THEN r ELSE client[d]
      BY <2>1, <2>3, <3>1 DEF SendPiece
    <3>3. r.fin = client[c].fin /\ r.phase = client[c].phase
      BY <2>1, <3>1, ClientFields
    <3> QED BY <3>2, <3>3 DEF Peaceful
  <2> QED BY <1>1, <1>7, <2>2, <2>3, PeacefulNetwork
<1> QED BY <1>4, <1>5, <1>6, <1>7 DEF Next

-----------------------------------------------------------------------------
\* What the thread's steps use of the invariants.
LEMMA PeaceFacts ==
    ASSUME CInv, Peace
    PROVE  /\ Links /\ Connections /\ IsThread(th) /\ th.found \in Slots \union {0} /\ 0 \notin Slots
           /\ \A j \in Slots : slot[j].ptr # 0 => slot[j].ptr \in Socks
           /\ \A j \in Slots : /\ socketStatus(j) # "CLOSE_WAIT"
                               /\ socketStatus(j) = "ESTABLISHED" <=> Held(j)
<1>1. /\ Links /\ Connections /\ IsThread(th) /\ th.found \in Slots \union {0} /\ 0 \notin Slots
      /\ \A j \in Slots : slot[j].ptr # 0 => slot[j].ptr \in Socks
  BY Numbered DEF CInv, IInv, Links, Uses, SlotRecords
<1>2. ASSUME NEW j \in Slots
      PROVE  socketStatus(j) # "CLOSE_WAIT" /\ (socketStatus(j) = "ESTABLISHED" <=> Held(j))
  <2>1. CASE slot[j].ptr = 0
    BY <2>1 DEF socketStatus, Held
  <2>2. CASE slot[j].ptr # 0
    <3>1. sock[slot[j].ptr].state # "SS_CLOSING"
      BY <1>1, <2>2 DEF Peace
    <3> QED BY <2>2, <3>1 DEF socketStatus, Held
  <2> QED BY <2>1, <2>2
<1> QED BY <1>1, <1>2

\* The steps that leave the slot found where it is.
LEMMA FoundStays ==
    ASSUME CInv, Peace, NEW F, Calm(F), error' # "NOTCONN", th.found # 0 => th.found \in F,
           th'.found = th.found, th'.pc # "act",
           th'.pc \in {"listen", "mark", "register", "assign"} => th'.i # th.found,
           th'.pc \notin {"head", "body", "stop"} => th'.remaining = 0
    PROVE  Peace'
<1>1. \A s \in Socks : sock'[s].state # "SS_CLOSING"
  BY DEF Peace, Calm
<1>2. PICK f : f = th.found
  OBVIOUS
<1>3. f # 0 => Held(f)'
  BY <1>2 DEF Peace, Calm
<1>4. th'.found # 0 => slot'[th'.found].ptr # 0 /\ sock'[slot'[th'.found].ptr].state = "SS_CONNECTED"
  BY <1>2, <1>3 DEF Held
<1> QED BY <1>1, <1>4 DEF Peace, Held

\* available() goes on with a connection found, which is open both ways.
LEMMA NextSlotPeace ==
    ASSUME CInv, Peace, th.pc \in {"scan", "act"}, NEW found, NEW listening,
           NextSlot(found, listening), Calm(Slots), error' # "NOTCONN",
           found # 0 => found \in Slots /\ Held(found)
    PROVE  Peace'
<1>1. th' = [th EXCEPT !.pc = "scan", !.i = th.i + 1, !.found = found, !.listening = listening]
  BY Zenon DEF NextSlot
<1>2. ThreadIs(th', "scan", th.i + 1, th.status, listening, found)
  BY <1>1, PeaceFacts, ThreadSteps, Zenon
<1>3. th'.remaining = 0
  <2>1. th'.remaining = th.remaining
    BY <1>1, PeaceFacts, ThreadData, Zenon
  <2> QED BY <2>1, Zenon DEF Peace
<1>4. \A s \in Socks : sock'[s].state # "SS_CLOSING"
  BY DEF Peace, Calm
<1>5. found # 0 => Held(found)'
  BY DEF Calm
<1>6. th'.found # 0 => slot'[th'.found].ptr # 0 /\ sock'[slot'[th'.found].ptr].state = "SS_CONNECTED"
  BY <1>2, <1>5 DEF Held, ThreadIs
<1> QED BY <1>2, <1>3, <1>4, <1>6 DEF Peace, Held, ThreadIs

\* available() in peace.
LEMMA ScanActPeace ==
    ASSUME CInv, Peace, ScanSkips \/ ScanReadsStatus \/ ScanEnds
                   \/ ActOnConnection \/ ActOnListening \/ ActOnClosed
    PROVE  Peace'
<1>1. /\ Links /\ IsThread(th) /\ th.found \in Slots \union {0} /\ 0 \notin Slots
      /\ th.found # 0 => th.found \in Slots /\ Held(th.found)
      /\ error # "NOTCONN"
      /\ \A j \in Slots : slot[j].ptr # 0 => slot[j].ptr \in Socks
  BY PeaceFacts DEF Peace
<1>2. CASE ScanSkips \/ ActOnListening
  <2>1. /\ UNCHANGED <<sock, slot, error>> /\ th.pc \in {"scan", "act"}
        /\ \E l : NextSlot(th.found, l)
    BY <1>2 DEF ScanSkips, ActOnListening, socketVars, slotVars
  <2>2. Calm(Slots)
    BY <1>1, <2>1, DataCalm
  <2> QED BY <1>1, <2>1, <2>2, NextSlotPeace
<1>3. CASE ScanReadsStatus
  <2>1. /\ UNCHANGED <<sock, slot, error>> /\ th.pc = "scan"
        /\ th' = [th EXCEPT !.pc = "act", !.status = socketStatus(th.i)] /\ th.i \in Slots
    BY <1>3, ServerConstants
       DEF ScanReadsStatus, socketVars, slotVars, CInv, IInv, Uses, Slots
  <2>2. ThreadIs(th', "act", th.i, socketStatus(th.i), th.listening, th.found)
    BY <1>1, <2>1, ThreadSteps, Zenon
  <2>3. th'.remaining = 0
    <3>1. th'.remaining = th.remaining
      BY <1>1, <2>1, ThreadData, Zenon
    <3> QED BY <2>1, <3>1, Zenon DEF Peace
  <2>4. socketStatus(th.i) # "CLOSE_WAIT" /\ (socketStatus(th.i) = "ESTABLISHED" => Held(th.i))
    BY <2>1, PeaceFacts
  <2> QED BY <1>1, <2>1, <2>2, <2>3, <2>4 DEF Peace, Held, ThreadIs
<1>4. CASE ScanEnds
  <2>1. PICK place \in {"connected", "socketBegin"} : th' = [th EXCEPT !.pc = place]
    BY <1>4 DEF ScanEnds
  <2>2. UNCHANGED <<sock, slot, error>> /\ th.pc = "scan"
    BY <1>4, Zenon DEF ScanEnds, socketVars, slotVars
  <2>3. ThreadIs(th', place, th.i, th.status, th.listening, th.found)
    BY <1>1, <2>1, ThreadSteps, Zenon
  <2>4. th'.remaining = th.remaining
    BY <1>1, <2>1, ThreadData, Zenon
  <2>5. th'.remaining = 0
    BY <2>2, <2>4 DEF Peace
  <2>6. Calm(Slots)
    BY <1>1, <2>2, DataCalm
  <2> QED BY <1>1, <2>2, <2>3, <2>5, <2>6, FoundStays DEF ThreadIs
<1>5. CASE ActOnConnection
  <2>1. th.pc = "act" /\ th.status = "ESTABLISHED" /\ th.i \in Slots /\ Held(th.i)
    BY <1>5 DEF ActOnConnection, CInv, IInv, Uses, Peace
  <2>2. ~RecvFails(slot[th.i].ptr)
    BY <2>1 DEF RecvFails, Held
  <2>3. /\ slot' = slot /\ error' = error
        /\ sock' = sock \/ Recv(slot[th.i].ptr)
        /\ \E found \in {th.i, th.found} : NextSlot(found, th.listening)
    BY <1>5, <2>1, <2>2 DEF ActOnConnection, socketVars, ErrorAfterRecv
  <2>4. Calm(Slots)
    <3>1. \A s \in Socks : sock'[s].state = sock[s].state
      BY <1>1, <2>1, <2>3, RecvData DEF Held
    <3> QED BY <1>1, <2>3, <3>1, DataCalm
  <2> QED BY <1>1, <2>1, <2>3, <2>4, NextSlotPeace
<1>6. CASE ActOnClosed
  <2>1. /\ sock' = sock /\ error' = error /\ th.pc = "act" /\ th.i \in Slots
        /\ slot' = [slot EXCEPT ![th.i].port = FALSE]
        /\ NextSlot(th.found, th.listening)
    BY <1>6 DEF ActOnClosed, socketVars, CInv, IInv, Uses
  <2>2. \A j \in Slots : slot'[j].ptr = slot[j].ptr
    BY <1>1, <2>1, PortKeeps
  <2>3. Calm(Slots)
    BY <2>1, <2>2 DEF Calm, Held
  <2> QED BY <1>1, <2>1, <2>3, NextSlotPeace
<1> QED BY <1>2, <1>3, <1>4, <1>5, <1>6

\* begin() in peace: it takes a slot without a socket, so another than the one found.
LEMMA BeginPeace ==
    ASSUME CInv, Peace,
           socketBegin \/ BeginListens \/ BeginMarks \/ BeginRegisters \/ BeginAssigns
    PROVE  Peace'
<1>1. /\ Links /\ IsThread(th) /\ th.found \in Slots \union {0} /\ 0 \notin Slots
      /\ th.found # 0 => th.found \in Slots /\ Held(th.found)
      /\ error # "NOTCONN"
  BY PeaceFacts DEF Peace
<1>2. /\ error' = error /\ th.remaining = 0
      /\ ~socketBegin => th.i \in Slots /\ slot[th.i].ptr # 0 /\ th.i # th.found
  BY DEF socketBegin, BeginListens, BeginMarks, BeginRegisters, BeginAssigns, socketVars, Peace,
         CInv, IInv, Uses
<1>3. CASE socketBegin
  <2>1. th.pc = "socketBegin"
    BY <1>3 DEF socketBegin
  <2>2. CASE NullSlots = {}
    <3>1. UNCHANGED <<sock, slot>> /\ th' = [th EXCEPT !.pc = "connected"]
      BY <1>3, <2>2, Zenon DEF socketBegin
    <3>2. ThreadIs(th', "connected", th.i, th.status, th.listening, th.found)
      BY <1>1, <3>1, ThreadSteps, Zenon
    <3>3. th'.remaining = 0
      BY <1>1, <1>2, <3>1, ThreadData, Zenon
    <3>4. Calm(Slots)
      BY <1>1, <3>1, DataCalm
    <3> QED BY <1>1, <1>2, <3>2, <3>3, <3>4, FoundStays DEF ThreadIs
  <2>3. CASE NullSlots # {}
    <3> DEFINE i == FirstNull
               s == NewSocket
    <3>1. i \in Slots /\ slot[i].ptr = 0
      BY <2>3, FirstNullIsNull
    <3>2. \A j \in Slots : ~Listens(j)
      BY <2>1 DEF CInv, IInv, OneListens
    <3>3. s \in Socks /\ ~InUse(s)
      BY <1>1, <3>2, EnoughSockets, NewSocketIsFree
    <3>4. /\ Create(s) /\ slot' = [slot EXCEPT ![i] = [ptr |-> s, port |-> FALSE]]
          /\ th' = [th EXCEPT !.pc = "listen", !.i = i]
      BY <1>3, <2>3, Zenon DEF socketBegin
    <3> HIDE DEF i, s
    <3>5. ThreadIs(th', "listen", i, th.status, th.listening, th.found)
      BY <1>1, <3>4, ThreadSteps, Zenon
    <3>6. th'.remaining = 0
      <4>1. th'.remaining = th.remaining
        BY <1>1, <3>4, ThreadData, Zenon
      <4> QED BY <1>2, <4>1, Zenon
    <3>7. Calm(Slots)
      BY <1>1, <3>1, <3>3, <3>4, CreateCalm
    <3>8. i # th.found
      BY <1>1, <3>1 DEF Held
    <3> QED BY <1>1, <1>2, <3>5, <3>6, <3>7, <3>8, FoundStays DEF ThreadIs
  <2> QED BY <2>2, <2>3
<1>4. CASE ~socketBegin
  <2>1. PICK place \in {"mark", "register", "assign", "connected"} :
          th' = [th EXCEPT !.pc = place] \/ \E e : th' = [th EXCEPT !.pc = place, !.entry = e]
    BY <1>4, Zenon DEF BeginListens, BeginMarks, BeginRegisters, BeginAssigns
  <2>2. ThreadIs(th', place, th.i, th.status, th.listening, th.found)
    BY <1>1, <2>1, ThreadSteps, Zenon
  <2>3. th'.remaining = 0
    <3>1. CASE th' = [th EXCEPT !.pc = place]
      BY <1>1, <1>2, <3>1, ThreadData, Zenon
    <3>2. CASE \E e : th' = [th EXCEPT !.pc = place, !.entry = e]
      <4>1. PICK e : th' = [th EXCEPT !.pc = place, !.entry = e]
        BY <3>2, Zenon
      <4>2. th'.remaining = th.remaining
        BY <1>1, <4>1, ThreadData, Zenon
      <4> QED BY <1>2, <4>2
    <3> QED BY <2>1, <3>1, <3>2, Zenon
  <2>4. Calm(Slots \ {th.i})
    <3>1. CASE BeginListens
      <4>1. sock[slot[th.i].ptr].state = "SS_CLOSED" /\ Listen(slot[th.i].ptr) /\ slot' = slot
        BY <3>1 DEF BeginListens, CInv, IInv, Uses, slotVars
      <4>2. Calm(Slots)
        BY <1>1, <1>2, <1>4, <4>1, ListenCalm
      <4> QED BY <4>2 DEF Calm
    <3>2. CASE BeginMarks
      <4>1. sock' = sock /\ slot' = [slot EXCEPT ![th.i].port = TRUE]
        BY <3>2 DEF BeginMarks, socketVars
      <4>2. \A j \in Slots : slot'[j].ptr = slot[j].ptr
        BY <1>1, <1>2, <1>4, <4>1, PortKeeps
      <4> QED BY <4>1, <4>2 DEF Calm, Held
    <3>3. CASE BeginRegisters
      BY <3>3 DEF BeginRegisters, socketVars, Calm, Held
    <3>4. CASE BeginAssigns
      <4>1. Disconnect(th.i) \/ UNCHANGED <<sock, slot>>
        BY <3>4 DEF BeginAssigns
      <4>2. CASE Disconnect(th.i)
        BY <1>1, <1>2, <1>4, <4>2, DisconnectCalm
      <4>3. CASE UNCHANGED <<sock, slot>>
        BY <4>3 DEF Calm, Held
      <4> QED BY <4>1, <4>2, <4>3
    <3> QED BY <1>4, <3>1, <3>2, <3>3, <3>4
  <2> QED BY <1>1, <1>2, <1>4, <2>2, <2>3, <2>4, FoundStays DEF ThreadIs
<1> QED BY <1>3, <1>4

\* The service in peace: whoever it works for is connected, so no call fails.
LEMMA ServicePeace ==
    ASSUME CInv, Peace, ServiceStep
    PROVE  Peace'
<1>1. /\ Links /\ Connections /\ IsThread(th) /\ th.found \in Slots \union {0} /\ 0 \notin Slots
      /\ th.found # 0 => th.found \in Slots /\ Held(th.found)
      /\ error # "NOTCONN"
      /\ th.pc \in {"available", "head", "body", "stop"} => th.found \in Slots
  BY PeaceFacts DEF Peace, CInv, IInv, Uses
<1>2. ASSUME th' = Idle, error' = error, NEW F, Calm(F) PROVE Peace'
  <2>1. \A s \in Socks : sock'[s].state # "SS_CLOSING"
    BY <1>2 DEF Peace, Calm
  <2> QED BY <1>1, <1>2, <2>1 DEF Peace, Idle
<1>3. CASE NobodyThere
  <2>1. th' = Idle /\ UNCHANGED <<sock, slot, error>>
    BY <1>3 DEF NobodyThere, socketVars, slotVars
  <2>2. Calm(Slots)
    BY <1>1, <2>1, DataCalm
  <2> QED BY <1>2, <2>1, <2>2
<1>4. CASE ConnectedAfterFin
  BY <1>1, <1>4, PeaceFacts DEF ConnectedAfterFin
<1>5. CASE Connected
  <2>1. /\ th.pc = "connected" /\ th' = [th EXCEPT !.pc = "available"]
        /\ UNCHANGED <<sock, slot, error>>
    BY <1>5, Zenon DEF Connected, socketVars, slotVars
  <2>2. ThreadIs(th', "available", th.i, th.status, th.listening, th.found)
    BY <1>1, <2>1, ThreadSteps, Zenon
  <2>3. th'.remaining = 0
    <3>1. th'.remaining = th.remaining
      BY <1>1, <2>1, ThreadData, Zenon
    <3> QED BY <2>1, <3>1, Zenon DEF Peace
  <2>4. Calm(Slots)
    BY <1>1, <2>1, DataCalm
  <2> QED BY <1>1, <2>1, <2>2, <2>3, <2>4, FoundStays DEF ThreadIs
<1>6. CASE ReadsRequest
  <2>1. th.pc = "available" /\ th.found \in Slots /\ Held(th.found) /\ th.remaining = 0
    BY <1>1, <1>6 DEF ReadsRequest, Peace
  <2>2. ~RecvFails(slot[th.found].ptr)
    BY <2>1 DEF RecvFails, Held
  <2>3. Recv(slot[th.found].ptr) /\ slot' = slot /\ error' = error
    BY <1>6, <2>1, <2>2 DEF ReadsRequest, ClientAvailable, ErrorAfterRecv, slotVars
  <2>4. \/ \E text : th' = [th EXCEPT !.pc = "head", !.text = text]
        \/ \E text, remaining :
              th' = [th EXCEPT !.pc = "head", !.text = text, !.remaining = remaining]
    BY <1>6, <2>1, Zenon DEF ReadsRequest, ClientAvailable
  <2>5. ThreadIs(th', "head", th.i, th.status, th.listening, th.found)
    BY <1>1, <2>4, ThreadSteps, Zenon
  <2>6. Calm(Slots)
    <3>1. \A s \in Socks : sock'[s].state = sock[s].state
      BY <1>1, <2>1, <2>3, RecvData DEF Held
    <3> QED BY <1>1, <2>3, <3>1, DataCalm
  <2> QED BY <1>1, <2>3, <2>5, <2>6, FoundStays DEF ThreadIs
<1>7. CASE WritesHead \/ WritesBody
  <2>1. /\ th.pc \in {"head", "body"} /\ slot' = slot
        /\ \E what : Send(slot[th.found].ptr, what)
        /\ \E next \in {"body", "stop"} : th' = [th EXCEPT !.pc = next]
    BY <1>7 DEF WritesHead, WritesBody, Write, slotVars
  <2>2. th.found \in Slots /\ Held(th.found)
    BY <1>1, <2>1, Zenon
  <2>3. error' = error
    BY <2>1, <2>2, Zenon DEF Send, Held
  <2>4. PICK next \in {"body", "stop"} :
           ThreadIs(th', next, th.i, th.status, th.listening, th.found)
    BY <1>1, <2>1, ThreadSteps, Zenon
  <2>5. Calm(Slots)
    <3>1. \A s \in Socks : sock'[s].state = sock[s].state
      BY <1>1, <2>1, <2>2, SendData DEF Held
    <3> QED BY <1>1, <2>1, <3>1, DataCalm
  <2> QED BY <1>1, <2>3, <2>4, <2>5, FoundStays DEF ThreadIs
<1>8. CASE Stops
  <2>1. /\ th.found \in Slots /\ slot[th.found].ptr # 0 /\ Disconnect(th.found)
        /\ th' = Idle /\ error' = error
    BY <1>8 DEF Stops, CInv, IInv, Uses
  <2>2. Calm(Slots \ {th.found})
    BY <1>1, <2>1, DisconnectCalm
  <2> QED BY <1>2, <2>1, <2>2
<1> QED BY <1>3, <1>4, <1>5, <1>6, <1>7, <1>8 DEF ServiceStep

\* The thread does not notice the interrupts and the clients.
LEMMA OthersPeace ==
    ASSUME CInv, Peace, th' = th, error' # "NOTCONN", Calm(Slots)
    PROVE  Peace'
<1>1. \A s \in Socks : sock'[s].state # "SS_CLOSING"
  BY DEF Peace, Calm
<1>2. \A j \in Slots : Held(j) =>
         slot'[j].ptr # 0 /\ sock'[slot'[j].ptr].state = "SS_CONNECTED"
  BY DEF Calm, Held
<1>3. th.found # 0 => th.found \in Slots /\ Held(th.found)
  BY PeaceFacts DEF Peace
<1>4. th.pc = "act" /\ th.status = "ESTABLISHED" => th.i \in Slots /\ Held(th.i)
  BY DEF Peace, CInv, IInv, Uses
<1>5. /\ th.pc = "act" => th.status # "CLOSE_WAIT"
      /\ th.pc \in {"listen", "mark", "register", "assign"} => th.i # th.found
      /\ th.pc \notin {"head", "body", "stop"} => th.remaining = 0
  BY DEF Peace
<1> QED BY <1>1, <1>2, <1>3, <1>4, <1>5 DEF Peace, Held

\* poll() leaves no error but that nobody waits.
LEMMA PollPeace ==
    ASSUME CInv, Peace, Poll
    PROVE  Peace'
<1>1. Links /\ th' = th /\ error # "NOTCONN"
  BY PeaceFacts DEF Poll, Peace
<1>2. PICK i \in Slots :
        /\ socketStatus(i) = "LISTEN"
        /\ error' \in {error, "AGAIN"}
        /\ \/ UNCHANGED <<sock, slot>>
           \/ \E q \in Incoming(slot[i].ptr) :
                 sock' = Accepted(slot[i].ptr, q) /\ slot' = [slot EXCEPT ![i].ptr = q]
  BY DEF Poll
<1>3. Listens(i)
  BY <1>2, StatusSays
<1>4. Calm(Slots)
  BY <1>1, <1>2, <1>3, DataCalm, AcceptCalm
<1> QED BY <1>1, <1>2, <1>4, OthersPeace

\* In peace the invariant holds again after every step.
LEMMA PeaceStays ==
    ASSUME PInv, [Next]_vars
    PROVE  PInv'
<1>1. CInv'
  BY StepCounts DEF PInv
<1> SUFFICES ASSUME Peaceful' PROVE Peace'
  BY <1>1 DEF PInv
<1>2. CASE UNCHANGED vars
  <2>1. client' = client /\ th' = th /\ error' = error /\ UNCHANGED <<sock, slot>>
    BY <1>2 DEF vars, socketVars, slotVars
  <2>2. Peaceful
    BY <2>1 DEF Peaceful
  <2>3. Links /\ Peace /\ CInv
    BY <2>2 DEF PInv, CInv, IInv, Links
  <2>4. Calm(Slots)
    BY <2>1, <2>3, DataCalm
  <2> QED BY <2>1, <2>3, <2>4, OthersPeace DEF Peace
<1>3. CASE Next
  <2>1. CInv /\ Peace
    BY <1>3, PeaceBefore DEF PInv
  <2>2. CASE ServerStep
    BY <2>1, <2>2, ScanActPeace, BeginPeace DEF ServerStep
  <2>3. CASE ServiceStep
    BY <2>1, <2>3, ServicePeace
  <2>4. CASE Poll
    BY <2>1, <2>4, PollPeace
  <2>5. CASE \E c \in CLIENTS : Network(c) /\ UNCHANGED <<slotVars, th>>
    <3>1. PICK c \in CLIENTS : Network(c) /\ UNCHANGED <<slotVars, th>>
      BY <2>5
    <3>2. Links /\ Connections /\ slot' = slot /\ th' = th /\ error # "NOTCONN"
      BY <2>1, <3>1 DEF CInv, IInv, Links, Peace, slotVars
    <3>3. Connect(c) \/ SendPiece(c)
      BY <3>1, <3>2, PeacefulNetwork, Zenon
    <3>4. error' = error
      BY <3>3 DEF Connect, SendPiece
    <3>5. Calm(Slots)
      BY <3>2, <3>3, NetworkCalm
    <3> QED BY <2>1, <3>2, <3>4, <3>5, OthersPeace
  <2> QED BY <1>3, <2>2, <2>3, <2>4, <2>5 DEF Next
<1> QED BY <1>2, <1>3

\* At the start nothing is wrong.
LEMMA InitiallyPeace == Init => PInv
<1> SUFFICES ASSUME Init PROVE PInv
  OBVIOUS
<1>1. CInv
  BY InitiallyCounts
<1>2. Unused.state = "UNUSED"
  BY DEF Unused
<1>3. sock = [s \in Socks |-> Unused] /\ error = "OK"
  BY DEF Init, ServerInit, SocketInit, NewClient
<1>4. th = [pc |-> "socketBegin", i |-> 1, status |-> "CLOSED", listening |-> FALSE,
            found |-> 0, entry |-> 0, remaining |-> 0, text |-> << >>]
  BY DEF Init, Idle
<1>5. Peace
  BY <1>2, <1>3, <1>4 DEF Peace
<1> QED BY <1>1, <1>5 DEF PInv

\* The service reads what the socket has, not the nothing that an error left behind
\* on some other socket would make of it.
LEMMA ReadsAll ==
    ASSUME PInv, [Next]_vars, Peaceful, th.pc = "available", th'.pc = "head"
    PROVE  th'.text = sock[slot[th.found].ptr].received
<1>1. CInv /\ Peace /\ IsThread(th)
  BY DEF PInv, CInv, IInv, Uses
<1>2. th.remaining = 0 /\ error # "NOTCONN"
  BY <1>1 DEF Peace
<1>3. th' # th
  OBVIOUS
<1>4. ReadsRequest
  BY <1>3 DEF Next, ServerStep, ScanSkips, ScanReadsStatus, ActOnConnection, ActOnListening,
     ActOnClosed, ScanEnds, socketBegin, BeginListens, BeginMarks, BeginRegisters, BeginAssigns,
     ServiceStep, NobodyThere, ConnectedAfterFin, Connected, WritesHead, WritesBody, Write, Stops,
     Poll, vars
<1> DEFINE s == slot[th.found].ptr
<1>5. CASE DataRead(s)
  <2>1. th' = [th EXCEPT !.pc = "head", !.text = sock[s].received,
                         !.remaining = Len(sock[s].received)]
    BY <1>2, <1>4, <1>5 DEF ReadsRequest, ClientAvailable
  <2>2. PICK m, k : /\ m = sock[s].received
                    /\ th' = [th EXCEPT !.pc = "head", !.text = m, !.remaining = k]
    BY <2>1, Zenon
  <2>3. th'.text = m
    BY <1>1, <2>2, ThreadData, Zenon
  <2> QED BY <2>2, <2>3
<1>6. CASE ~DataRead(s)
  <2>1. th' = [th EXCEPT !.pc = "head", !.text = << >>]
    BY <1>2, <1>4, <1>6 DEF ReadsRequest, ClientAvailable
  <2>2. sock[s].received = << >>
    BY <1>2, <1>6 DEF DataRead
  <2>3. th'.text = << >>
    BY <1>1, <2>1, ThreadData, Zenon
  <2> QED BY <2>2, <2>3
<1> QED BY <1>5, <1>6

\* While every client keeps both ways of its connection open, what the service
\* reads is what the client sent so far, whatever the error the sockets share.
THEOREM PeaceLosesNothing == Spec => NothingLostInPeace
<1>1. Init => PInv
  BY InitiallyPeace
<1>2. PInv /\ [Next]_vars => PInv'
  BY PeaceStays
<1>3. PInv /\ [Next]_vars =>
        [Peaceful /\ th.pc = "available" /\ th'.pc = "head"
           => th'.text = sock[slot[th.found].ptr].received]_vars
  BY ReadsAll
<1> QED BY <1>1, <1>2, <1>3, PTL DEF Spec, NothingLostInPeace

-----------------------------------------------------------------------------
(***************************************************************************)
(* The fields of sockets, clients and the thread after an assignment.      *)
(***************************************************************************)
SocketIs(u, state, peer, head, received, reset) ==
    /\ u.state = state /\ u.peer = peer /\ u.head = head
    /\ u.received = received /\ u.reset = reset

\* What the assignments to a socket leave of its fields.
LEMMA SocketFields ==
    ASSUME NEW r, IsSocket(r), NEW u, NEW a, NEW b, NEW d
    PROVE  /\ u = [r EXCEPT !.received = a] => SocketIs(u, r.state, r.peer, r.head, a, r.reset)
           /\ u = [r EXCEPT !.reset = a] => SocketIs(u, r.state, r.peer, r.head, r.received, a)
           /\ u = [r EXCEPT !.reset = a, !.received = b] =>
                SocketIs(u, r.state, r.peer, r.head, b, a)
           /\ u = [r EXCEPT !.state = a] => SocketIs(u, a, r.peer, r.head, r.received, r.reset)
           /\ u = [r EXCEPT !.head = a] => SocketIs(u, r.state, r.peer, a, r.received, r.reset)
           /\ u = [r EXCEPT !.state = a, !.peer = b, !.head = d] =>
                SocketIs(u, a, b, d, r.received, r.reset)
           /\ u = [r EXCEPT !.state = a, !.peer = b, !.reset = d] =>
                SocketIs(u, a, b, r.head, r.received, d)
<1>1. PICK st, pe, he, rec, re :
         r = [state |-> st, peer |-> pe, head |-> he, received |-> rec, reset |-> re]
  BY DEF IsSocket
<1> DEFINE S(s, p, h, m, x) == [state |-> s, peer |-> p, head |-> h, received |-> m, reset |-> x]
<1>2. /\ u = [r EXCEPT !.received = a] => u = S(st, pe, he, a, re)
      /\ u = [r EXCEPT !.reset = a] => u = S(st, pe, he, rec, a)
      /\ u = [r EXCEPT !.reset = a, !.received = b] => u = S(st, pe, he, b, a)
      /\ u = [r EXCEPT !.state = a] => u = S(a, pe, he, rec, re)
      /\ u = [r EXCEPT !.head = a] => u = S(st, pe, a, rec, re)
      /\ u = [r EXCEPT !.state = a, !.peer = b, !.head = d] => u = S(a, b, d, rec, re)
      /\ u = [r EXCEPT !.state = a, !.peer = b, !.reset = d] => u = S(a, b, he, rec, d)
  BY <1>1
<1>3. ASSUME NEW s, NEW p, NEW h, NEW m, NEW x, u = S(s, p, h, m, x)
      PROVE  SocketIs(u, s, p, h, m, x)
  BY <1>3 DEF SocketIs
<1>4. r.state = st /\ r.peer = pe /\ r.head = he /\ r.received = rec /\ r.reset = re
  BY <1>1
<1> HIDE DEF S
<1> QED BY <1>2, <1>3, <1>4

ClientIs(u, phase, sent, fin, got) ==
    u.phase = phase /\ u.sent = sent /\ u.fin = fin /\ u.got = got

\* What the assignments to a client leave of its fields.
LEMMA ClientParts ==
    ASSUME NEW r, IsClient(r), NEW u, NEW a
    PROVE  /\ u = [r EXCEPT !.phase = a] => ClientIs(u, a, r.sent, r.fin, r.got)
           /\ u = [r EXCEPT !.sent = a] => ClientIs(u, r.phase, a, r.fin, r.got)
           /\ u = [r EXCEPT !.fin = a] => ClientIs(u, r.phase, r.sent, a, r.got)
           /\ u = [r EXCEPT !.got = a] => ClientIs(u, r.phase, r.sent, r.fin, a)
<1>1. PICK ph, se, fi, go : r = [phase |-> ph, sent |-> se, fin |-> fi, got |-> go]
  BY DEF IsClient
<1> DEFINE C(p, s, f, g) == [phase |-> p, sent |-> s, fin |-> f, got |-> g]
<1>2. /\ u = [r EXCEPT !.phase = a] => u = C(a, se, fi, go)
      /\ u = [r EXCEPT !.sent = a] => u = C(ph, a, fi, go)
      /\ u = [r EXCEPT !.fin = a] => u = C(ph, se, a, go)
      /\ u = [r EXCEPT !.got = a] => u = C(ph, se, fi, a)
  BY <1>1
<1>3. ASSUME NEW p, NEW s, NEW f, NEW g, u = C(p, s, f, g)
      PROVE  ClientIs(u, p, s, f, g)
  BY <1>3 DEF ClientIs
<1>4. r.phase = ph /\ r.sent = se /\ r.fin = fi /\ r.got = go
  BY <1>1
<1> HIDE DEF C
<1> QED BY <1>2, <1>3, <1>4

\* The thread is at a place, with these data of the answer.
ThreadHas(u, pc, i, found, status, entry, remaining, text) ==
    /\ u.pc = pc /\ u.i = i /\ u.found = found /\ u.status = status
    /\ u.entry = entry /\ u.remaining = remaining /\ u.text = text

\* What the assignments to the thread leave of its locals.
LEMMA ThreadParts ==
    ASSUME NEW t, IsThread(t), NEW u, NEW a, NEW b, NEW c, NEW d
    PROVE  /\ u = [t EXCEPT !.pc = a] =>
                ThreadHas(u, a, t.i, t.found, t.status, t.entry, t.remaining, t.text)
           /\ u = [t EXCEPT !.pc = a, !.i = b] =>
                ThreadHas(u, a, b, t.found, t.status, t.entry, t.remaining, t.text)
           /\ u = [t EXCEPT !.pc = a, !.status = b] =>
                ThreadHas(u, a, t.i, t.found, b, t.entry, t.remaining, t.text)
           /\ u = [t EXCEPT !.pc = a, !.entry = b] =>
                ThreadHas(u, a, t.i, t.found, t.status, b, t.remaining, t.text)
           /\ u = [t EXCEPT !.pc = a, !.text = b] =>
                ThreadHas(u, a, t.i, t.found, t.status, t.entry, t.remaining, b)
           /\ u = [t EXCEPT !.pc = a, !.text = b, !.remaining = c] =>
                ThreadHas(u, a, t.i, t.found, t.status, t.entry, c, b)
           /\ u = [t EXCEPT !.pc = a, !.i = b, !.found = c, !.listening = d] =>
                ThreadHas(u, a, b, c, t.status, t.entry, t.remaining, t.text)
<1>1. PICK pc, i, st, li, fo, en, re, te : t =
         [pc |-> pc, i |-> i, status |-> st, listening |-> li, found |-> fo,
          entry |-> en, remaining |-> re, text |-> te]
  BY DEF IsThread
<1> DEFINE Thread(p, j, s, l, f, e, r, x) ==
         [pc |-> p, i |-> j, status |-> s, listening |-> l, found |-> f,
          entry |-> e, remaining |-> r, text |-> x]
<1>2. /\ u = [t EXCEPT !.pc = a] => u = Thread(a, i, st, li, fo, en, re, te)
      /\ u = [t EXCEPT !.pc = a, !.i = b] => u = Thread(a, b, st, li, fo, en, re, te)
      /\ u = [t EXCEPT !.pc = a, !.status = b] => u = Thread(a, i, b, li, fo, en, re, te)
      /\ u = [t EXCEPT !.pc = a, !.entry = b] => u = Thread(a, i, st, li, fo, b, re, te)
  BY <1>1
<1>3. /\ u = [t EXCEPT !.pc = a, !.text = b] => u = Thread(a, i, st, li, fo, en, re, b)
      /\ u = [t EXCEPT !.pc = a, !.text = b, !.remaining = c] =>
           u = Thread(a, i, st, li, fo, en, c, b)
      /\ u = [t EXCEPT !.pc = a, !.i = b, !.found = c, !.listening = d] =>
           u = Thread(a, b, st, d, c, en, re, te)
  BY <1>1
<1>4. ASSUME NEW p, NEW j, NEW s, NEW l, NEW f, NEW e, NEW r, NEW x,
             u = Thread(p, j, s, l, f, e, r, x)
      PROVE  ThreadHas(u, p, j, f, s, e, r, x)
  BY <1>4 DEF ThreadHas
<1>5. t.i = i /\ t.status = st /\ t.found = fo /\ t.entry = en /\ t.remaining = re /\ t.text = te
  BY <1>1
<1> HIDE DEF Thread
<1> QED BY <1>2, <1>3, <1>4, <1>5

-----------------------------------------------------------------------------
(***************************************************************************)
(* Types, and what a step does to any one socket and client.               *)
(***************************************************************************)
States == {"UNUSED", "SS_CLOSED", "SS_LISTENING", "SS_CONNECTED", "SS_CLOSING"}
Phases == {"idle", "open", "left", "closed", "aborted"}

\* What CInv leaves open of the types, and that a connection has another end.
Plain ==
    /\ \A s \in Socks :
        /\ sock[s].state \in States /\ sock[s].reset \in BOOLEAN
        /\ sock[s].state \in {"SS_CONNECTED", "SS_CLOSING"} => sock[s].peer # "nobody"
    /\ \A c \in CLIENTS :
        client[c].phase \in Phases /\ client[c].sent \in 0..PIECES /\ client[c].fin \in BOOLEAN

\* What may become of a socket: it loses its data or its other end, or it was not
\* in use and is the connection of a client that had none yet.
Follows(s, r) ==
    /\ r.state \in States /\ r.reset \in BOOLEAN
    /\ r.state \in {"SS_CONNECTED", "SS_CLOSING"} => r.peer # "nobody"
    /\ r.state = "SS_LISTENING" => sock[s].state = "SS_LISTENING" \/ th.pc = "listen"
    /\ r.received = << >> \/ (r.received = sock[s].received /\ r.peer \in {"nobody", sock[s].peer})
    /\ InUse(s) => /\ r.peer \in {"nobody", sock[s].peer}
                   /\ r.state = "SS_CONNECTED" => sock[s].state = "SS_CONNECTED"
    /\ r.peer # "nobody" =>
          \/ r.peer = sock[s].peer /\ (r.head # 0 => sock[s].head # 0)
          \/ r.peer \in CLIENTS /\ client[r.peer].phase = "idle"

\* What may become of a client that sends nothing.
ClientFollows(c, u) ==
    /\ u.sent = client[c].sent /\ u.phase \in Phases /\ u.fin \in BOOLEAN
    /\ u.phase = "idle" => client[c].phase = "idle"

Smooth ==
    /\ \A s \in Socks : Follows(s, sock'[s])
    /\ \A c \in CLIENTS : ClientFollows(c, client'[c])

\* Nobody gets anything, and no connection ends with a goodbye.
Quiet ==
    \A c \in CLIENTS : /\ client'[c].got = client[c].got
                       /\ client'[c].phase = "closed" => client[c].phase = "closed"

\* Nobody gets anything.
Unheard == \A c \in CLIENTS : client'[c].got = client[c].got

\* A smooth step keeps the types.
LEMMA SmoothKeepsPlain == Plain /\ Smooth => Plain'
BY DEF Plain, Smooth, Follows, ClientFollows

\* A socket nobody uses can be anything's successor, and each its own.
LEMMA FollowsItself ==
    ASSUME Plain, SocketRecords, NEW s \in Socks
    PROVE  Follows(s, Unused) /\ Follows(s, sock[s])
<1>1. /\ Unused.state = "UNUSED" /\ Unused.peer = "nobody" /\ Unused.received = << >>
      /\ Unused.reset = FALSE
  BY DEF Unused
<1> QED BY <1>1 DEF Follows, Plain, States

\* Clients that do not change.
LEMMA ClientsStay ==
    ASSUME Plain, client' = client
    PROVE  Quiet /\ \A c \in CLIENTS : ClientFollows(c, client'[c])
BY DEF Plain, Quiet, ClientFollows

\* One socket changes.
LEMMA OneChanges ==
    ASSUME Plain, SocketRecords, NEW s, NEW r, sock' = [sock EXCEPT ![s] = r],
           s \in Socks => Follows(s, r)
    PROVE  \A q \in Socks : Follows(q, sock'[q])
<1> SUFFICES ASSUME NEW q \in Socks PROVE Follows(q, sock'[q])
  OBVIOUS
<1>1. sock'[q] = IF q = s THEN r ELSE sock[q]
  BY DEF SocketRecords
<1>2. Follows(q, sock[q])
  BY FollowsItself
<1>3. CASE q = s
  <2>1. Follows(s, r) /\ sock'[q] = r
    BY <1>1, <1>3
  <2> QED BY <1>3, <2>1
<1>4. CASE q # s
  <2>1. sock'[q] = sock[q]
    BY <1>1, <1>4
  <2> QED BY <1>2, <2>1
<1> QED BY <1>3, <1>4

\* Nothing changes.
LEMMA StaySmooth ==
    ASSUME Plain, SocketRecords, UNCHANGED <<sock, client>>
    PROVE  Smooth /\ Quiet
<1>1. \A s \in Socks : Follows(s, sock[s])
  BY FollowsItself
<1> QED BY <1>1, ClientsStay DEF Smooth

\* Receiving.
LEMMA RecvSmooth ==
    ASSUME Plain, Links, NEW i \in Slots, slot[i].ptr # 0, Recv(slot[i].ptr), client' = client
    PROVE  Smooth /\ Quiet
<1> DEFINE s == slot[i].ptr
<1>1. s \in Socks /\ IsSocket(sock[s]) /\ SocketRecords
  BY DEF Links, SlotRecords, SocketRecords
<1>2. PICK b \in BOOLEAN : sock' = [sock EXCEPT ![s] = [sock[s] EXCEPT !.reset = b, !.received = << >>]]
  <2>1. sock[s].reset \in BOOLEAN
    BY <1>1 DEF Plain
  <2>2. (sock[s].reset /\ ~RecvFails(s)) \in BOOLEAN
    OBVIOUS
  <2> QED BY <2>2 DEF Recv
<1>3. PICK r : r = [sock[s] EXCEPT !.reset = b, !.received = << >>]
  OBVIOUS
<1>4. sock' = [sock EXCEPT ![s] = r]
  BY <1>2, <1>3, Zenon
<1>5. SocketIs(r, sock[s].state, sock[s].peer, sock[s].head, << >>, b)
  BY <1>1, <1>3, SocketFields, Zenon
<1> HIDE DEF s
<1>6. Follows(s, r)
  BY <1>1, <1>5 DEF Follows, SocketIs, Plain
<1>7. \A q \in Socks : Follows(q, sock'[q])
  BY <1>1, <1>4, <1>6, OneChanges
<1> QED BY <1>7, ClientsStay DEF Smooth

\* Sending: the client of a connected socket gets it, and no one else anything.
LEMMA SendSmooth ==
    ASSUME Plain, Links, Connections, NEW i \in Slots, slot[i].ptr # 0,
           NEW what, Send(slot[i].ptr, what)
    PROVE  /\ Smooth
           /\ sock[slot[i].ptr].state # "SS_CONNECTED" => Quiet
           /\ sock[slot[i].ptr].state = "SS_CONNECTED" =>
                /\ sock' = sock
                /\ \A c \in CLIENTS :
                     /\ client'[c].phase = client[c].phase
                     /\ client'[c].got = IF c = sock[slot[i].ptr].peer
                                         THEN Append(client[c].got, what) ELSE client[c].got
<1> DEFINE s == slot[i].ptr
<1>1. s \in Socks /\ IsSocket(sock[s]) /\ SocketRecords
  BY Zenon DEF Links, SlotRecords, SocketRecords
<1>2. CASE sock[s].state = "SS_CONNECTED"
  <2> DEFINE p == sock[s].peer
  <2>1. /\ p \in CLIENTS /\ IsClient(client[p]) /\ sock' = sock
        /\ client' = [client EXCEPT ![p].got = Append(@, what)]
    BY <1>1, <1>2, Zenon DEF Plain, Connections, Send
  <2>2. PICK u : u = [client[p] EXCEPT !.got = Append(client[p].got, what)]
    BY Zenon
  <2>3. ClientIs(u, client[p].phase, client[p].sent, client[p].fin, Append(client[p].got, what))
    BY <2>1, <2>2, ClientParts, Zenon
  <2>4. \A c \in CLIENTS : client'[c] = IF c = p THEN u ELSE client[c]
    BY <2>1, <2>2, Zenon DEF Connections
  <2>5. \A c \in CLIENTS :
           /\ ClientFollows(c, client'[c]) /\ client'[c].phase = client[c].phase
           /\ client'[c].got = IF c = p THEN Append(client[c].got, what) ELSE client[c].got
    <3> TAKE c \in CLIENTS
    <3>1. CASE c = p
      <4>1. client'[c] = u
        BY <2>4, <3>1
      <4> QED BY <2>3, <3>1, <4>1, Zenon DEF ClientFollows, ClientIs, Plain
    <3>2. CASE c # p
      <4>1. client'[c] = client[c]
        BY <2>4, <3>2, Zenon
      <4> QED BY <3>2, <4>1 DEF ClientFollows, Plain
    <3> QED BY <3>1, <3>2
  <2>6. \A q \in Socks : Follows(q, sock'[q])
    <3>1. \A q \in Socks : Follows(q, sock[q])
      BY <1>1, FollowsItself
    <3> QED BY <2>1, <3>1, Zenon
  <2> HIDE DEF p
  <2>7. Smooth
    BY <2>5, <2>6 DEF Smooth
  <2> QED BY <1>2, <2>1, <2>5, <2>7, Zenon DEF p
<1>3. CASE sock[s].state # "SS_CONNECTED"
  <2>1. PICK r : r = [sock[s] EXCEPT !.reset = FALSE]
    BY Zenon
  <2>2. client' = client /\ sock' = [sock EXCEPT ![s] = r]
    BY <1>3, <2>1 DEF Send
  <2>3. SocketIs(r, sock[s].state, sock[s].peer, sock[s].head, sock[s].received, FALSE)
    BY <1>1, <2>1, SocketFields, Zenon
  <2> HIDE DEF s
  <2>4. Follows(s, r)
    BY <1>1, <2>3 DEF Follows, SocketIs, Plain
  <2>5. \A q \in Socks : Follows(q, sock'[q])
    BY <1>1, <2>2, <2>4, OneChanges
  <2>6. Smooth /\ Quiet
    BY <2>2, <2>5, ClientsStay DEF Smooth
  <2> QED BY <1>3, <2>6 DEF s
<1> QED BY <1>2, <1>3

\* Closing what does not listen: only its client hears of it.
LEMMA DisconnectSmooth ==
    ASSUME Plain, Links, Connections, NEW i \in Slots, slot[i].ptr # 0, Disconnect(i)
    PROVE  /\ Smooth
           /\ \A c \in CLIENTS : client'[c].got = client[c].got
           /\ sock'[slot[i].ptr].peer = "nobody"
           /\ sock[slot[i].ptr].state # "SS_CONNECTED" => Quiet
           /\ ~Listens(i) =>
                /\ \A c \in CLIENTS : c # sock[slot[i].ptr].peer => client'[c] = client[c]
                /\ \A j \in Slots : Listens(j)' <=> Listens(j)
<1> DEFINE s == slot[i].ptr
           gone == {s} \union Incoming(s)
           end == IF sock[s].state = "SS_CONNECTED" THEN "closed" ELSE "aborted"
<1>1. s \in Socks /\ InUse(s) /\ sock[s].head = 0 /\ SocketRecords /\ gone \subseteq Socks
  BY DEF Links, SlotRecords, Owners, Incoming
<1>2. \A q \in Socks : sock'[q] = IF q \in gone THEN Unused ELSE sock[q]
  BY DEF Disconnect, Close
<1>3. \A c \in CLIENTS : client'[c] = IF SocketsOf(c) \intersect gone = {} THEN client[c]
                                      ELSE [client[c] EXCEPT !.phase = end]
  BY DEF Disconnect, Close
<1>4. slot' = [slot EXCEPT ![i].ptr = 0]
  BY DEF Disconnect
<1>5. ~Listens(i) => gone = {s}
  <2>1. ~Listens(i) => sock[s].state # "SS_LISTENING"
    BY <1>1, Numbered DEF Listens
  <2>2. ASSUME NEW q \in Incoming(s) PROVE sock[s].state = "SS_LISTENING"
    <3>1. q \in Socks /\ InUse(q) /\ sock[q].head = s
      BY <2>2 DEF Incoming, InUse
    <3> QED BY <1>1, <3>1, Numbered DEF Links, Owners
  <2> QED BY <2>1, <2>2
<1>6. end \in {"closed", "aborted"} /\ (end = "closed" => sock[s].state = "SS_CONNECTED")
  OBVIOUS
<1> HIDE DEF end, gone, s
<1>7. \A q \in Socks : Follows(q, sock'[q])
  <2> TAKE q \in Socks
  <2>1. Follows(q, Unused) /\ Follows(q, sock[q])
    BY <1>1, FollowsItself
  <2>2. sock'[q] = Unused \/ sock'[q] = sock[q]
    BY <1>2
  <2> QED BY <2>1, <2>2
<1>8. \A c \in CLIENTS : /\ ClientFollows(c, client'[c]) /\ client'[c].got = client[c].got
                         /\ client'[c].phase \in {client[c].phase, end}
  <2> TAKE c \in CLIENTS
  <2>1. IsClient(client[c])
    BY DEF Connections
  <2>2. CASE client'[c] = client[c]
    BY <2>2 DEF ClientFollows, Plain
  <2>3. CASE client'[c] = [client[c] EXCEPT !.phase = end]
    <3>1. PICK u : u = client'[c]
      OBVIOUS
    <3>2. ClientIs(u, end, client[c].sent, client[c].fin, client[c].got)
      BY <2>1, <2>3, <3>1, ClientParts
    <3> QED BY <1>6, <3>1, <3>2 DEF ClientIs, ClientFollows, Plain, Phases
  <2> QED BY <1>3, <2>2, <2>3
<1>9. Smooth
  BY <1>7, <1>8 DEF Smooth
<1>10. sock[s].state # "SS_CONNECTED" => Quiet
  BY <1>6, <1>8 DEF Quiet
<1>11. ASSUME ~Listens(i), NEW c \in CLIENTS, c # sock[s].peer PROVE client'[c] = client[c]
  <2>1. SocketsOf(c) \intersect gone = {}
    BY <1>5, <1>11 DEF SocketsOf
  <2> QED BY <1>3, <2>1
<1>12. ASSUME ~Listens(i), NEW j \in Slots PROVE Listens(j)' <=> Listens(j)
  <2>1. /\ slot'[i].ptr = 0
        /\ j # i => slot'[j] = slot[j]
    BY <1>4 DEF Links, SlotRecords
  <2>2. CASE j = i
    BY <1>12, <2>1, <2>2 DEF Listens
  <2>3. CASE j # i
    <3>1. slot[j].ptr # 0 => slot[j].ptr \in Socks /\ slot[j].ptr # s
      BY <2>3 DEF Links, SlotRecords, Owners, s
    <3>2. slot[j].ptr # 0 => sock'[slot[j].ptr] = sock[slot[j].ptr]
      BY <1>2, <1>5, <1>12, <3>1
    <3> QED BY <2>1, <2>3, <3>2 DEF Listens
  <2> QED BY <2>2, <2>3
<1>13. sock'[s].peer = "nobody"
  BY <1>1, <1>2 DEF gone, Unused
<1> QED BY <1>8, <1>9, <1>10, <1>11, <1>12, <1>13 DEF s

\* A new socket.
LEMMA CreateSmooth ==
    ASSUME Plain, Links, NEW s \in Socks, ~InUse(s), Create(s), client' = client
    PROVE  Smooth /\ Quiet
<1>1. PICK r : r = [Unused EXCEPT !.state = "SS_CLOSED"]
  OBVIOUS
<1>2. r.state = "SS_CLOSED" /\ r.peer = "nobody" /\ r.received = << >> /\ r.reset = FALSE
  BY <1>1 DEF Unused
<1>3. sock' = [sock EXCEPT ![s] = r]
  BY <1>1 DEF Create
<1>4. Follows(s, r)
  BY <1>2 DEF Follows, States
<1>5. \A q \in Socks : Follows(q, sock'[q])
  BY <1>3, <1>4, OneChanges DEF Links
<1> QED BY <1>5, ClientsStay DEF Smooth

\* A socket starts to listen.
LEMMA ListenSmooth ==
    ASSUME Plain, Links, NEW i \in Slots, slot[i].ptr # 0, Listen(slot[i].ptr), client' = client,
           sock[slot[i].ptr].peer = "nobody", th.pc = "listen"
    PROVE  Smooth /\ Quiet /\ sock'[slot[i].ptr].state = "SS_LISTENING"
<1> DEFINE s == slot[i].ptr
<1>1. s \in Socks /\ IsSocket(sock[s]) /\ SocketRecords
  BY DEF Links, SlotRecords, SocketRecords
<1>2. PICK r : r = [sock[s] EXCEPT !.state = "SS_LISTENING"]
  BY Zenon
<1>3. sock' = [sock EXCEPT ![s] = r]
  BY <1>2 DEF Listen
<1>4. SocketIs(r, "SS_LISTENING", sock[s].peer, sock[s].head, sock[s].received, sock[s].reset)
  BY <1>1, <1>2, SocketFields, Zenon
<1>5. Follows(s, r)
  BY <1>1, <1>4 DEF Follows, SocketIs, Plain, States
<1> HIDE DEF s
<1>6. sock'[s] = r
  BY <1>1, <1>3 DEF SocketRecords
<1>7. \A q \in Socks : Follows(q, sock'[q])
  BY <1>1, <1>3, <1>5, OneChanges
<1>8. Smooth /\ Quiet
  BY <1>7, ClientsStay DEF Smooth
<1> QED BY <1>4, <1>6, <1>8 DEF SocketIs, s

\* Accepting: the listening socket is gone, and the connection waits no more.
LEMMA AcceptSmooth ==
    ASSUME Plain, Links, NEW i \in Slots, Listens(i), NEW q \in Incoming(slot[i].ptr),
           sock' = Accepted(slot[i].ptr, q), client' = client
    PROVE  /\ Smooth /\ Quiet
           /\ \A p \in Socks : sock'[p].peer = sock[q].peer /\ p # q => sock[p].peer = sock[q].peer
           /\ sock'[q].head = 0
<1> DEFINE l == slot[i].ptr
<1>1. /\ l \in Socks /\ sock[l].state = "SS_LISTENING" /\ sock[l].head = 0
      /\ q \in Socks /\ InUse(q) /\ sock[q].head = l /\ l # 0 /\ q # l
      /\ SocketRecords /\ IsSocket(sock[q]) /\ sock[l].peer = "nobody"
  BY DEF Links, SlotRecords, Owners, Listens, Incoming, InUse, SocketRecords
<1>2. PICK r : r = [sock[q] EXCEPT !.head = 0]
  BY Zenon
<1>3. SocketIs(r, sock[q].state, sock[q].peer, 0, sock[q].received, sock[q].reset)
  BY <1>1, <1>2, SocketFields, Zenon
<1> HIDE DEF l
<1>4. \A s \in Socks : sock'[s] = IF s = l THEN Unused ELSE IF s = q THEN r ELSE sock[s]
  BY <1>1, <1>2 DEF Accepted, SocketRecords, l
<1>5. Follows(q, r)
  BY <1>1, <1>3 DEF Follows, SocketIs, Plain
<1>6. \A s \in Socks : Follows(s, sock'[s])
  <2> TAKE s \in Socks
  <2>1. Follows(s, Unused) /\ Follows(s, sock[s])
    BY <1>1, FollowsItself
  <2>2. sock'[s] \in {Unused, sock[s]} \/ (s = q /\ sock'[s] = r)
    BY <1>4
  <2> QED BY <1>5, <2>1, <2>2
<1>7. Smooth /\ Quiet
  BY <1>6, ClientsStay DEF Smooth
<1>8. sock'[q].head = 0
  BY <1>1, <1>3, <1>4 DEF SocketIs
<1>9. \A p \in Socks : sock'[p].peer = sock[q].peer /\ p # q => sock[p].peer = sock[q].peer
  <2>1. Unused.peer = "nobody"
    BY DEF Unused
  <2> QED BY <1>1, <1>4, <2>1
<1> QED BY <1>7, <1>8, <1>9

\* A connection: only a client that was idle becomes the other end of a socket.
LEMMA ConnectSmooth ==
    ASSUME Plain, Links, Connections, NEW c \in CLIENTS, Connect(c), slot' = slot
    PROVE  /\ Smooth /\ Quiet
           /\ \A j \in Slots : slot[j].ptr # 0 => sock'[slot[j].ptr] = sock[slot[j].ptr]
<1> DEFINE n == NewSocket
<1>1. n \in Socks /\ ~InUse(n)
  BY NewSocketIsFree DEF Connect
<1>2. PICK l : sock' = [sock EXCEPT ![n] =
                  [Unused EXCEPT !.state = "SS_CONNECTED", !.peer = c, !.head = l]]
  BY DEF Connect
<1>3. PICK r : r = [Unused EXCEPT !.state = "SS_CONNECTED", !.peer = c, !.head = l]
  OBVIOUS
<1>4. /\ r.state = "SS_CONNECTED" /\ r.peer = c /\ r.received = << >> /\ r.reset = FALSE
  <2>1. r = [state |-> "SS_CONNECTED", peer |-> c, head |-> l,
             received |-> << >>, reset |-> FALSE]
    BY <1>3 DEF Unused
  <2> QED BY <2>1
<1>5. client[c].phase = "idle" /\ client' = [client EXCEPT ![c].phase = "open"]
  BY DEF Connect
<1> HIDE DEF n
<1>6. sock' = [sock EXCEPT ![n] = r]
  BY <1>2, <1>3
<1>7. Follows(n, r)
  BY <1>1, <1>4, <1>5, SocketConstants DEF Follows, States
<1>8. \A q \in Socks : Follows(q, sock'[q])
  BY <1>6, <1>7, OneChanges DEF Links
<1>9. PICK u : u = [client[c] EXCEPT !.phase = "open"]
  OBVIOUS
<1>10. ClientIs(u, "open", client[c].sent, client[c].fin, client[c].got)
  BY <1>9, ClientParts DEF Connections
<1>11. \A d \in CLIENTS : client'[d] = IF d = c THEN u ELSE client[d]
  BY <1>5, <1>9 DEF Connections
<1>12. \A d \in CLIENTS :
          /\ ClientFollows(d, client'[d]) /\ client'[d].got = client[d].got
          /\ client'[d].phase = "closed" => client[d].phase = "closed"
  <2> TAKE d \in CLIENTS
  <2>1. CASE d = c
    <3>1. client'[d] = u
      BY <1>11, <2>1
    <3> QED BY <1>10, <2>1, <3>1 DEF ClientFollows, ClientIs, Plain, Phases
  <2>2. CASE d # c
    <3>1. client'[d] = client[d]
      BY <1>11, <2>2
    <3> QED BY <3>1 DEF ClientFollows, Plain
  <2> QED BY <2>1, <2>2
<1>13. \A j \in Slots : slot[j].ptr # 0 => sock'[slot[j].ptr] = sock[slot[j].ptr]
  <2> TAKE j \in Slots
  <2> HAVE slot[j].ptr # 0
  <2>1. slot[j].ptr \in Socks /\ slot[j].ptr # n
    BY <1>1 DEF Links, SlotRecords, Owners
  <2> QED BY <1>6, <2>1 DEF Links, SocketRecords
<1> QED BY <1>8, <1>12, <1>13 DEF Smooth, Quiet

\* A client's FIN and its reset: one socket loses its state, or its other end.
LEMMA PartSmooth ==
    ASSUME Plain, Links, Connections, NEW c \in CLIENTS, HalfClose(c) \/ Reset(c)
    PROVE  Smooth /\ Quiet
<1>0. SocketRecords /\ IsClient(client[c])
  BY DEF Links, Connections
<1>1. PICK s, r : s \in SocketsOf(c) /\ sock' = [sock EXCEPT ![s] = r] /\ Follows(s, r)
  <2>1. CASE HalfClose(c)
    <3>1. PICK s \in SocketsOf(c) : sock' = [sock EXCEPT ![s].state = "SS_CLOSING"]
      BY <2>1 DEF HalfClose
    <3>2. PICK r : r = [sock[s] EXCEPT !.state = "SS_CLOSING"]
      BY Zenon
    <3>3. s \in Socks /\ InUse(s) /\ sock[s].peer # "nobody" /\ IsSocket(sock[s])
      BY <1>0, ConnectionSocket DEF SocketRecords
    <3>4. SocketIs(r, "SS_CLOSING", sock[s].peer, sock[s].head, sock[s].received, sock[s].reset)
      BY <3>2, <3>3, SocketFields, Zenon
    <3>5. Follows(s, r)
      BY <3>3, <3>4 DEF Follows, SocketIs, Plain, States
    <3> QED BY <3>1, <3>2, <3>5
  <2>2. CASE Reset(c)
    <3>1. PICK s \in SocketsOf(c) :
            sock' = [sock EXCEPT ![s] =
                       IF @.head # 0 THEN Unused
                       ELSE [@ EXCEPT !.state = "SS_CLOSED", !.peer = "nobody", !.reset = TRUE]]
      BY <2>2 DEF Reset
    <3>2. s \in Socks /\ IsSocket(sock[s])
      BY <1>0, ConnectionSocket DEF SocketRecords
    <3>3. PICK r : r = [sock[s] EXCEPT !.state = "SS_CLOSED", !.peer = "nobody", !.reset = TRUE]
      BY Zenon
    <3>4. SocketIs(r, "SS_CLOSED", "nobody", sock[s].head, sock[s].received, TRUE)
      BY <3>2, <3>3, SocketFields, Zenon
    <3>5. Follows(s, r)
      BY <3>2, <3>4 DEF Follows, SocketIs, Plain, States
    <3>6. Follows(s, Unused)
      BY <1>0, <3>2, FollowsItself
    <3>7. sock' = [sock EXCEPT ![s] = Unused] \/ sock' = [sock EXCEPT ![s] = r]
      BY <3>1, <3>3
    <3> QED BY <3>5, <3>6, <3>7
  <2> QED BY <2>1, <2>2
<1>2. \A q \in Socks : Follows(q, sock'[q])
  BY <1>0, <1>1, OneChanges
<1>3. client[c].phase = "open"
  BY DEF HalfClose, Reset
<1>4. PICK u : /\ client' = [client EXCEPT ![c] = u]
               /\ u = [client[c] EXCEPT !.fin = TRUE] \/ u = [client[c] EXCEPT !.phase = "left"]
  BY DEF HalfClose, Reset
<1>5. /\ u.sent = client[c].sent /\ u.got = client[c].got
      /\ u.phase \in {"open", "left"} /\ u.fin \in {TRUE, client[c].fin}
  <2>1. \/ ClientIs(u, client[c].phase, client[c].sent, TRUE, client[c].got)
        \/ ClientIs(u, "left", client[c].sent, client[c].fin, client[c].got)
    BY <1>0, <1>4, ClientParts
  <2> QED BY <1>3, <2>1 DEF ClientIs
<1>6. \A d \in CLIENTS : client'[d] = IF d = c THEN u ELSE client[d]
  BY <1>4 DEF Connections
<1>7. \A d \in CLIENTS :
          /\ ClientFollows(d, client'[d]) /\ client'[d].got = client[d].got
          /\ client'[d].phase = "closed" => client[d].phase = "closed"
  BY <1>5, <1>6 DEF ClientFollows, Plain, Phases
<1> QED BY <1>2, <1>7 DEF Smooth, Quiet

\* A segment of a client: its socket has one more piece, and nothing else changes.
LEMMA SendPieceDoes ==
    ASSUME Plain, Links, Connections, NEW c \in CLIENTS, SendPiece(c)
    PROVE  /\ client[c].phase = "open" /\ client[c].sent < PIECES
           /\ \A d \in CLIENTS :
                ClientIs(client'[d], client[d].phase,
                         IF d = c THEN client[c].sent + 1 ELSE client[d].sent,
                         client[d].fin, client[d].got)
           /\ \E s \in SocketsOf(c) : \A q \in Socks :
                SocketIs(sock'[q], sock[q].state, sock[q].peer, sock[q].head,
                         IF q = s THEN Append(sock[s].received, <<c, client[c].sent + 1>>)
                                  ELSE sock[q].received,
                         sock[q].reset)
<1>0. IsClient(client[c]) /\ SocketRecords
  BY DEF Connections, Links
<1>1. client[c].phase = "open" /\ client[c].sent < PIECES
  BY DEF SendPiece
<1>2. PICK u : u = [client[c] EXCEPT !.sent = client[c].sent + 1]
  OBVIOUS
<1>3. ClientIs(u, client[c].phase, client[c].sent + 1, client[c].fin, client[c].got)
  BY <1>0, <1>2, ClientParts
<1>4. \A d \in CLIENTS : client'[d] = IF d = c THEN u ELSE client[d]
  BY <1>2 DEF Connections, SendPiece
<1>5. \A d \in CLIENTS :
        ClientIs(client'[d], client[d].phase,
                 IF d = c THEN client[c].sent + 1 ELSE client[d].sent,
                 client[d].fin, client[d].got)
  BY <1>3, <1>4 DEF ClientIs
<1>6. PICK m : /\ m = <<c, client[c].sent + 1>>
               /\ \E s \in SocketsOf(c) :
                    sock' = [sock EXCEPT ![s].received = Append(sock[s].received, m)]
  BY DEF SendPiece
<1>7. PICK s \in SocketsOf(c) : sock' = [sock EXCEPT ![s].received = Append(sock[s].received, m)]
  BY <1>6
<1>8. PICK w : w = Append(sock[s].received, m)
  OBVIOUS
<1>9. PICK r : r = [sock[s] EXCEPT !.received = w]
  OBVIOUS
<1>10. s \in Socks /\ IsSocket(sock[s])
  BY <1>0 DEF SocketsOf, SocketRecords
<1>11. SocketIs(r, sock[s].state, sock[s].peer, sock[s].head, w, sock[s].reset)
  BY <1>9, <1>10, SocketFields, Zenon
<1>12. \A q \in Socks : sock'[q] = IF q = s THEN r ELSE sock[q]
  BY <1>0, <1>7, <1>8, <1>9 DEF SocketRecords
<1>13. \A q \in Socks :
         SocketIs(sock'[q], sock[q].state, sock[q].peer, sock[q].head,
                  IF q = s THEN w ELSE sock[q].received, sock[q].reset)
  BY <1>11, <1>12 DEF SocketIs
<1> QED BY <1>1, <1>5, <1>6, <1>8, <1>13

\* Every step but a segment is smooth.
LEMMA StepSmooth ==
    ASSUME CInv, Plain, [Next]_vars
    PROVE  \/ Smooth
           \/ \E c \in CLIENTS : SendPiece(c) /\ UNCHANGED <<slotVars, th>>
<1>1. /\ Links /\ Connections /\ SocketRecords /\ IsThread(th)
      /\ th.pc = "act" /\ th.status \in {"ESTABLISHED", "CLOSE_WAIT"} =>
            th.i \in Slots /\ slot[th.i].ptr # 0
      /\ th.pc \in {"listen", "mark", "register", "assign"} => th.i \in Slots /\ slot[th.i].ptr # 0
      /\ th.pc = "listen" => sock[slot[th.i].ptr].peer = "nobody"
      /\ th.pc \in {"available", "head", "body", "stop"} =>
            th.found \in Slots /\ slot[th.found].ptr # 0
  BY DEF CInv, IInv, Links, Uses
<1>2. CASE UNCHANGED <<sock, client>>
  BY <1>1, <1>2, StaySmooth
<1>3. CASE \/ UNCHANGED vars \/ ScanSkips \/ ScanReadsStatus \/ ActOnListening \/ ActOnClosed \/ ScanEnds
           \/ BeginMarks \/ BeginRegisters \/ NobodyThere \/ Connected
  <2>1. UNCHANGED <<sock, client>>
    BY <1>3 DEF vars, ScanSkips, ScanReadsStatus, ActOnListening, ActOnClosed, ScanEnds, BeginMarks,
                BeginRegisters, NobodyThere, Connected, socketVars
  <2> QED BY <1>2, <2>1
<1>4. CASE ActOnConnection
  <2>1. th.i \in Slots /\ slot[th.i].ptr # 0
    BY <1>1, <1>4 DEF ActOnConnection
  <2>2. \/ UNCHANGED <<sock, client>> \/ Disconnect(th.i)
        \/ Recv(slot[th.i].ptr) /\ client' = client
    BY <1>4 DEF ActOnConnection, socketVars
  <2> QED BY <1>1, <1>2, <2>1, <2>2, DisconnectSmooth, RecvSmooth
<1>5. CASE socketBegin
  <2>1. CASE NullSlots = {}
    <3>1. UNCHANGED <<sock, client>>
      BY <1>5, <2>1 DEF socketBegin
    <3> QED BY <1>2, <3>1
  <2>2. CASE NullSlots # {}
    <3>1. Create(NewSocket) /\ client' = client /\ th.pc = "socketBegin"
      BY <1>5, <2>2 DEF socketBegin
    <3>2. \A j \in Slots : ~Listens(j)
      BY <3>1 DEF CInv, IInv, OneListens
    <3>3. NewSocket \in Socks /\ ~InUse(NewSocket)
      BY <1>1, <3>2, EnoughSockets, NewSocketIsFree
    <3> QED BY <1>1, <3>1, <3>3, CreateSmooth
  <2> QED BY <2>1, <2>2
<1>6. CASE BeginListens
  BY <1>1, <1>6, ListenSmooth DEF BeginListens
<1>7. CASE BeginAssigns
  <2>1. Disconnect(th.i) \/ UNCHANGED <<sock, client>>
    BY <1>7 DEF BeginAssigns
  <2>2. th.i \in Slots /\ slot[th.i].ptr # 0
    BY <1>1, <1>7 DEF BeginAssigns
  <2> QED BY <1>1, <1>2, <2>1, <2>2, DisconnectSmooth
<1>8. CASE ConnectedAfterFin \/ ReadsRequest
  <2>1. th.found \in Slots /\ slot[th.found].ptr # 0
    BY <1>1, <1>8, StatusSays DEF ConnectedAfterFin, ReadsRequest, CInv, IInv, Uses
  <2>2. client' = client /\ (Recv(slot[th.found].ptr) \/ sock' = sock)
    BY <1>8 DEF ConnectedAfterFin, ReadsRequest, ClientAvailable
  <2> QED BY <1>1, <1>2, <2>1, <2>2, RecvSmooth
<1>9. CASE WritesHead \/ WritesBody
  <2>1. th.pc \in {"head", "body"} /\ \E what : Send(slot[th.found].ptr, what)
    BY <1>9 DEF WritesHead, WritesBody, Write
  <2> QED BY <1>1, <2>1, SendSmooth
<1>10. CASE Stops
  <2>1. th.pc = "stop" /\ Disconnect(th.found)
    BY <1>10 DEF Stops
  <2> QED BY <1>1, <2>1, DisconnectSmooth
<1>11. CASE Poll
  <2>1. PICK i \in Slots :
          /\ socketStatus(i) = "LISTEN"
          /\ \/ sock' = sock
             \/ \E q \in Incoming(slot[i].ptr) : sock' = Accepted(slot[i].ptr, q)
    BY <1>11 DEF Poll
  <2>2. client' = client
    BY <1>11 DEF Poll
  <2>3. Listens(i)
    BY <2>1, StatusSays
  <2> QED BY <1>1, <1>2, <2>1, <2>2, <2>3, AcceptSmooth
<1>12. CASE \E c \in CLIENTS : Network(c) /\ UNCHANGED <<slotVars, th>>
  <2>1. PICK c \in CLIENTS : Network(c) /\ UNCHANGED <<slotVars, th>>
    BY <1>12
  <2>2. CASE SendPiece(c)
    BY <2>1, <2>2
  <2>3. CASE Connect(c)
    BY <1>1, <2>1, <2>3, ConnectSmooth DEF slotVars
  <2>4. CASE HalfClose(c) \/ Reset(c)
    BY <1>1, <2>4, PartSmooth
  <2> QED BY <2>1, <2>2, <2>3, <2>4 DEF Network
<1> QED BY <1>3, <1>4, <1>5, <1>6, <1>7, <1>8, <1>9, <1>10, <1>11, <1>12 DEF Next, ServerStep, ServiceStep

-----------------------------------------------------------------------------
(***************************************************************************)
(* What sockets have received, and with it the types.                      *)
(***************************************************************************)

\* The pieces a + 1 to b of a client's request.
Run(o, a, b) == [n \in 1..(b - a) |-> <<o, a + n>>]

\* A socket holds successive pieces of one client, the latest it sent if it is still
\* that client's.
Received ==
    \A s \in Socks : sock[s].received = << >> \/
      \E o \in CLIENTS, a, b \in 0..PIECES :
        /\ a <= b /\ sock[s].received = Run(o, a, b) /\ b <= client[o].sent
        /\ sock[s].peer # "nobody" => o = sock[s].peer /\ b = client[o].sent

\* A run of pieces is a sequence.
LEMMA RunIs ==
    ASSUME NEW o, NEW a \in Nat, NEW b \in Nat, a <= b,
           NEW S, \A n \in Nat : <<o, n>> \in S
    PROVE  /\ Run(o, a, b) \in Seq(S) /\ Len(Run(o, a, b)) = b - a
           /\ \A n \in 1..(b - a) : Run(o, a, b)[n] = <<o, a + n>>
<1>1. b - a \in Nat /\ \A n \in 1..(b - a) : a + n \in Nat
  OBVIOUS
<1>2. Run(o, a, b) \in [1..(b - a) -> S]
  BY <1>1 DEF Run
<1>3. Run(o, a, b) \in Seq(S)
  BY <1>1, <1>2, SeqDef
<1>4. DOMAIN Run(o, a, b) = 1..(b - a)
  BY DEF Run
<1>5. Len(Run(o, a, b)) \in Nat /\ DOMAIN Run(o, a, b) = 1..Len(Run(o, a, b))
  BY <1>3, LenProperties
<1>6. Len(Run(o, a, b)) = b - a
  BY <1>1, <1>4, <1>5
<1> QED BY <1>3, <1>6 DEF Run

\* A run of pieces and the next one.
LEMMA RunOn ==
    ASSUME NEW o, NEW a \in Nat, NEW b \in Nat, a <= b
    PROVE  /\ Append(Run(o, a, b), <<o, b + 1>>) = Run(o, a, b + 1)
           /\ Append(<< >>, <<o, b + 1>>) = Run(o, b, b + 1)
<1>1. PICK S : S = {<<o, n>> : n \in Nat}
  OBVIOUS
<1>2. \A n \in Nat : <<o, n>> \in S
  BY <1>1
<1>3. PICK v : v = <<o, b + 1>>
  OBVIOUS
<1>4. v \in S
  BY <1>2, <1>3
<1>5. ASSUME NEW t \in Seq(S), NEW m \in Nat, m <= b, Len(t) = b - m,
             \A n \in 1..(b - m) : t[n] = <<o, m + n>>
      PROVE  Append(t, v) = Run(o, m, b + 1)
  <2>1. /\ Append(t, v) \in Seq(S) /\ Len(Append(t, v)) = Len(t) + 1
        /\ \A n \in 1..Len(t) : Append(t, v)[n] = t[n]
        /\ Append(t, v)[Len(t) + 1] = v
    BY <1>4, AppendProperties
  <2>2. /\ Run(o, m, b + 1) \in Seq(S) /\ Len(Run(o, m, b + 1)) = (b + 1) - m
        /\ \A n \in 1..((b + 1) - m) : Run(o, m, b + 1)[n] = <<o, m + n>>
    <3>1. b + 1 \in Nat /\ m <= b + 1
      BY <1>5
    <3> QED BY <1>2, <3>1, RunIs
  <2>3. Len(Append(t, v)) = (b + 1) - m /\ (b + 1) - m = Len(t) + 1 /\ Len(t) \in Nat
    BY <1>5, <2>1
  <2>4. \A n \in 1..((b + 1) - m) : Append(t, v)[n] = Run(o, m, b + 1)[n]
    <3> TAKE n \in 1..((b + 1) - m)
    <3>1. CASE n = Len(t) + 1
      <4>1. m + n = b + 1
        BY <1>5, <3>1
      <4> QED BY <1>3, <2>1, <2>2, <3>1, <4>1
    <3>2. CASE n # Len(t) + 1
      <4>1. n \in 1..Len(t) /\ n \in 1..(b - m)
        BY <1>5, <2>3, <3>2
      <4> QED BY <1>5, <2>1, <2>2, <4>1
    <3> QED BY <3>1, <3>2
  <2> QED BY <2>1, <2>2, <2>3, <2>4, SeqEqual
<1>6. Append(Run(o, a, b), v) = Run(o, a, b + 1)
  <2>1. /\ Run(o, a, b) \in Seq(S) /\ Len(Run(o, a, b)) = b - a
        /\ \A n \in 1..(b - a) : Run(o, a, b)[n] = <<o, a + n>>
    BY <1>2, RunIs
  <2> QED BY <1>5, <2>1
<1>7. Append(<< >>, v) = Run(o, b, b + 1)
  <2>1. PICK t : t = << >>
    OBVIOUS
  <2>2. t \in Seq(S) /\ Len(t) = b - b
    BY <2>1, EmptySeq
  <2>3. \A n \in 1..(b - b) : t[n] = <<o, b + n>>
    OBVIOUS
  <2>4. b \in Nat /\ b <= b
    OBVIOUS
  <2>5. Append(t, v) = Run(o, b, b + 1)
    BY <1>5, <2>2, <2>3, <2>4, Zenon
  <2> QED BY <2>1, <2>5
<1> QED BY <1>3, <1>6, <1>7

\* Sockets hold runs of pieces again after every step.
LEMMA ReceivedStays ==
    ASSUME CInv, Plain, Received, [Next]_vars
    PROVE  Plain' /\ Received'
<1>1. CASE Smooth
  <2>1. Plain'
    BY <1>1, SmoothKeepsPlain
  <2>2. Received'
    <3> SUFFICES ASSUME NEW s \in Socks, sock'[s].received # << >>
                 PROVE  \E o \in CLIENTS, a, b \in 0..PIECES :
                          /\ a <= b /\ sock'[s].received = Run(o, a, b) /\ b <= client'[o].sent
                          /\ sock'[s].peer # "nobody" =>
                               o = sock'[s].peer /\ b = client'[o].sent
      BY DEF Received
    <3>1. sock'[s].received = sock[s].received /\ sock'[s].peer \in {"nobody", sock[s].peer}
      BY <1>1 DEF Smooth, Follows
    <3>2. \A o \in CLIENTS : client'[o].sent = client[o].sent
      BY <1>1 DEF Smooth, ClientFollows
    <3> QED BY <3>1, <3>2 DEF Received
  <2> QED BY <2>1, <2>2
<1>2. CASE \E c \in CLIENTS : SendPiece(c) /\ UNCHANGED <<slotVars, th>>
  <2>0. Links /\ Connections
    BY DEF CInv, IInv, Links
  <2>1. PICK c \in CLIENTS : SendPiece(c)
    BY <1>2
  <2>2. /\ client[c].phase = "open" /\ client[c].sent < PIECES /\ client[c].sent \in 0..PIECES
        /\ PIECES \in Nat
    BY <2>0, <2>1, SendPieceDoes, SocketConstants DEF Plain
  <2>3. \A d \in CLIENTS :
          ClientIs(client'[d], client[d].phase,
                   IF d = c THEN client[c].sent + 1 ELSE client[d].sent,
                   client[d].fin, client[d].got)
    BY <2>0, <2>1, SendPieceDoes
  <2>4. PICK s \in SocketsOf(c) : \A q \in Socks :
          SocketIs(sock'[q], sock[q].state, sock[q].peer, sock[q].head,
                   IF q = s THEN Append(sock[s].received, <<c, client[c].sent + 1>>)
                            ELSE sock[q].received,
                   sock[q].reset)
    BY <2>0, <2>1, SendPieceDoes
  <2>5. /\ s \in Socks /\ sock[s].peer = c
        /\ \A q \in Socks : sock[q].peer = c => q = s
    BY <2>0, <2>4, SocketConstants DEF SocketsOf, Connections
  <2>6. Plain'
    <3>1. \A d \in CLIENTS : client'[d].phase \in Phases /\ client'[d].sent \in 0..PIECES
                             /\ client'[d].fin \in BOOLEAN
      BY <2>2, <2>3 DEF Plain, ClientIs
    <3>2. \A q \in Socks :
            /\ sock'[q].state \in States /\ sock'[q].reset \in BOOLEAN
            /\ sock'[q].state \in {"SS_CONNECTED", "SS_CLOSING"} => sock'[q].peer # "nobody"
      BY <2>4 DEF Plain, SocketIs
    <3> QED BY <3>1, <3>2 DEF Plain
  <2>7. \A d \in CLIENTS : /\ client'[d].sent = IF d = c THEN client[c].sent + 1 ELSE client[d].sent
                           /\ client[d].sent \in Nat
    BY <2>3 DEF ClientIs, Plain
  <2>8. ASSUME NEW q \in Socks, sock'[q].received # << >>
        PROVE  \E o \in CLIENTS, a, b \in 0..PIECES :
                 /\ a <= b /\ sock'[q].received = Run(o, a, b) /\ b <= client'[o].sent
                 /\ sock'[q].peer # "nobody" => o = sock'[q].peer /\ b = client'[o].sent
    <3>1. sock'[q].peer = sock[q].peer
      BY <2>4 DEF SocketIs
    <3>2. CASE q = s
      <4>0. PICK k : k = client[c].sent
        OBVIOUS
      <4>1. sock'[s].received = Append(sock[s].received, <<c, k + 1>>) /\ k \in Nat
        <5>1. k \in Nat
          BY <2>2, <4>0
        <5> QED BY <2>4, <2>5, <4>0, <5>1 DEF SocketIs
      <4>2. client'[c].sent = k + 1 /\ k + 1 \in 0..PIECES /\ k \in 0..PIECES
        BY <2>2, <2>7, <4>0
      <4>3. sock'[s].peer = c
        BY <2>5, <3>1, <3>2
      <4>4. CASE sock[s].received = << >>
        <5>1. Append(<< >>, <<c, k + 1>>) = Run(c, k, k + 1)
          <6>1. k \in Nat /\ k <= k
            BY <4>1
          <6> QED BY <6>1, RunOn, Zenon
        <5>2. sock'[s].received = Run(c, k, k + 1)
          BY <4>1, <4>4, <5>1
        <5>3. k <= k + 1
          BY <4>1
        <5> QED BY <3>2, <4>2, <4>3, <5>2, <5>3
      <4>5. CASE sock[s].received # << >>
        <5>1. PICK a \in 0..PIECES : a <= k /\ sock[s].received = Run(c, a, k)
          BY <2>5, <4>0, <4>5, SocketConstants DEF Received
        <5>2. sock'[s].received = Run(c, a, k + 1)
          <6>1. a \in Nat /\ k \in Nat /\ a <= k
            BY <4>1, <5>1
          <6>2. Append(Run(c, a, k), <<c, k + 1>>) = Run(c, a, k + 1)
            BY <6>1, RunOn
          <6> QED BY <4>1, <5>1, <6>2
        <5>3. a <= k + 1
          BY <4>1, <5>1
        <5> QED BY <3>2, <4>2, <4>3, <5>2, <5>3
      <4> QED BY <4>4, <4>5
    <3>3. CASE q # s
      <4>1. sock'[q].received = sock[q].received /\ sock[q].peer # c
        BY <2>4, <2>5, <3>3 DEF SocketIs
      <4>2. PICK o \in CLIENTS, a, b \in 0..PIECES :
              /\ a <= b /\ sock[q].received = Run(o, a, b) /\ b <= client[o].sent
              /\ sock[q].peer # "nobody" => o = sock[q].peer /\ b = client[o].sent
        BY <2>8, <4>1 DEF Received
      <4>3. b <= client'[o].sent
        BY <2>7, <4>2
      <4>4. sock'[q].peer # "nobody" => o = sock'[q].peer /\ b = client'[o].sent
        BY <2>7, <3>1, <4>1, <4>2
      <4> QED BY <4>1, <4>2, <4>3, <4>4
    <3> QED BY <3>2, <3>3
  <2>9. Received'
    BY <2>8 DEF Received
  <2> QED BY <2>6, <2>9
<1> QED BY <1>1, <1>2, StepSmooth

Places == ServerPlaces \union {"connected", "available", "head", "body", "stop"}
Errors == {"OK", "AGAIN", "NOTCONN", "CONNRESET"}

\* The rest of the types: what is in neither sockets nor clients.
Locals ==
    /\ error \in Errors
    /\ services \subseteq Entries /\ service_descriptor \in Entries \union {0}
    /\ th.pc \in Places /\ th.entry \in Entries \union {0} /\ th.remaining \in 0..PIECES

\* The thread is at one of its places, with an entry and a count of the right types.
ThreadOK(u) == u.pc \in Places /\ u.entry \in Entries \union {0} /\ u.remaining \in 0..PIECES

TInv == CInv /\ Plain /\ Received /\ Locals

\* What is left of a message that was received is no longer than a request.
LEMMA ReceivedIsShort ==
    ASSUME Plain, Received, NEW s \in Socks
    PROVE  Len(sock[s].received) \in 0..PIECES
<1>1. CASE sock[s].received = << >>
  <2>1. Len(<< >>) = 0 /\ PIECES \in Nat
    BY SocketConstants
  <2> QED BY <1>1, <2>1
<1>2. CASE sock[s].received # << >>
  <2>1. PICK o \in CLIENTS, a, b \in 0..PIECES : a <= b /\ sock[s].received = Run(o, a, b)
    BY <1>2 DEF Received
  <2>2. PICK S : S = {<<o, n>> : n \in Nat}
    OBVIOUS
  <2>3. a \in Nat /\ b \in Nat /\ (\A n \in Nat : <<o, n>> \in S) /\ PIECES \in Nat
    BY <2>1, <2>2, SocketConstants
  <2>4. Len(Run(o, a, b)) = b - a
    BY <2>1, <2>3, RunIs
  <2>5. b - a \in 0..PIECES
    BY <2>1, <2>3
  <2> QED BY <2>1, <2>4, <2>5
<1> QED BY <1>1, <1>2

\* Assignments to the thread keep it so.
LEMMA ThreadStaysOK ==
    ASSUME NEW t, IsThread(t), ThreadOK(t), NEW u, NEW a \in Places, NEW b, NEW c, NEW d
    PROVE  /\ u = [t EXCEPT !.pc = a] => ThreadOK(u)
           /\ u = [t EXCEPT !.pc = a, !.i = b] => ThreadOK(u)
           /\ u = [t EXCEPT !.pc = a, !.status = b] => ThreadOK(u)
           /\ u = [t EXCEPT !.pc = a, !.text = b] => ThreadOK(u)
           /\ u = [t EXCEPT !.pc = a, !.i = b, !.found = c, !.listening = d] => ThreadOK(u)
           /\ u = [t EXCEPT !.pc = a, !.entry = b] /\ b \in Entries \union {0} => ThreadOK(u)
           /\ u = [t EXCEPT !.pc = a, !.text = b, !.remaining = c] /\ c \in 0..PIECES => ThreadOK(u)
<1>1. t.entry \in Entries \union {0} /\ t.remaining \in 0..PIECES
  BY DEF ThreadOK
<1>2. ASSUME NEW i, NEW f, NEW st, NEW x, NEW e \in Entries \union {0}, NEW r \in 0..PIECES,
             ThreadHas(u, a, i, f, st, e, r, x)
      PROVE  ThreadOK(u)
  BY <1>2 DEF ThreadHas, ThreadOK
<1>3. ASSUME u = [t EXCEPT !.pc = a] PROVE ThreadOK(u)
  <2>1. ThreadHas(u, a, t.i, t.found, t.status, t.entry, t.remaining, t.text)
    BY <1>3, ThreadParts, Zenon
  <2> QED BY <1>1, <1>2, <2>1, Zenon
<1>4. ASSUME u = [t EXCEPT !.pc = a, !.i = b] PROVE ThreadOK(u)
  <2>1. ThreadHas(u, a, b, t.found, t.status, t.entry, t.remaining, t.text)
    BY <1>4, ThreadParts, Zenon
  <2> QED BY <1>1, <1>2, <2>1, Zenon
<1>5. ASSUME u = [t EXCEPT !.pc = a, !.status = b] PROVE ThreadOK(u)
  <2>1. ThreadHas(u, a, t.i, t.found, b, t.entry, t.remaining, t.text)
    BY <1>5, ThreadParts, Zenon
  <2> QED BY <1>1, <1>2, <2>1, Zenon
<1>6. ASSUME u = [t EXCEPT !.pc = a, !.text = b] PROVE ThreadOK(u)
  <2>1. ThreadHas(u, a, t.i, t.found, t.status, t.entry, t.remaining, b)
    BY <1>6, ThreadParts, Zenon
  <2> QED BY <1>1, <1>2, <2>1, Zenon
<1>7. ASSUME u = [t EXCEPT !.pc = a, !.i = b, !.found = c, !.listening = d] PROVE ThreadOK(u)
  <2>1. ThreadHas(u, a, b, c, t.status, t.entry, t.remaining, t.text)
    BY <1>7, ThreadParts, Zenon
  <2> QED BY <1>1, <1>2, <2>1, Zenon
<1>8. ASSUME u = [t EXCEPT !.pc = a, !.entry = b], b \in Entries \union {0} PROVE ThreadOK(u)
  <2>1. ThreadHas(u, a, t.i, t.found, t.status, b, t.remaining, t.text)
    BY <1>8, ThreadParts, Zenon
  <2>2. b \in Entries \union {0}
    BY <1>8
  <2> QED BY <1>1, <1>2, <2>1, <2>2, Zenon
<1>9. ASSUME u = [t EXCEPT !.pc = a, !.text = b, !.remaining = c], c \in 0..PIECES PROVE ThreadOK(u)
  <2>1. ThreadHas(u, a, t.i, t.found, t.status, t.entry, c, b)
    BY <1>9, ThreadParts, Zenon
  <2>2. c \in 0..PIECES
    BY <1>9
  <2> QED BY <1>1, <1>2, <2>1, <2>2, Zenon
<1> QED BY <1>3, <1>4, <1>5, <1>6, <1>7, <1>8, <1>9

\* The thread that starts over.
LEMMA IdleIsOK == ThreadOK(Idle)
<1>1. Idle.pc = "scan" /\ Idle.entry = 0 /\ Idle.remaining = 0
  BY DEF Idle
<1>2. 0 \in 0..PIECES
  BY SocketConstants
<1> QED BY <1>1, <1>2 DEF ThreadOK, Places, ServerPlaces

\* The rest of the types hold again after every step.
LEMMA LocalsStay ==
    ASSUME TInv, [Next]_vars
    PROVE  Locals'
<1>1. IsThread(th) /\ ThreadOK(th) /\ ThreadOK(Idle)
  BY IdleIsOK DEF TInv, CInv, IInv, Uses, Locals, ThreadOK
<1>2. \A s : ErrorOn(s) \in Errors /\ ErrorAfterRecv(s) \in Errors
  BY DEF TInv, Locals, ErrorOn, ErrorAfterRecv, Errors
<1>3. error \in Errors /\ services \subseteq Entries /\ service_descriptor \in Entries \union {0}
      /\ th.entry \in Entries \union {0}
  BY DEF TInv, Locals
<1> DEFINE Rest == error' \in Errors /\ services' \subseteq Entries
                   /\ service_descriptor' \in Entries \union {0}
<1>4. ASSUME Rest, ThreadOK(th') PROVE Locals'
  BY <1>4, Zenon DEF Locals, ThreadOK
<1>5. ASSUME NEW f, NEW l, NextSlot(f, l) PROVE ThreadOK(th')
  <2>1. PICK b : th' = [th EXCEPT !.pc = "scan", !.i = b, !.found = f, !.listening = l]
    BY <1>5 DEF NextSlot
  <2> QED BY <1>1, <2>1, ThreadStaysOK, Zenon DEF Places, ServerPlaces
<1>6. CASE ScanSkips \/ ActOnConnection \/ ActOnListening \/ ActOnClosed
  <2>1. \E f, l : NextSlot(f, l)
    BY <1>6 DEF ScanSkips, ActOnConnection, ActOnListening, ActOnClosed
  <2>2. Rest
    BY <1>2, <1>3, <1>6, Zenon DEF ScanSkips, ActOnConnection, ActOnListening, ActOnClosed, socketVars, slotVars
  <2> QED BY <1>4, <1>5, <2>1, <2>2
<1>7. CASE \/ ScanReadsStatus \/ ScanEnds \/ socketBegin \/ BeginListens \/ BeginMarks \/ Connected
  <2>1. PICK a, b : /\ a \in Places
                    /\ \/ th' = [th EXCEPT !.pc = a] \/ th' = [th EXCEPT !.pc = a, !.i = b]
                       \/ th' = [th EXCEPT !.pc = a, !.status = b]
    BY <1>7 DEF ScanReadsStatus, ScanEnds, socketBegin, BeginListens, BeginMarks, Connected,
                Places, ServerPlaces
  <2>2. Rest
    BY <1>3, <1>7, Zenon DEF ScanReadsStatus, ScanEnds, socketBegin, BeginListens, BeginMarks, Connected,
                socketVars, slotVars
  <2> QED BY <1>1, <1>4, <2>1, <2>2, ThreadStaysOK, Zenon
<1>8. CASE BeginRegisters
  <2>1. PICK b \in Entries \union {0} : th' = [th EXCEPT !.pc = "assign", !.entry = b]
    BY <1>8 DEF BeginRegisters, FreeEntries
  <2>2. Rest
    <3>1. \/ services' = services
          \/ \E e \in FreeEntries : services' = services \union {e}
      BY <1>8 DEF BeginRegisters
    <3>2. services' \subseteq Entries
      BY <1>3, <3>1, Zenon DEF FreeEntries
    <3> QED BY <1>3, <1>8, <3>2 DEF BeginRegisters, socketVars
  <2> QED BY <1>1, <1>4, <2>1, <2>2, ThreadStaysOK, Zenon DEF Places, ServerPlaces
<1>9. CASE BeginAssigns
  <2>1. th' = [th EXCEPT !.pc = "connected"] /\ Rest
    BY <1>3, <1>9 DEF BeginAssigns
  <2> QED BY <1>1, <1>4, <2>1, ThreadStaysOK, Zenon DEF Places
<1>10. CASE NobodyThere \/ Stops
  <2>1. th' = Idle /\ Rest
    BY <1>3, <1>10 DEF NobodyThere, Stops, socketVars, slotVars
  <2> QED BY <1>1, <1>4, <2>1
<1>11. CASE ConnectedAfterFin \/ ReadsRequest
  <2>1. Rest
    BY <1>2, <1>3, <1>11 DEF ConnectedAfterFin, ReadsRequest, ClientAvailable, slotVars
  <2>2. th.found \in Slots /\ slot[th.found].ptr \in Socks
    <3>1. th.found \in Slots /\ slot[th.found].ptr # 0
      BY <1>11, StatusSays DEF ConnectedAfterFin, ReadsRequest, TInv, CInv, IInv, Uses
    <3> QED BY <3>1 DEF TInv, CInv, IInv, SlotRecords
  <2>3. Len(sock[slot[th.found].ptr].received) \in 0..PIECES
    BY <2>2, ReceivedIsShort DEF TInv
  <2>4. PICK a \in Places : ClientAvailable(a, Idle)
                            \/ ClientAvailable(a, [th EXCEPT !.pc = a, !.text = << >>])
    BY <1>11 DEF ConnectedAfterFin, ReadsRequest, Places
  <2>5. PICK m, k : m = sock[slot[th.found].ptr].received /\ k = Len(m)
    OBVIOUS
  <2>6. k \in 0..PIECES
    BY <2>3, <2>5
  <2>7. \/ th' = Idle \/ th' = [th EXCEPT !.pc = a] \/ th' = [th EXCEPT !.pc = a, !.text = << >>]
        \/ th' = [th EXCEPT !.pc = a, !.text = m, !.remaining = k]
    BY <2>4, <2>5 DEF ClientAvailable
  <2>8. ThreadOK(th')
    <3>1. CASE th' = [th EXCEPT !.pc = a] \/ th' = [th EXCEPT !.pc = a, !.text = << >>]
      BY <1>1, <3>1, ThreadStaysOK, Zenon
    <3>2. CASE th' = [th EXCEPT !.pc = a, !.text = m, !.remaining = k]
      BY <1>1, <2>6, <3>2, ThreadStaysOK, Zenon
    <3> QED BY <1>1, <2>7, <3>1, <3>2, Zenon
  <2> QED BY <1>4, <2>1, <2>8
<1>12. CASE WritesHead \/ WritesBody
  <2>1. PICK a \in Places : th' = [th EXCEPT !.pc = a]
    BY <1>12, Zenon DEF WritesHead, WritesBody, Write, Places
  <2>2. Rest
    BY <1>2, <1>3, <1>12, Zenon DEF WritesHead, WritesBody, Write, Send, slotVars
  <2> QED BY <1>1, <1>4, <2>1, <2>2, ThreadStaysOK, Zenon
<1>13. CASE Poll
  <2>1. th' = th /\ Rest
    BY <1>3, <1>13 DEF Poll, Unregistered, Errors
  <2> QED BY <1>1, <1>4, <2>1
<1>14. CASE UNCHANGED vars \/ \E c \in CLIENTS : Network(c) /\ UNCHANGED <<slotVars, th>>
  <2>1. th' = th /\ Rest
    BY <1>3, <1>14, Zenon DEF vars, socketVars, slotVars, Network, Connect, SendPiece, HalfClose, Reset
  <2> QED BY <1>1, <1>4, <2>1
<1> QED BY <1>6, <1>7, <1>8, <1>9, <1>10, <1>11, <1>12, <1>13, <1>14 DEF Next, ServerStep, ServiceStep

\* At the start all types are right.
LEMMA InitiallyTyped == Init => TInv
<1> SUFFICES ASSUME Init PROVE TInv
  OBVIOUS
<1>1. CInv
  BY InitiallyCounts
<1>2. /\ Unused.state = "UNUSED" /\ Unused.peer = "nobody" /\ Unused.received = << >>
      /\ Unused.reset = FALSE
  BY DEF Unused
<1>3. /\ sock = [s \in Socks |-> Unused] /\ error = "OK"
      /\ client = [c \in CLIENTS |-> [phase |-> "idle", sent |-> 0, fin |-> FALSE, got |-> << >>]]
      /\ services = {} /\ service_descriptor = 0
  BY DEF Init, ServerInit, SocketInit, NewClient
<1>4. th = [pc |-> "socketBegin", i |-> 1, status |-> "CLOSED", listening |-> FALSE,
            found |-> 0, entry |-> 0, remaining |-> 0, text |-> << >>]
  BY DEF Init, Idle
<1>5. 0 \in 0..PIECES
  BY SocketConstants
<1>6. Plain /\ Received
  BY <1>2, <1>3, <1>5 DEF Plain, Received, States, Phases
<1>7. Locals
  BY <1>3, <1>4, <1>5 DEF Locals, Places, ServerPlaces, Errors
<1> QED BY <1>1, <1>6, <1>7 DEF TInv

\* All types are right again after every step.
LEMMA StepTyped == TInv /\ [Next]_vars => TInv'
BY StepCounts, ReceivedStays, LocalsStay DEF TInv

\* The types in the form the runs check.
LEMMA TypedIsTypeOK == TInv => TypeOK
<1> SUFFICES ASSUME TInv PROVE TypeOK
  OBVIOUS
<1>1. SocketTypeOK
  <2>1. \A s \in Socks : sock[s].peer \in CLIENTS \union {"nobody"}
    BY DEF TInv, CInv, Connections
  <2>2. \A s \in Socks : sock[s].head \in Socks \union {0}
    <3>1. Unused.head = 0
      BY DEF Unused
    <3> QED BY <3>1 DEF TInv, CInv, IInv, SocketRecords, Owners
  <2> QED BY <2>1, <2>2 DEF SocketTypeOK, TInv, Plain, Locals, States, Phases, Errors
<1>2. ServerTypeOK
  BY <1>1 DEF ServerTypeOK, TInv, CInv, IInv, SlotRecords, Locals
<1> QED BY <1>2 DEF TypeOK, TInv, CInv, IInv, Uses, Locals, Places

\* The types are right for any number of slots, sockets and clients: no step leaves
\* an index, a count or a pointer that the code would run off an array with.
THEOREM TypeCorrect == Spec => []TypeOK
<1>1. Init => TInv
  BY InitiallyTyped
<1>2. TInv /\ [Next]_vars => TInv'
  BY StepTyped
<1>3. TInv => TypeOK
  BY TypedIsTypeOK
<1> QED BY <1>1, <1>2, <1>3, PTL DEF Spec

-----------------------------------------------------------------------------
(***************************************************************************)
(* One answer.  The invariant says whose text the thread is at work on,    *)
(* and how much of its answer that client has.                             *)
(***************************************************************************)
Found == slot[th.found].ptr
Serving == th.pc \in {"available", "head", "body", "stop"}

\* The text the service reads comes from the client it is connected to, if that one
\* is still there; and it never serves the listening socket.
Reading ==
    /\ Serving => sock[Found].state # "SS_LISTENING"
    /\ th.text = << >> \/
      \E o \in CLIENTS, a, b \in 0..PIECES :
        /\ a <= b /\ th.text = Run(o, a, b) /\ b <= client[o].sent
        /\ Serving /\ (sock[Found].peer # "nobody" => o = sock[Found].peer)

HeadOf(code) == << <<code, "head">> >>
AllOf(code) == << <<code, "head">>, <<code, "body">> >>

\* A client has nothing, the head, or all of one answer that is right for it.
AnsweredOnce(c) ==
    \E code \in {AnswerOf(c), 500} :
        /\ client[c].got \in {<< >>, HeadOf(code), AllOf(code)}
        /\ code # 500 /\ client[c].got # << >> => client[c].sent = PIECES

\* Whoever is connected has got something only if the service is at work on it, and
\* then as much as the place of the thread says.
Answers ==
    /\ \A c \in CLIENTS : client[c].phase = "idle" => client[c].got = << >>
    /\ \A s \in Socks : sock[s].peer # "nobody" /\ client[sock[s].peer].got # << >> =>
          th.pc \in {"body", "stop"} /\ s = Found
    /\ th.pc = "body" /\ sock[Found].state = "SS_CONNECTED" =>
          client[sock[Found].peer].got = HeadOf(StatusFor(th.text))
    /\ th.pc = "stop" /\ sock[Found].state = "SS_CONNECTED" =>
          client[sock[Found].peer].got = AllOf(StatusFor(th.text))
    /\ \A c \in CLIENTS : AnsweredOnce(c)

\* What any step leaves: a socket in use gets no new client, and clients only go on.
Still ==
    /\ \A s \in Socks :
        /\ InUse(s) => /\ sock'[s].peer \in {"nobody", sock[s].peer}
                       /\ sock'[s].state = "SS_CONNECTED" => sock[s].state = "SS_CONNECTED"
        /\ sock'[s].state \in {"SS_CONNECTED", "SS_CLOSING"} => sock'[s].peer # "nobody"
        /\ sock'[s].state = "SS_LISTENING" => sock[s].state = "SS_LISTENING" \/ th.pc = "listen"
        /\ sock'[s].peer # "nobody" =>
             \/ sock'[s].peer = sock[s].peer /\ (sock'[s].head # 0 => sock[s].head # 0)
             \/ sock'[s].peer \in CLIENTS /\ client[sock'[s].peer].phase = "idle"
    /\ \A c \in CLIENTS :
        /\ client[c].sent <= client'[c].sent
        /\ client'[c].sent = client[c].sent \/ client[c].sent < PIECES
        /\ client'[c].phase = "idle" => client[c].phase = "idle"

\* Every step leaves that.
LEMMA StepStill ==
    ASSUME CInv, Plain, [Next]_vars
    PROVE  Still
<1>0. \A c \in CLIENTS : client[c].sent \in Nat
  BY DEF Plain
<1>1. CASE Smooth
  <2>1. \A s \in Socks : Follows(s, sock'[s])
    BY <1>1 DEF Smooth
  <2>2. \A c \in CLIENTS : ClientFollows(c, client'[c])
    BY <1>1 DEF Smooth
  <2>3. \A c \in CLIENTS :
          /\ client[c].sent <= client'[c].sent /\ client'[c].sent = client[c].sent
          /\ client'[c].phase = "idle" => client[c].phase = "idle"
    BY <1>0, <2>2 DEF ClientFollows
  <2> QED BY <2>1, <2>3 DEF Still, Follows
<1>2. CASE \E c \in CLIENTS : SendPiece(c) /\ UNCHANGED <<slotVars, th>>
  <2>1. PICK c \in CLIENTS : SendPiece(c)
    BY <1>2
  <2>2. Links /\ Connections
    BY DEF CInv, IInv, Links
  <2>3. /\ client[c].sent < PIECES
        /\ \A d \in CLIENTS :
             /\ client'[d].phase = client[d].phase
             /\ client'[d].sent = IF d = c THEN client[c].sent + 1 ELSE client[d].sent
    BY <2>1, <2>2, SendPieceDoes DEF ClientIs
  <2>4. \A q \in Socks : sock'[q].state = sock[q].state /\ sock'[q].peer = sock[q].peer
                         /\ sock'[q].head = sock[q].head
    BY <2>1, <2>2, SendPieceDoes DEF SocketIs
  <2> QED BY <1>0, <2>3, <2>4 DEF Still, Plain
<1> QED BY <1>1, <1>2, StepSmooth

\* The socket the service is at work on is in use, and the thread is where it says.
LEMMA FoundInUse ==
    ASSUME CInv, Serving
    PROVE  th.found \in Slots /\ Found \in Socks /\ InUse(Found) /\ slot[th.found].ptr # 0
BY DEF CInv, IInv, Uses, Serving, Found, SlotRecords, Owners

\* A step that tells nobody anything, and does not move the thread while a client has
\* part of an answer.
LEMMA AnswersKept ==
    ASSUME TInv, Answers, Still, Unheard,
           th.pc \in {"body", "stop"} \/ th'.pc \in {"body", "stop"} =>
              th' = th /\ slot'[th.found].ptr = slot[th.found].ptr
    PROVE  Answers'
<1>0. CInv /\ Plain /\ Connections
  BY DEF TInv, CInv
<1>1. \A c \in CLIENTS : client'[c].phase = "idle" => client'[c].got = << >>
  BY DEF Answers, Still, Unheard
<1>2. ASSUME NEW s \in Socks, sock'[s].peer # "nobody", client'[sock'[s].peer].got # << >>
      PROVE  /\ th.pc \in {"body", "stop"} /\ s = Found /\ sock'[s].peer = sock[s].peer
             /\ client'[sock[s].peer].got = client[sock[s].peer].got
  <2>1. \/ sock'[s].peer = sock[s].peer
        \/ sock'[s].peer \in CLIENTS /\ client[sock'[s].peer].phase = "idle"
    BY <1>2 DEF Still
  <2>2. sock[s].peer # "nobody" => sock[s].peer \in CLIENTS
    BY <1>0 DEF Connections
  <2>3. sock'[s].peer \in CLIENTS
    BY <1>2, <2>1, <2>2
  <2>4. client'[sock'[s].peer].got = client[sock'[s].peer].got
    BY <2>3 DEF Unheard
  <2>5. sock'[s].peer = sock[s].peer
    BY <1>2, <2>1, <2>3, <2>4 DEF Answers
  <2> QED BY <1>2, <2>4, <2>5 DEF Answers
<1>3. \A s \in Socks : sock'[s].peer # "nobody" /\ client'[sock'[s].peer].got # << >> =>
         th'.pc \in {"body", "stop"} /\ s = slot'[th'.found].ptr
  BY <1>2 DEF Found
<1>4. ASSUME th'.pc \in {"body", "stop"}, sock'[slot'[th'.found].ptr].state = "SS_CONNECTED"
      PROVE  /\ th' = th /\ slot'[th'.found].ptr = Found /\ sock[Found].state = "SS_CONNECTED"
             /\ client'[sock'[Found].peer].got = client[sock[Found].peer].got
  <2>1. th' = th /\ slot'[th'.found].ptr = Found /\ Serving
    BY <1>4 DEF Found, Serving
  <2>2. Found \in Socks /\ InUse(Found)
    BY <1>0, <2>1, FoundInUse
  <2>3. sock[Found].state = "SS_CONNECTED" /\ sock'[Found].peer = sock[Found].peer
    BY <1>4, <2>1, <2>2 DEF Still
  <2>4. sock[Found].peer \in CLIENTS
    BY <1>0, <2>2, <2>3 DEF Plain, Connections
  <2> QED BY <2>1, <2>3, <2>4 DEF Unheard
<1>5. th'.pc = "body" /\ sock'[slot'[th'.found].ptr].state = "SS_CONNECTED" =>
         client'[sock'[slot'[th'.found].ptr].peer].got = HeadOf(StatusFor(th'.text))
  BY <1>4 DEF Answers
<1>6. th'.pc = "stop" /\ sock'[slot'[th'.found].ptr].state = "SS_CONNECTED" =>
         client'[sock'[slot'[th'.found].ptr].peer].got = AllOf(StatusFor(th'.text))
  BY <1>4 DEF Answers
<1>7. ASSUME NEW c \in CLIENTS PROVE AnsweredOnce(c)'
  <2>1. PICK code \in {AnswerOf(c), 500} :
          /\ client[c].got \in {<< >>, HeadOf(code), AllOf(code)}
          /\ code # 500 /\ client[c].got # << >> => client[c].sent = PIECES
    BY DEF Answers, AnsweredOnce
  <2>2. client'[c].got = client[c].got
    BY DEF Unheard
  <2>3. client[c].sent = PIECES => client'[c].sent = PIECES
    BY SocketConstants DEF Still
  <2> QED BY <2>1, <2>2, <2>3 DEF AnsweredOnce, AnswerOf, HeadOf, AllOf
<1> QED BY <1>1, <1>3, <1>5, <1>6, <1>7 DEF Answers, Found

\* Dropping a connection after its FIN ends none that could still be answered.
Dropping ==
    th.pc = "act" /\ th.status = "CLOSE_WAIT" => sock[slot[th.i].ptr].state # "SS_CONNECTED"

Working == WritesHead \/ WritesBody \/ Stops

\* The assignments move the thread to the place they say.
LEMMA PlaceAfter ==
    ASSUME NEW t, IsThread(t), NEW u, NEW a, NEW b
    PROVE  /\ u = [t EXCEPT !.pc = a] => u.pc = a
           /\ u = [t EXCEPT !.pc = a, !.i = b] => u.pc = a
           /\ u = [t EXCEPT !.pc = a, !.status = b] => u.pc = a
           /\ u = [t EXCEPT !.pc = a, !.entry = b] => u.pc = a
           /\ u = [t EXCEPT !.pc = a, !.text = b] => u.pc = a
<1>1. PICK pc, i, st, li, fo, en, re, te : t =
         [pc |-> pc, i |-> i, status |-> st, listening |-> li, found |-> fo,
          entry |-> en, remaining |-> re, text |-> te]
  BY DEF IsThread
<1> QED BY <1>1

\* Where each step takes the thread.
LEMMA GoesTo ==
    ASSUME CInv
    PROVE  /\ ScanSkips \/ ActOnConnection \/ ActOnListening \/ ActOnClosed => th'.pc = "scan"
           /\ ScanReadsStatus => th'.pc = "act"
           /\ ScanEnds => th'.pc \in {"connected", "socketBegin"}
           /\ socketBegin => th'.pc \in {"connected", "listen"}
           /\ BeginListens => th'.pc = "mark"
           /\ BeginMarks => th'.pc = "register"
           /\ BeginRegisters => th'.pc = "assign"
           /\ BeginAssigns => th'.pc = "connected"
           /\ NobodyThere \/ Stops => th'.pc = "scan"
           /\ Connected => th'.pc = "available"
           /\ ConnectedAfterFin => th'.pc \in {"scan", "available"}
           /\ ReadsRequest => th'.pc = "head"
           /\ WritesHead => th'.pc = "body"
           /\ WritesBody => th'.pc = "stop"
<1>0. IsThread(th)
  BY Zenon DEF CInv, IInv, Uses
<1>1. ASSUME NEW a, NEW b,
             \/ th' = [th EXCEPT !.pc = a] \/ th' = [th EXCEPT !.pc = a, !.i = b]
             \/ th' = [th EXCEPT !.pc = a, !.status = b]
             \/ th' = [th EXCEPT !.pc = a, !.entry = b]
             \/ th' = [th EXCEPT !.pc = a, !.text = b]
      PROVE  th'.pc = a
  BY <1>0, <1>1, PlaceAfter, Zenon
<1>2. ASSUME NEW f, NEW l, NextSlot(f, l) PROVE th'.pc = "scan"
  <2>1. PICK b : th' = [th EXCEPT !.pc = "scan", !.i = b, !.found = f, !.listening = l]
    BY <1>2 DEF NextSlot
  <2>2. ThreadIs(th', "scan", b, th.status, l, f)
    BY <1>0, <2>1, ThreadSteps, Zenon
  <2> QED BY <2>2 DEF ThreadIs
<1>3. ScanSkips \/ ActOnConnection \/ ActOnListening \/ ActOnClosed => th'.pc = "scan"
  <2>1. ScanSkips \/ ActOnConnection \/ ActOnListening \/ ActOnClosed => \E f, l : NextSlot(f, l)
    BY Zenon DEF ScanSkips, ActOnConnection, ActOnListening, ActOnClosed
  <2> QED BY <1>2, <2>1
<1>4. ScanReadsStatus => th'.pc = "act"
  BY <1>1 DEF ScanReadsStatus
<1>5. ScanEnds => th'.pc \in {"connected", "socketBegin"}
  <2>1. ScanEnds => \E a \in {"connected", "socketBegin"} : th' = [th EXCEPT !.pc = a]
    BY DEF ScanEnds
  <2> QED BY <1>1, <2>1, Zenon
<1>6. socketBegin => th'.pc \in {"connected", "listen"}
  <2> SUFFICES ASSUME socketBegin PROVE th'.pc \in {"connected", "listen"}
    OBVIOUS
  <2>1. PICK b : b = FirstNull
    OBVIOUS
  <2>2. th' = [th EXCEPT !.pc = "connected"] \/ th' = [th EXCEPT !.pc = "listen", !.i = b]
    BY <2>1, Zenon DEF socketBegin
  <2>3. th'.pc = "connected" \/ th'.pc = "listen"
    BY <1>0, <2>2, PlaceAfter, Zenon
  <2> QED BY <2>3
<1>7. /\ BeginListens => th'.pc = "mark"
      /\ BeginMarks => th'.pc = "register"
      /\ BeginAssigns => th'.pc = "connected"
      /\ Connected => th'.pc = "available"
  BY <1>1, Zenon DEF BeginListens, BeginMarks, BeginAssigns, Connected
<1>8. BeginRegisters => th'.pc = "assign"
  <2>1. BeginRegisters => \E b : th' = [th EXCEPT !.pc = "assign", !.entry = b]
    BY DEF BeginRegisters
  <2> QED BY <1>1, <2>1, Zenon
<1>9. WritesHead => th'.pc = "body"
  BY <1>1 DEF WritesHead, Write
<1>10. WritesBody => th'.pc = "stop"
  BY <1>1 DEF WritesBody, Write
<1>11. NobodyThere \/ Stops => th'.pc = "scan"
  BY DEF NobodyThere, Stops, Idle
<1>12. ASSUME NEW a, NEW otherwise, ClientAvailable(a, otherwise)
       PROVE  th'.pc = a \/ th' = otherwise
  <2>1. PICK m, k : m = sock[slot[th.found].ptr].received /\ k = Len(m)
    BY Zenon
  <2>2. \/ th' = otherwise \/ th' = [th EXCEPT !.pc = a]
        \/ th' = [th EXCEPT !.pc = a, !.text = m, !.remaining = k]
    BY <1>12, <2>1 DEF ClientAvailable
  <2>3. CASE th' = [th EXCEPT !.pc = a, !.text = m, !.remaining = k]
    <3>1. ThreadIs(th', a, th.i, th.status, th.listening, th.found)
      BY <1>0, <2>3, ThreadSteps, Zenon
    <3> QED BY <3>1 DEF ThreadIs
  <2> QED BY <1>1, <2>2, <2>3, Zenon
<1>13. ConnectedAfterFin => th'.pc \in {"scan", "available"}
  BY <1>12 DEF ConnectedAfterFin, Idle
<1>14. ReadsRequest => th'.pc = "head"
  <2>1. ReadsRequest => th'.pc = "head" \/ th' = [th EXCEPT !.pc = "head", !.text = << >>]
    BY <1>12 DEF ReadsRequest
  <2> QED BY <1>1, <2>1, Zenon
<1> QED BY <1>3, <1>4, <1>5, <1>6, <1>7, <1>8, <1>9, <1>10, <1>11, <1>13, <1>14

\* The thread enters and leaves the places of an answer by its writes and stop() only.
LEMMA ThreadMoves ==
    ASSUME CInv, [Next]_vars, ~Working
    PROVE  th' = th \/ (th.pc \notin {"body", "stop"} /\ th'.pc \notin {"body", "stop"})
<1>1. CASE ServerStep \/ ServiceStep
  <2>1. th.pc \notin {"body", "stop"}
    BY <1>1 DEF ServerStep, ServiceStep, Working, ScanSkips, ScanReadsStatus, ActOnConnection,
       ActOnListening, ActOnClosed, ScanEnds, socketBegin, BeginListens, BeginMarks, BeginRegisters,
       BeginAssigns, NobodyThere, ConnectedAfterFin, Connected, ReadsRequest
  <2>2. th'.pc \notin {"body", "stop"}
    BY <1>1, GoesTo DEF ServerStep, ServiceStep, Working
  <2> QED BY <2>1, <2>2
<1>2. CASE Poll \/ UNCHANGED vars \/ \E c \in CLIENTS : Network(c) /\ UNCHANGED <<slotVars, th>>
  BY <1>2 DEF Poll, vars
<1> QED BY <1>1, <1>2 DEF Next

\* While the service works for a client, only stop() takes the slot's socket away.
LEMMA FoundStaysPut ==
    ASSUME CInv, Reading, [Next]_vars, Serving, ~Stops
    PROVE  slot'[th.found].ptr = Found
<1>1. th.found \in Slots /\ Found \in Socks /\ sock[Found].state # "SS_LISTENING" /\ SlotRecords
  BY FoundInUse DEF Reading, CInv, IInv
<1>2. CASE slot' = slot
  BY <1>2 DEF Found
<1>3. CASE Poll
  <2>1. PICK i \in Slots :
          /\ socketStatus(i) = "LISTEN"
          /\ slot' = slot \/ \E q : slot' = [slot EXCEPT ![i].ptr = q]
    BY <1>3 DEF Poll
  <2>2. Listens(i)
    BY <2>1, StatusSays
  <2>3. i # th.found
    BY <1>1, <2>2 DEF Listens, Found
  <2>4. slot'[th.found] = slot[th.found]
    BY <1>1, <2>1, <2>3 DEF SlotRecords
  <2> QED BY <2>4 DEF Found
<1>4. CASE UNCHANGED vars \/ \E c \in CLIENTS : Network(c) /\ UNCHANGED <<slotVars, th>>
  <2>1. slot' = slot
    BY <1>4 DEF vars, slotVars
  <2> QED BY <1>2, <2>1
<1>5. CASE ServerStep
  BY <1>5 DEF ServerStep, Serving, ScanSkips, ScanReadsStatus, ActOnConnection, ActOnListening,
     ActOnClosed, ScanEnds, socketBegin, BeginListens, BeginMarks, BeginRegisters, BeginAssigns
<1>6. CASE ServiceStep
  <2>1. slot' = slot
    BY <1>6 DEF ServiceStep, NobodyThere, ConnectedAfterFin, Connected, ReadsRequest, WritesHead,
       WritesBody, Write, slotVars
  <2> QED BY <1>2, <2>1
<1> QED BY <1>3, <1>4, <1>5, <1>6 DEF Next

\* Nobody is told anything but by the writes, and the server says goodbye in stop()
\* and where FNET's list has no room for the poll.
LEMMA QuietSteps ==
    ASSUME TInv, Dropping, [Next]_vars, ~Working
    PROVE  Unheard /\ (Quiet \/ Refused)
<1>1. /\ CInv /\ Plain /\ Links /\ Connections
      /\ th.pc = "act" /\ th.status \in {"ESTABLISHED", "CLOSE_WAIT"} =>
            th.i \in Slots /\ slot[th.i].ptr # 0
      /\ th.pc = "assign" => th.i \in Slots /\ slot[th.i].ptr # 0
  BY DEF TInv, CInv, IInv, Links, Uses
<1>2. CASE client' = client
  BY <1>1, <1>2, ClientsStay DEF Quiet, Unheard
<1>3. CASE ActOnConnection
  <2>1. th.i \in Slots /\ slot[th.i].ptr # 0
    BY <1>1, <1>3 DEF ActOnConnection
  <2>2. client' = client \/ (Disconnect(th.i) /\ th.pc = "act" /\ th.status = "CLOSE_WAIT")
    BY <1>3 DEF ActOnConnection, socketVars
  <2>3. ASSUME Disconnect(th.i), th.pc = "act", th.status = "CLOSE_WAIT" PROVE Quiet
    BY <1>1, <2>1, <2>3, DisconnectSmooth DEF Dropping
  <2> QED BY <1>2, <2>2, <2>3 DEF Quiet, Unheard
<1>4. CASE BeginAssigns
  <2>1. client' = client \/ (Refused /\ Disconnect(th.i))
    BY <1>4 DEF BeginAssigns, Refused
  <2>2. th.i \in Slots /\ slot[th.i].ptr # 0
    BY <1>1, <1>4 DEF BeginAssigns
  <2>3. CASE Refused /\ Disconnect(th.i)
    BY <1>1, <2>2, <2>3, DisconnectSmooth DEF Unheard
  <2> QED BY <1>2, <2>1, <2>3
<1>5. CASE ServerStep /\ ~ActOnConnection /\ ~BeginAssigns
  <2>1. client' = client
    BY <1>5 DEF ServerStep, ScanSkips, ScanReadsStatus, ActOnListening, ActOnClosed, ScanEnds,
       socketBegin, BeginListens, BeginMarks, BeginRegisters, socketVars
  <2> QED BY <1>2, <2>1
<1>6. CASE ServiceStep
  <2>1. client' = client
    BY <1>6 DEF ServiceStep, Working, NobodyThere, ConnectedAfterFin, Connected, ReadsRequest, socketVars
  <2> QED BY <1>2, <2>1
<1>7. CASE Poll \/ UNCHANGED vars
  <2>1. client' = client
    BY <1>7 DEF Poll, vars, socketVars
  <2> QED BY <1>2, <2>1
<1>8. CASE \E c \in CLIENTS : Network(c) /\ UNCHANGED <<slotVars, th>>
  <2>1. PICK c \in CLIENTS : Network(c) /\ slot' = slot
    BY <1>8 DEF slotVars
  <2>2. CASE SendPiece(c)
    <3>1. \A d \in CLIENTS : client'[d].phase = client[d].phase /\ client'[d].got = client[d].got
      BY <1>1, <2>2, SendPieceDoes DEF ClientIs
    <3> QED BY <3>1 DEF Quiet, Unheard
  <2>3. CASE Connect(c)
    BY <1>1, <2>1, <2>3, ConnectSmooth DEF Quiet, Unheard
  <2>4. CASE HalfClose(c) \/ Reset(c)
    BY <1>1, <2>4, PartSmooth DEF Quiet, Unheard
  <2> QED BY <2>1, <2>2, <2>3, <2>4 DEF Network
<1> QED BY <1>3, <1>4, <1>5, <1>6, <1>7, <1>8 DEF Next

\* What the thread is about to answer is right for whoever is connected: an answer
\* other than 500 is for a whole text, and so for a client that sent all.
LEMMA StatusIsRight ==
    ASSUME TInv, Reading, Serving, sock[Found].peer # "nobody"
    PROVE  /\ StatusFor(th.text) \in {AnswerOf(sock[Found].peer), 500}
           /\ StatusFor(th.text) # 500 => client[sock[Found].peer].sent = PIECES
<1> DEFINE p == sock[Found].peer
<1>1. p \in CLIENTS /\ client[p].sent \in 0..PIECES /\ PIECES \in Nat \ {0}
  BY FoundInUse, SocketConstants DEF TInv, CInv, Connections, Plain
<1>2. ASSUME NEW c \in CLIENTS, th.text = Whole(c)
      PROVE  c = p /\ client[p].sent = PIECES /\ th.text[1][1] = c
  <2>1. DOMAIN th.text = 1..PIECES /\ \A n \in 1..PIECES : th.text[n] = <<c, n>>
    BY <1>2 DEF Whole
  <2>2. th.text # << >>
    <3>1. DOMAIN << >> = {} /\ 1 \in 1..PIECES
      BY <1>1
    <3> QED BY <2>1, <3>1
  <2>3. PICK o \in CLIENTS, a, b \in 0..PIECES :
          a <= b /\ th.text = Run(o, a, b) /\ b <= client[o].sent /\ o = p
    BY <2>2 DEF Reading
  <2>4. DOMAIN th.text = 1..(b - a) /\ \A n \in 1..(b - a) : th.text[n] = <<o, a + n>>
    BY <2>3 DEF Run
  <2>5. PIECES \in 1..(b - a)
    BY <1>1, <2>1, <2>4
  <2>6. a = 0 /\ b = PIECES
    BY <1>1, <2>3, <2>5
  <2>7. 1 \in 1..PIECES /\ 1 \in 1..(b - a)
    BY <1>1, <2>5
  <2>8. <<c, 1>> = <<o, a + 1>>
    BY <2>1, <2>4, <2>7
  <2>9. c = o /\ th.text[1][1] = c
    BY <2>1, <2>7, <2>8
  <2> QED BY <1>1, <2>3, <2>6, <2>9
<1>3. CASE \E c \in CLIENTS : th.text = Whole(c)
  <2>1. PICK c \in CLIENTS : th.text = Whole(c)
    BY <1>3
  <2>2. StatusFor(th.text) = AnswerOf(p)
    BY <1>2, <1>3, <2>1 DEF StatusFor, AnswerOf
  <2> QED BY <1>2, <2>1, <2>2
<1>4. CASE ~ \E c \in CLIENTS : th.text = Whole(c)
  BY <1>4 DEF StatusFor
<1> QED BY <1>3, <1>4

\* Clients that go on as they were are answered as they were.
LEMMA AnsweredStays ==
    ASSUME NEW c \in CLIENTS, AnsweredOnce(c), Still,
           client'[c].got = client[c].got
    PROVE  AnsweredOnce(c)'
<1>1. PICK code \in {AnswerOf(c), 500} :
        /\ client[c].got \in {<< >>, HeadOf(code), AllOf(code)}
        /\ code # 500 /\ client[c].got # << >> => client[c].sent = PIECES
  BY DEF AnsweredOnce
<1>2. client[c].sent = PIECES => client'[c].sent = PIECES
  BY SocketConstants DEF Still
<1> QED BY <1>1, <1>2 DEF AnsweredOnce, AnswerOf, HeadOf, AllOf

\* A write to a socket that is not connected tells nobody anything.
LEMMA WriteToNobody ==
    ASSUME TInv, Answers, Reading, Still, Serving, sock[Found].state # "SS_CONNECTED", Unheard,
           slot' = slot, th'.found = th.found, th'.pc \in {"body", "stop"}
    PROVE  Answers'
<1>1. Found \in Socks /\ InUse(Found) /\ slot'[th'.found].ptr = Found
  BY FoundInUse DEF TInv, Found
<1>2. sock'[Found].state # "SS_CONNECTED"
  BY <1>1 DEF Still
<1>3. \A c \in CLIENTS : client'[c].phase = "idle" => client'[c].got = << >>
  BY DEF Answers, Still, Unheard
<1>4. \A s \in Socks : sock'[s].peer # "nobody" /\ client'[sock'[s].peer].got # << >> =>
         s = Found
  <2> TAKE s \in Socks
  <2> HAVE sock'[s].peer # "nobody" /\ client'[sock'[s].peer].got # << >>
  <2>1. \/ sock'[s].peer = sock[s].peer
        \/ sock'[s].peer \in CLIENTS /\ client[sock'[s].peer].phase = "idle"
    BY DEF Still
  <2>2. sock'[s].peer \in CLIENTS
    BY <2>1 DEF TInv, CInv, Connections
  <2>3. client'[sock'[s].peer].got = client[sock'[s].peer].got
    BY <2>2 DEF Unheard
  <2> QED BY <2>1, <2>2, <2>3 DEF Answers
<1>5. \A c \in CLIENTS : AnsweredOnce(c)'
  <2> TAKE c \in CLIENTS
  <2>1. AnsweredOnce(c) /\ client'[c].got = client[c].got
    BY DEF Answers, Unheard
  <2> QED BY <2>1, AnsweredStays
<1> QED BY <1>1, <1>2, <1>3, <1>4, <1>5 DEF Answers, Found

\* A write to a client that is connected: the next part of its answer.
LEMMA WriteToClient ==
    ASSUME TInv, Answers, Reading, Still, Serving, sock[Found].state = "SS_CONNECTED",
           NEW got, NEW code, code = StatusFor(th.text), sock' = sock, slot' = slot,
           \A c \in CLIENTS :
              /\ client'[c].phase = client[c].phase
              /\ client'[c].got = IF c = sock[Found].peer THEN got ELSE client[c].got,
           th'.found = th.found, th'.text = th.text,
           \/ th'.pc = "body" /\ got = HeadOf(code)
           \/ th'.pc = "stop" /\ got = AllOf(code)
    PROVE  Answers'
<1>0. PICK p : p = sock[Found].peer
  OBVIOUS
<1>1. /\ Found \in Socks /\ slot'[th'.found].ptr = Found
      /\ p \in CLIENTS /\ p # "nobody" /\ client[p].phase = "open"
      /\ \A s \in Socks : sock[s].peer = p => s = Found
  BY <1>0, FoundInUse, SocketConstants DEF TInv, CInv, Connections, Plain, Found
<1>2. code \in {AnswerOf(p), 500} /\ (code # 500 => client[p].sent = PIECES)
  BY <1>0, <1>1, StatusIsRight
<1>3. client[p].sent = PIECES => client'[p].sent = PIECES
  BY <1>1, SocketConstants DEF Still
<1>4. \A c \in CLIENTS : client'[c].phase = "idle" => client'[c].got = << >>
  BY <1>0, <1>1 DEF Answers
<1>5. \A s \in Socks : sock'[s].peer # "nobody" /\ client'[sock'[s].peer].got # << >> => s = Found
  <2> TAKE s \in Socks
  <2> HAVE sock'[s].peer # "nobody" /\ client'[sock'[s].peer].got # << >>
  <2>1. sock[s].peer \in CLIENTS
    BY DEF TInv, CInv, Connections
  <2>2. CASE sock[s].peer = p
    BY <1>1, <2>2
  <2>3. CASE sock[s].peer # p
    <3>1. client[sock[s].peer].got # << >>
      BY <1>0, <2>1, <2>3
    <3> QED BY <3>1 DEF Answers
  <2> QED BY <2>2, <2>3
<1>6. AnsweredOnce(p)'
  <2>1. client'[p].got = got /\ client'[p].phase = "open"
    BY <1>0, <1>1
  <2>2. got \in {HeadOf(code), AllOf(code)}
    OBVIOUS
  <2> QED BY <1>1, <1>2, <1>3, <2>1, <2>2 DEF AnsweredOnce, AnswerOf, HeadOf, AllOf
<1>7. \A c \in CLIENTS : AnsweredOnce(c)'
  <2> TAKE c \in CLIENTS
  <2>1. CASE c = p
    BY <1>6, <2>1
  <2>2. CASE c # p
    <3>1. AnsweredOnce(c)
      BY DEF Answers
    <3> QED BY <1>0, <2>2, <3>1, AnsweredStays
  <2> QED BY <2>1, <2>2
<1>8. client'[p].got = got /\ StatusFor(th'.text) = code
  BY <1>0, <1>1
<1>9. th'.pc = "body" => client'[p].got = HeadOf(StatusFor(th'.text))
  BY <1>8 DEF HeadOf, AllOf
<1>10. th'.pc = "stop" => client'[p].got = AllOf(StatusFor(th'.text))
  BY <1>8 DEF HeadOf, AllOf
<1>11. sock'[slot'[th'.found].ptr].peer = p
  BY <1>0, <1>1
<1> QED BY <1>1, <1>4, <1>5, <1>7, <1>9, <1>10, <1>11 DEF Answers, Found

\* The second part goes after the first.
LEMMA SecondPart ==
    ASSUME NEW x, NEW y
    PROVE  Append(<<x>>, y) = <<x, y>>
<1>1. PICK S : S = {x, y}
  OBVIOUS
<1>2. PICK t : t = <<x>>
  OBVIOUS
<1>3. PICK u : u = <<x, y>>
  OBVIOUS
<1>4. t \in Seq(S) /\ Len(t) = 1 /\ t[1] = x
  BY <1>1, <1>2
<1>5. u \in Seq(S) /\ Len(u) = 2 /\ u[1] = x /\ u[2] = y
  BY <1>1, <1>3
<1>6. /\ Append(t, y) \in Seq(S) /\ Len(Append(t, y)) = 2
      /\ Append(t, y)[1] = x /\ Append(t, y)[2] = y
  <2>1. t \in Seq(S) /\ y \in S
    BY <1>1, <1>4
  <2>2. /\ Append(t, y) \in Seq(S) /\ Len(Append(t, y)) = Len(t) + 1
        /\ \A i \in 1..Len(t) : Append(t, y)[i] = t[i]
        /\ Append(t, y)[Len(t) + 1] = y
    BY <2>1, AppendProperties
  <2>3. 1 \in 1..Len(t) /\ Len(t) + 1 = 2
    BY <1>4
  <2> QED BY <1>4, <2>2, <2>3
<1>7. PICK w \in Seq(S) : w = Append(t, y) /\ Len(w) = 2 /\ w[1] = x /\ w[2] = y
  BY <1>6
<1>8. \A i \in 1..Len(w) : w[i] = u[i]
  BY <1>5, <1>7
<1>9. w = u
  BY <1>5, <1>7, <1>8, SeqEqual
<1> QED BY <1>2, <1>3, <1>7, <1>9

\* The clients have what the place of the thread says again after every step.
LEMMA AnswersStay ==
    ASSUME TInv, Reading, Answers, Dropping, [Next]_vars
    PROVE  Answers'
<1>1. CInv /\ Plain /\ Links /\ Connections /\ IsThread(th) /\ Still
  BY StepStill DEF TInv, CInv, IInv, Links, Uses
<1>2. CASE ~Working
  <2>1. Unheard
    BY <1>2, QuietSteps
  <2>2. th' = th \/ (th.pc \notin {"body", "stop"} /\ th'.pc \notin {"body", "stop"})
    BY <1>1, <1>2, ThreadMoves
  <2>3. th.pc \in {"body", "stop"} => slot'[th.found].ptr = slot[th.found].ptr
    BY <1>1, <1>2, FoundStaysPut DEF Serving, Working, Found
  <2> QED BY <1>1, <2>1, <2>2, <2>3, AnswersKept
<1>3. CASE WritesHead \/ WritesBody
  <2>1. PICK place, next :
          /\ Write(place, next)
          /\ (place = "head" /\ next = "body") \/ (place = "body" /\ next = "stop")
    BY <1>3 DEF WritesHead, WritesBody
  <2>2. th.pc = place /\ th' = [th EXCEPT !.pc = next] /\ slot' = slot
    BY <2>1, Zenon DEF Write, slotVars
  <2>3. ThreadHas(th', next, th.i, th.found, th.status, th.entry, th.remaining, th.text)
    BY <1>1, <2>2, ThreadParts, Zenon
  <2>4. th'.pc = next /\ th'.found = th.found /\ th'.text = th.text
    BY <2>3 DEF ThreadHas
  <2>5. Serving /\ th.found \in Slots /\ slot[th.found].ptr # 0 /\ Found \in Socks
    BY <1>1, <2>1, <2>2, FoundInUse DEF Serving
  <2>6. PICK code : code = StatusFor(th.text)
    OBVIOUS
  <2>7. Send(Found, <<code, place>>)
    BY <2>1, <2>6 DEF Write, Found
  <2>8. CASE sock[Found].state # "SS_CONNECTED"
    <3>1. Quiet
      BY <1>1, <2>5, <2>7, <2>8, SendSmooth DEF Found
    <3> QED BY <1>1, <2>1, <2>2, <2>4, <2>5, <2>8, <3>1, WriteToNobody DEF Quiet, Unheard
  <2>9. CASE sock[Found].state = "SS_CONNECTED"
    <3>1. PICK p : p = sock[Found].peer
      OBVIOUS
    <3>2. /\ sock' = sock
          /\ \A c \in CLIENTS :
               /\ client'[c].phase = client[c].phase
               /\ client'[c].got = IF c = p THEN Append(client[c].got, <<code, place>>)
                                            ELSE client[c].got
      BY <1>1, <2>5, <2>7, <2>9, <3>1, SendSmooth DEF Found
    <3>3. PICK got : got = Append(client[p].got, <<code, place>>)
      OBVIOUS
    <3>4. \A c \in CLIENTS :
               /\ client'[c].phase = client[c].phase
               /\ client'[c].got = IF c = p THEN got ELSE client[c].got
      BY <3>2, <3>3
    <3>5. p # "nobody"
      BY <1>1, <2>5, <2>9, <3>1 DEF Plain
    <3>6. CASE place = "head"
      <4>1. client[p].got = << >>
        BY <2>2, <2>5, <3>1, <3>5, <3>6 DEF Answers
      <4>2. got = HeadOf(code)
        <5>1. Append(<< >>, <<code, "head">>) = << <<code, "head">> >>
          OBVIOUS
        <5> QED BY <3>3, <3>6, <4>1, <5>1 DEF HeadOf
      <4>3. th'.pc = "body"
        BY <2>1, <2>4, <3>6
      <4> QED BY <1>1, <2>2, <2>4, <2>5, <2>6, <2>9, <3>1, <3>2, <3>4, <4>2, <4>3, WriteToClient
    <3>7. CASE place = "body"
      <4>1. client[p].got = HeadOf(code)
        BY <2>2, <2>5, <2>6, <2>9, <3>1, <3>7 DEF Answers
      <4>2. got = AllOf(code)
        <5>1. Append(<< <<code, "head">> >>, <<code, "body">>) = << <<code, "head">>, <<code, "body">> >>
          BY SecondPart
        <5> QED BY <3>3, <3>7, <4>1, <5>1 DEF HeadOf, AllOf
      <4>3. th'.pc = "stop"
        BY <2>1, <2>4, <3>7
      <4> QED BY <1>1, <2>2, <2>4, <2>5, <2>6, <2>9, <3>1, <3>2, <3>4, <4>2, <4>3, WriteToClient
    <3> QED BY <2>1, <3>6, <3>7
  <2> QED BY <2>8, <2>9
<1>4. CASE Stops
  <2>1. th.pc = "stop" /\ Disconnect(th.found) /\ th' = Idle
    BY <1>4 DEF Stops
  <2>2. th'.pc = "scan"
    BY <2>1 DEF Idle
  <2>3. Serving /\ th.found \in Slots /\ slot[th.found].ptr # 0 /\ Found \in Socks
    BY <1>1, <2>1, FoundInUse DEF Serving
  <2>4. ~Listens(th.found)
    BY <2>3 DEF Reading, Listens, Found
  <2>5. /\ \A c \in CLIENTS : client'[c].got = client[c].got
        /\ sock'[Found].peer = "nobody"
        /\ sock[Found].state # "SS_CONNECTED" => Quiet
        /\ \A c \in CLIENTS : c # sock[Found].peer => client'[c] = client[c]
    BY <1>1, <2>1, <2>3, <2>4, DisconnectSmooth DEF Found
  <2>6. \A c \in CLIENTS : client'[c].phase = "idle" => client'[c].got = << >>
    BY <1>1, <2>5 DEF Answers, Still
  <2>7. \A s \in Socks : sock'[s].peer # "nobody" => client'[sock'[s].peer].got = << >>
    <3> TAKE s \in Socks
    <3> HAVE sock'[s].peer # "nobody"
    <3>1. s # Found
      BY <2>5
    <3>2. \/ sock'[s].peer = sock[s].peer
          \/ sock'[s].peer \in CLIENTS /\ client[sock'[s].peer].phase = "idle"
      BY <1>1 DEF Still
    <3>3. sock'[s].peer \in CLIENTS
      BY <1>1, <3>2 DEF Connections
    <3>4. client[sock'[s].peer].got = << >>
      BY <3>1, <3>2, <3>3 DEF Answers
    <3> QED BY <2>5, <3>3, <3>4
  <2>8. ASSUME NEW c \in CLIENTS PROVE AnsweredOnce(c)'
    <3>1. AnsweredOnce(c) /\ client'[c].got = client[c].got
      BY <2>5 DEF Answers
    <3> QED BY <1>1, <3>1, AnsweredStays
  <2> QED BY <2>2, <2>6, <2>7, <2>8 DEF Answers
<1> QED BY <1>2, <1>3, <1>4 DEF Working

-----------------------------------------------------------------------------
(***************************************************************************)
(* The rest of the invariant stays: what the service reads, and that there *)
(* is room for the poll.                                                   *)
(***************************************************************************)

\* A text is what a socket's client sent, as long as it is there.
SentTo(f, t) ==
    t = << >> \/
      \E o \in CLIENTS, a, b \in 0..PIECES :
        /\ a <= b /\ t = Run(o, a, b) /\ b <= client[o].sent
        /\ sock[f].peer # "nobody" => o = sock[f].peer

\* The service reads from a socket in use that does not listen what it was sent.
LEMMA ReadingFrom ==
    ASSUME TInv, TInv', Still, th.pc # "listen", NEW f \in Socks, InUse(f),
           sock[f].state # "SS_LISTENING", NEW t, SentTo(f, t),
           th'.text = t, slot'[th'.found].ptr = f, Serving'
    PROVE  Reading'
<1>1. sock'[f].state # "SS_LISTENING" /\ sock'[f].peer \in {"nobody", sock[f].peer}
  BY DEF Still
<1>2. t = << >> \/
        \E o \in CLIENTS, a, b \in 0..PIECES :
          /\ a <= b /\ t = Run(o, a, b) /\ b <= client'[o].sent
          /\ sock'[f].peer # "nobody" => o = sock'[f].peer
  <2>1. CASE t = << >>
    BY <2>1
  <2>2. CASE t # << >>
    <3>1. PICK o \in CLIENTS, a, b \in 0..PIECES :
            /\ a <= b /\ t = Run(o, a, b) /\ b <= client[o].sent
            /\ sock[f].peer # "nobody" => o = sock[f].peer
      BY <2>2 DEF SentTo
    <3>2. client[o].sent <= client'[o].sent /\ client[o].sent \in 0..PIECES
          /\ (client'[o].sent = client[o].sent \/ client[o].sent < PIECES)
      BY DEF Still, TInv, Plain
    <3>3. client'[o].sent \in Nat
      BY DEF TInv, Plain
    <3>4. b <= client'[o].sent
      BY <3>1, <3>2, <3>3
    <3> QED BY <1>1, <3>1, <3>4
  <2> QED BY <2>1, <2>2
<1> QED BY <1>1, <1>2 DEF Reading, Found

\* available() and begin() leave the service's text alone, and serve nobody.
LEMMA ServerStepsServeNobody ==
    ASSUME CInv, ServerStep
    PROVE  ~Serving /\ ~Serving' /\ th'.text = th.text
<1>0. IsThread(th)
  BY DEF CInv, IInv, Uses
<1>1. ASSUME NEW a, NEW b, a \notin {"available", "head", "body", "stop"},
             \/ th' = [th EXCEPT !.pc = a] \/ th' = [th EXCEPT !.pc = a, !.i = b]
             \/ th' = [th EXCEPT !.pc = a, !.status = b]
             \/ th' = [th EXCEPT !.pc = a, !.entry = b]
      PROVE  ~Serving' /\ th'.text = th.text
  <2>1. th'.pc = a /\ th'.text = th.text
    <3>1. CASE th' = [th EXCEPT !.pc = a]
      <4>1. ThreadHas(th', a, th.i, th.found, th.status, th.entry, th.remaining, th.text)
        BY <1>0, <3>1, ThreadParts, Zenon
      <4> QED BY <4>1, Zenon DEF ThreadHas
    <3>2. CASE th' = [th EXCEPT !.pc = a, !.i = b]
      <4>1. ThreadHas(th', a, b, th.found, th.status, th.entry, th.remaining, th.text)
        BY <1>0, <3>2, ThreadParts, Zenon
      <4> QED BY <4>1, Zenon DEF ThreadHas
    <3>3. CASE th' = [th EXCEPT !.pc = a, !.status = b]
      <4>1. ThreadHas(th', a, th.i, th.found, b, th.entry, th.remaining, th.text)
        BY <1>0, <3>3, ThreadParts, Zenon
      <4> QED BY <4>1, Zenon DEF ThreadHas
    <3>4. CASE th' = [th EXCEPT !.pc = a, !.entry = b]
      <4>1. ThreadHas(th', a, th.i, th.found, th.status, b, th.remaining, th.text)
        BY <1>0, <3>4, ThreadParts, Zenon
      <4> QED BY <4>1, Zenon DEF ThreadHas
    <3> QED BY <1>1, <3>1, <3>2, <3>3, <3>4
  <2> QED BY <1>1, <2>1 DEF Serving
<1>2. ASSUME NEW f, NEW l, NextSlot(f, l) PROVE ~Serving' /\ th'.text = th.text
  <2>1. PICK b : th' = [th EXCEPT !.pc = "scan", !.i = b, !.found = f, !.listening = l]
    BY <1>2, Zenon DEF NextSlot
  <2>2. ThreadHas(th', "scan", b, f, th.status, th.entry, th.remaining, th.text)
    BY <1>0, <2>1, ThreadParts, Zenon
  <2> QED BY <2>2 DEF ThreadHas, Serving
<1>3. CASE ScanSkips \/ ActOnConnection \/ ActOnListening \/ ActOnClosed
  <2>1. th.pc \in {"scan", "act"} /\ \E f, l : NextSlot(f, l)
    BY <1>3, Zenon DEF ScanSkips, ActOnConnection, ActOnListening, ActOnClosed
  <2> QED BY <1>2, <2>1 DEF Serving
<1>4. CASE ScanReadsStatus \/ ScanEnds \/ socketBegin \/ BeginListens \/ BeginMarks
           \/ BeginRegisters \/ BeginAssigns
  <2>1. PICK a, b : /\ a \notin {"available", "head", "body", "stop"}
                    /\ \/ th' = [th EXCEPT !.pc = a] \/ th' = [th EXCEPT !.pc = a, !.i = b]
                       \/ th' = [th EXCEPT !.pc = a, !.status = b]
                       \/ th' = [th EXCEPT !.pc = a, !.entry = b]
    BY <1>4, Zenon DEF ScanReadsStatus, ScanEnds, socketBegin, BeginListens, BeginMarks, BeginRegisters,
                BeginAssigns
  <2>2. ~Serving
    BY <1>4 DEF Serving, ScanReadsStatus, ScanEnds, socketBegin, BeginListens, BeginMarks,
                BeginRegisters, BeginAssigns
  <2> QED BY <1>1, <2>1, <2>2, Zenon
<1> QED BY <1>3, <1>4 DEF ServerStep

\* What the service reads stays what it was sent.
LEMMA ReadingStays ==
    ASSUME TInv, Reading, [Next]_vars
    PROVE  Reading'
<1>1. CInv /\ Plain /\ Links /\ IsThread(th) /\ Still /\ TInv'
  BY StepStill, StepTyped DEF TInv, CInv, IInv, Links, Uses
<1>2. ~Serving => th.text = << >>
  BY DEF Reading
<1>3. ASSUME ~Serving', th'.text = << >> PROVE Reading'
  BY <1>3 DEF Reading
<1>4. ASSUME NEW f \in Socks, InUse(f), sock[f].state # "SS_LISTENING", th.pc # "listen",
             slot[th.found].ptr = f, slot' = slot, th'.found = th.found,
             NEW t, th'.text = t, SentTo(f, t), Serving'
      PROVE  Reading'
  BY <1>1, <1>4, ReadingFrom
<1>5. CASE th' = th
  <2>1. CASE Serving
    <3>1. ~Stops
      <4>1. Idle.pc = "scan"
        BY DEF Idle
      <4> QED BY <1>5, <2>1, <4>1 DEF Stops
    <3>2. slot'[th.found].ptr = Found /\ Found \in Socks /\ InUse(Found)
      BY <1>1, <2>1, <3>1, FoundStaysPut, FoundInUse
    <3>3. PICK t : t = th.text
      OBVIOUS
    <3>4. SentTo(Found, t) /\ sock[Found].state # "SS_LISTENING" /\ th.pc # "listen"
      BY <2>1, <3>3 DEF Reading, SentTo, Serving
    <3>5. th'.text = t /\ slot'[th'.found].ptr = Found /\ Serving'
      BY <1>5, <2>1, <3>2, <3>3 DEF Serving
    <3>6. PICK f : f = Found
      OBVIOUS
    <3> QED BY <1>1, <3>2, <3>4, <3>5, <3>6, ReadingFrom
  <2>2. CASE ~Serving
    BY <1>2, <1>3, <1>5, <2>2 DEF Serving
  <2> QED BY <2>1, <2>2
<1>6. CASE ServerStep
  BY <1>1, <1>2, <1>3, <1>6, ServerStepsServeNobody
<1>7. CASE th' = Idle
  BY <1>3, <1>7 DEF Idle, Serving
<1>8. CASE Connected
  <2>1. /\ th' = [th EXCEPT !.pc = "available"] /\ slot' = slot
        /\ socketStatus(th.found) = "ESTABLISHED" /\ th.found # 0 /\ th.pc = "connected"
    BY <1>8, Zenon DEF Connected, slotVars
  <2>2. ThreadHas(th', "available", th.i, th.found, th.status, th.entry, th.remaining, th.text)
    BY <1>1, <2>1, ThreadParts, Zenon
  <2>3. /\ th.found \in Slots /\ Found \in Socks /\ InUse(Found)
        /\ sock[Found].state # "SS_LISTENING"
    <3>1. slot[th.found].ptr # 0 /\ ~Listens(th.found) /\ th.found \in Slots
      BY <1>1, <2>1, StatusSays DEF CInv, IInv, Uses
    <3> QED BY <1>1, <3>1 DEF Found, Links, SlotRecords, Owners, Listens
  <2>4. PICK f : f = Found
    OBVIOUS
  <2>5. SentTo(f, << >>)
    BY DEF SentTo
  <2>6. th.text = << >>
    BY <1>2, <2>1 DEF Serving
  <2> QED BY <1>4, <2>1, <2>2, <2>3, <2>4, <2>5, <2>6 DEF ThreadHas, Serving, Found
<1>9. CASE ConnectedAfterFin \/ ReadsRequest
  <2>1. /\ th.pc \in {"connected", "available"} /\ slot' = slot
        /\ th.pc = "connected" => socketStatus(th.found) = "CLOSE_WAIT" /\ th.found # 0
    BY <1>9 DEF ConnectedAfterFin, ReadsRequest, slotVars
  <2>2. /\ th.found \in Slots /\ Found \in Socks /\ InUse(Found)
        /\ sock[Found].state # "SS_LISTENING"
    <3>1. CASE th.pc = "available"
      BY <1>1, <3>1, FoundInUse DEF Serving, Reading
    <3>2. CASE th.pc = "connected"
      <4>1. slot[th.found].ptr # 0 /\ ~Listens(th.found) /\ th.found \in Slots
        BY <1>1, <2>1, <3>2, StatusSays DEF CInv, IInv, Uses
      <4> QED BY <1>1, <4>1 DEF Found, Links, SlotRecords, Owners, Listens
    <3> QED BY <2>1, <3>1, <3>2
  <2>3. PICK f : f = Found
    OBVIOUS
  <2>4. PICK m, k : m = sock[slot[th.found].ptr].received /\ k = Len(m)
    OBVIOUS
  <2>5. PICK x : x = th.text
    OBVIOUS
  <2>6. SentTo(f, << >>) /\ SentTo(f, m) /\ SentTo(f, x)
    <3>1. SentTo(f, << >>)
      BY DEF SentTo
    <3>2. SentTo(f, m)
      <4>1. m = sock[f].received /\ f \in Socks
        BY <2>2, <2>3, <2>4 DEF Found
      <4> QED BY <4>1 DEF SentTo, TInv, Received
    <3>3. SentTo(f, x)
      BY <2>3, <2>5 DEF SentTo, Reading
    <3> QED BY <3>1, <3>2, <3>3
  <2>7. PICK a \in {"available", "head"} :
           ClientAvailable(a, Idle) \/ ClientAvailable(a, [th EXCEPT !.pc = a, !.text = << >>])
    BY <1>9 DEF ConnectedAfterFin, ReadsRequest
  <2>8. \/ th' = Idle \/ th' = [th EXCEPT !.pc = a] \/ th' = [th EXCEPT !.pc = a, !.text = << >>]
        \/ th' = [th EXCEPT !.pc = a, !.text = m, !.remaining = k]
    BY <2>4, <2>7 DEF ClientAvailable
  <2>9. th' = Idle \/ (th'.pc = a /\ th'.found = th.found /\ th'.text \in {x, << >>, m})
    <3>1. CASE th' = [th EXCEPT !.pc = a]
      <4>1. ThreadHas(th', a, th.i, th.found, th.status, th.entry, th.remaining, th.text)
        BY <1>1, <2>5, <3>1, ThreadParts, Zenon
      <4> QED BY <2>5, <4>1, Zenon DEF ThreadHas
    <3>2. CASE th' = [th EXCEPT !.pc = a, !.text = << >>]
      <4>1. ThreadHas(th', a, th.i, th.found, th.status, th.entry, th.remaining, << >>)
        BY <1>1, <3>2, ThreadParts, Zenon
      <4> QED BY <4>1, Zenon DEF ThreadHas
    <3>3. CASE th' = [th EXCEPT !.pc = a, !.text = m, !.remaining = k]
      <4>1. ThreadHas(th', a, th.i, th.found, th.status, th.entry, k, m)
        BY <1>1, <3>3, ThreadParts, Zenon
      <4> QED BY <4>1, Zenon DEF ThreadHas
    <3> QED BY <2>8, <3>1, <3>2, <3>3
  <2>10. CASE th'.pc = a /\ th'.found = th.found /\ th'.text \in {x, << >>, m}
    <3>1. PICK t \in {x, << >>, m} : th'.text = t
      BY <2>10
    <3>2. SentTo(f, t)
      BY <2>6, <3>1
    <3>3. Serving' /\ th.pc # "listen" /\ slot[th.found].ptr = f
      BY <2>1, <2>3, <2>10 DEF Serving, Found
    <3> QED BY <1>4, <2>1, <2>2, <2>3, <2>10, <3>1, <3>2, <3>3
  <2> QED BY <1>7, <2>9, <2>10
<1>10. CASE WritesHead \/ WritesBody
  <2>1. PICK place, next : Write(place, next) /\ place \in {"head", "body"} /\ next \in {"body", "stop"}
    BY <1>10 DEF WritesHead, WritesBody
  <2>2. th.pc = place /\ th' = [th EXCEPT !.pc = next] /\ slot' = slot
    BY <2>1, Zenon DEF Write, slotVars
  <2>3. ThreadHas(th', next, th.i, th.found, th.status, th.entry, th.remaining, th.text)
    BY <1>1, <2>2, ThreadParts, Zenon
  <2>4. Serving /\ Found \in Socks /\ InUse(Found) /\ sock[Found].state # "SS_LISTENING"
    <3>1. Serving
      BY <2>1, <2>2 DEF Serving
    <3> QED BY <1>1, <3>1, FoundInUse DEF Reading
  <2>5. PICK f, t : f = Found /\ t = th.text
    OBVIOUS
  <2>6. SentTo(f, t)
    BY <2>5 DEF SentTo, Reading
  <2>7. Serving' /\ th'.text = t /\ th'.found = th.found /\ slot[th.found].ptr = f
        /\ th.pc # "listen"
    BY <2>1, <2>2, <2>3, <2>5 DEF ThreadHas, Serving, Found
  <2> QED BY <1>4, <2>2, <2>4, <2>5, <2>6, <2>7
<1>11. CASE NobodyThere \/ Stops
  BY <1>7, <1>11 DEF NobodyThere, Stops
<1>12. CASE Poll \/ UNCHANGED vars \/ \E c \in CLIENTS : Network(c) /\ UNCHANGED <<slotVars, th>>
  BY <1>5, <1>12 DEF Poll, vars
<1> QED BY <1>6, <1>8, <1>9, <1>10, <1>11, <1>12 DEF Next, ServiceStep

\* What available() drops after a FIN was connected one way only, and stays so.
LEMMA DroppingStays ==
    ASSUME TInv, Dropping, [Next]_vars
    PROVE  Dropping'
<1>1. CInv /\ Plain /\ Links /\ IsThread(th) /\ Still
  BY StepStill DEF TInv, CInv, IInv, Links, Uses
<1>2. CASE ScanReadsStatus
  <2>1. PICK status : status = socketStatus(th.i)
    OBVIOUS
  <2>2. th' = [th EXCEPT !.pc = "act", !.status = status] /\ sock' = sock /\ slot' = slot
    BY <1>2, <2>1, Zenon DEF ScanReadsStatus, socketVars, slotVars
  <2>3. ThreadHas(th', "act", th.i, th.found, status, th.entry, th.remaining, th.text)
    BY <1>1, <2>2, ThreadParts, Zenon
  <2>4. status = "CLOSE_WAIT" => sock[slot[th.i].ptr].state # "SS_CONNECTED"
    BY <2>1 DEF socketStatus
  <2> QED BY <2>2, <2>3, <2>4 DEF ThreadHas, Dropping
<1>3. CASE (ServerStep \/ ServiceStep) /\ ~ScanReadsStatus
  BY <1>1, <1>3, GoesTo DEF ServerStep, ServiceStep, Dropping
<1>4. CASE Poll \/ UNCHANGED vars \/ \E c \in CLIENTS : Network(c) /\ UNCHANGED <<slotVars, th>>
  <2>1. th' = th
    BY <1>4 DEF Poll, vars
  <2>2. ASSUME th.pc = "act", th.status = "CLOSE_WAIT"
        PROVE  sock'[slot'[th.i].ptr].state # "SS_CONNECTED"
    <3>1. th.i \in Slots /\ slot[th.i].ptr \in Socks /\ InUse(slot[th.i].ptr) /\ ~Listens(th.i)
      BY <1>1, <2>2 DEF CInv, IInv, Uses, OneListens, SlotRecords, Owners
    <3>2. slot'[th.i] = slot[th.i]
      <4>1. CASE Poll
        <5>1. PICK i \in Slots :
                /\ socketStatus(i) = "LISTEN"
                /\ slot' = slot \/ \E q : slot' = [slot EXCEPT ![i].ptr = q]
          BY <4>1 DEF Poll
        <5>2. Listens(i)
          BY <5>1, StatusSays
        <5> QED BY <1>1, <3>1, <5>1, <5>2 DEF Links, SlotRecords
      <4>2. CASE ~Poll
        BY <1>4, <4>2 DEF vars, slotVars
      <4> QED BY <4>1, <4>2
    <3> QED BY <1>1, <2>2, <3>1, <3>2 DEF Dropping, Still
  <2> QED BY <2>1, <2>2 DEF Dropping
<1> QED BY <1>2, <1>3, <1>4 DEF Next

\* A client waits while nobody has accepted its connection; it came when somebody
\* has, or when there was no more to accept.
Waits(c) == \E s \in Socks : sock[s].peer = c /\ sock[s].head # 0
Came == {c \in CLIENTS : client[c].phase # "idle" /\ ~Waits(c)}

SomeListens == \E i \in Slots : Listens(i)
Registering == th.pc \in {"mark", "register"} \/ Refused

\* An entry of FNET's list is for the listening socket, or one that a client cost:
\* poll() accepted it before the server had the entry to take out.
Room ==
    Cardinality(services) + (IF ~SomeListens /\ Registering THEN 1 ELSE 0)
      <= Cardinality(Came) + (IF SomeListens /\ ~Registering THEN 1 ELSE 0)

\* The sets are finite, and clients that came never wait again.
LEMMA CameGrows ==
    ASSUME TInv, TInv', Still
    PROVE  /\ Came \subseteq Came'
           /\ IsFiniteSet(Came') /\ Cardinality(Came) \in Nat /\ Cardinality(Came') \in Nat
           /\ Cardinality(Came) <= Cardinality(Came') /\ Cardinality(Came) <= Cardinality(CLIENTS)
           /\ IsFiniteSet(services) /\ Cardinality(services) \in Nat
<1>1. Came \subseteq Came'
  <2> SUFFICES ASSUME NEW c \in Came PROVE c \in Came'
    OBVIOUS
  <2>1. c \in CLIENTS /\ client[c].phase # "idle" /\ ~Waits(c)
    BY DEF Came
  <2>2. client'[c].phase # "idle"
    BY <2>1 DEF Still
  <2>3. ASSUME NEW s \in Socks, sock'[s].peer = c, sock'[s].head # 0 PROVE FALSE
    <3>1. c # "nobody"
      BY <2>1, SocketConstants
    <3>2. sock'[s].peer = sock[s].peer /\ (sock'[s].head # 0 => sock[s].head # 0)
      BY <2>1, <2>3, <3>1 DEF Still
    <3> QED BY <2>1, <2>3, <3>2 DEF Waits
  <2> QED BY <2>1, <2>2, <2>3 DEF Came, Waits
<1>2. IsFiniteSet(CLIENTS) /\ Came \in SUBSET CLIENTS /\ Came' \in SUBSET CLIENTS
  BY SocketConstants DEF Came
<1>3. IsFiniteSet(Came) /\ IsFiniteSet(Came') /\ Cardinality(Came) <= Cardinality(CLIENTS)
  BY <1>2, FS_Subset
<1>4. Cardinality(Came) <= Cardinality(Came')
  BY <1>1, <1>3, FS_Subset
<1>5. ENTRIES \in Nat
  BY ServerConstants
<1>6. IsFiniteSet(Entries)
  BY <1>5, FS_Interval DEF Entries
<1>7. IsFiniteSet(services)
  BY <1>6, FS_Subset DEF TInv, Locals
<1> QED BY <1>1, <1>3, <1>4, <1>7, FS_CardinalityType

\* Who listens goes on listening, but for poll().
LEMMA ListenersStay ==
    ASSUME TInv, Reading, [Next]_vars, ~Poll, ~(BeginAssigns /\ Refused)
    PROVE  \A j \in Slots : Listens(j) => Listens(j)'
<1>1. CInv /\ Plain /\ Links /\ Connections /\ IInv /\ OneListens
  BY DEF TInv, CInv, IInv, Links
<1>2. CASE sock' = sock /\ slot' = slot
  BY <1>1, <1>2, StayKeeps
<1>3. CASE \/ UNCHANGED vars \/ ScanSkips \/ ScanReadsStatus \/ ActOnListening \/ ScanEnds
           \/ BeginRegisters \/ BeginAssigns \/ NobodyThere \/ Connected
  <2>1. sock' = sock /\ slot' = slot
    BY <1>3 DEF vars, ScanSkips, ScanReadsStatus, ActOnListening, ScanEnds, BeginRegisters,
       BeginAssigns, Refused, NobodyThere, Connected, socketVars, slotVars
  <2> QED BY <1>2, <2>1
<1>4. CASE ActOnClosed \/ BeginMarks
  <2>1. PICK b \in BOOLEAN : slot' = [slot EXCEPT ![th.i].port = b] /\ sock' = sock
    BY <1>4 DEF ActOnClosed, BeginMarks, socketVars
  <2>2. th.i \in Slots
    BY <1>1, <1>4 DEF ActOnClosed, BeginMarks, IInv, Uses
  <2> QED BY <1>1, <2>1, <2>2, PortKeeps
<1>5. CASE ActOnConnection
  <2>1. th.i \in Slots /\ slot[th.i].ptr # 0 /\ ~Listens(th.i)
    BY <1>1, <1>5 DEF ActOnConnection, IInv, Uses, OneListens
  <2>2. \/ sock' = sock /\ slot' = slot
        \/ Disconnect(th.i)
        \/ Recv(slot[th.i].ptr) /\ slot' = slot
    BY <1>5 DEF ActOnConnection, socketVars
  <2>3. CASE Disconnect(th.i)
    BY <1>1, <2>1, <2>3, DisconnectSmooth
  <2>4. CASE Recv(slot[th.i].ptr) /\ slot' = slot
    BY <1>1, <2>1, <2>4, RecvKeeps
  <2> QED BY <1>2, <2>2, <2>3, <2>4
<1>6. CASE socketBegin \/ BeginListens
  BY <1>1, <1>6 DEF socketBegin, BeginListens, OneListens
<1>7. CASE ConnectedAfterFin \/ ReadsRequest
  <2>1. th.found \in Slots /\ slot[th.found].ptr # 0
    BY <1>1, <1>7, StatusSays DEF ConnectedAfterFin, ReadsRequest, IInv, Uses
  <2>2. slot' = slot /\ (Recv(slot[th.found].ptr) \/ sock' = sock)
    BY <1>7 DEF ConnectedAfterFin, ReadsRequest, ClientAvailable, slotVars
  <2> QED BY <1>1, <1>2, <2>1, <2>2, RecvKeeps
<1>8. CASE WritesHead \/ WritesBody
  <2>1. th.pc \in {"head", "body"} /\ slot' = slot /\ \E what : Send(slot[th.found].ptr, what)
    BY <1>8 DEF WritesHead, WritesBody, Write, slotVars
  <2>2. th.found \in Slots /\ slot[th.found].ptr # 0
    BY <1>1, <2>1 DEF IInv, Uses
  <2> QED BY <1>1, <2>1, <2>2, SendKeeps
<1>9. CASE Stops
  <2>1. Serving /\ Disconnect(th.found)
    BY <1>9 DEF Stops, Serving
  <2>2. th.found \in Slots /\ slot[th.found].ptr # 0 /\ ~Listens(th.found)
    BY <1>1, <2>1, FoundInUse DEF Reading, Found, Listens
  <2> QED BY <1>1, <2>1, <2>2, DisconnectSmooth
<1>10. CASE \E c \in CLIENTS : Network(c) /\ UNCHANGED <<slotVars, th>>
  <2>1. PICK c \in CLIENTS : Network(c) /\ slot' = slot
    BY <1>10 DEF slotVars
  <2>2. ASSUME NEW j \in Slots, Listens(j)
        PROVE  /\ slot[j].ptr # 0 /\ slot[j].ptr \in Socks
               /\ sock[slot[j].ptr].state = "SS_LISTENING" /\ sock[slot[j].ptr].peer # c
    BY <1>1, <2>2, SocketConstants DEF Listens, Links, SlotRecords, SocketRecords
  <2>3. CASE Connect(c)
    <3>1. \A j \in Slots : slot[j].ptr # 0 => sock'[slot[j].ptr] = sock[slot[j].ptr]
      BY <1>1, <2>1, <2>3, ConnectSmooth
    <3> QED BY <2>1, <2>2, <3>1 DEF Listens
  <2>4. CASE SendPiece(c)
    <3>1. \A q \in Socks : sock'[q].state = sock[q].state
      BY <1>1, <2>4, SendPieceDoes DEF SocketIs
    <3> QED BY <2>1, <2>2, <3>1 DEF Listens
  <2>5. CASE HalfClose(c) \/ Reset(c)
    <3>1. PICK s \in SocketsOf(c) : \E r : sock' = [sock EXCEPT ![s] = r]
      BY <2>5 DEF HalfClose, Reset
    <3>2. \A q \in Socks : q # s => sock'[q] = sock[q]
      BY <1>1, <3>1 DEF Links, SocketRecords
    <3> QED BY <2>1, <2>2, <3>1, <3>2 DEF Listens, SocketsOf
  <2> QED BY <2>1, <2>3, <2>4, <2>5 DEF Network
<1> QED BY <1>3, <1>4, <1>5, <1>6, <1>7, <1>8, <1>9, <1>10 DEF Next, ServerStep, ServiceStep

\* A step that takes no entry and no listener away, nor a claim to one.
LEMMA RoomKept ==
    ASSUME TInv, TInv', Still, Room, services' = services,
           SomeListens => SomeListens', Registering' <=> Registering
    PROVE  Room'
BY CameGrows DEF Room

\* Somebody who waits is accepted: there is one more who came.
LEMMA OneMoreCame ==
    ASSUME TInv, TInv', Still, NEW i \in Slots, Listens(i), NEW q \in Incoming(slot[i].ptr),
           sock' = Accepted(slot[i].ptr, q), client' = client
    PROVE  Cardinality(Came) + 1 <= Cardinality(Came')
<1>1. Links /\ Connections /\ Plain /\ Connections'
  BY DEF TInv, CInv, IInv, Links
<1>2. PICK c : c = sock[q].peer
  OBVIOUS
<1>3. /\ q \in Socks /\ sock[q].head # 0 /\ sock[q].state \in {"SS_CONNECTED", "SS_CLOSING"}
      /\ c \in CLIENTS /\ client[c].phase = "open"
  <2>1. q \in Socks /\ InUse(q) /\ sock[q].head # 0
    BY <1>1, Numbered DEF Incoming, InUse, Listens, Links, SlotRecords
  <2>2. sock[q].state \in {"SS_CONNECTED", "SS_CLOSING"}
    BY <1>1, <2>1 DEF Connections
  <2> QED BY <1>1, <1>2, <2>1, <2>2 DEF Plain, Connections
<1>4. c \notin Came
  BY <1>2, <1>3 DEF Came, Waits
<1>5. c \in Came'
  <2>1. /\ \A p \in Socks : sock'[p].peer = sock[q].peer /\ p # q => sock[p].peer = sock[q].peer
        /\ sock'[q].head = 0
    BY <1>1, AcceptSmooth
  <2>2. \A p \in Socks : sock[p].peer = c => p = q
    BY <1>1, <1>2, <1>3, SocketConstants DEF Connections
  <2>3. \A p \in Socks : sock'[p].peer = c => p = q
    BY <1>2, <2>1, <2>2
  <2> QED BY <1>3, <2>1, <2>3 DEF Came, Waits
<1>6. Came \union {c} \in SUBSET Came' /\ IsFiniteSet(Came') /\ Cardinality(Came) \in Nat
  BY <1>5, CameGrows
<1>7. IsFiniteSet(Came)
  BY CameGrows, FS_Subset
<1>8. Cardinality(Came \union {c}) = Cardinality(Came) + 1
  BY <1>4, <1>7, FS_AddElement
<1>9. Cardinality(Came \union {c}) <= Cardinality(Came')
  BY <1>6, FS_Subset
<1> QED BY <1>8, <1>9

\* Every step keeps the count, those of a begin() that is refused as well.
LEMMA RoomStays ==
    ASSUME TInv, Reading, Room, [Next]_vars
    PROVE  Room'
<1>1. CInv /\ Plain /\ IInv /\ OneListens /\ IsThread(th) /\ Still /\ TInv'
  BY StepStill, StepTyped DEF TInv, CInv, IInv, Uses
<1>2. SomeListens => SomeListens' \/ Poll \/ (BeginAssigns /\ Refused)
  BY ListenersStay DEF SomeListens
<1>3. ENTRIES \in Nat
  BY ServerConstants
<1>4. CASE BeginListens
  <2>1. th.pc = "listen" /\ services' = services
    BY <1>4 DEF BeginListens, slotVars
  <2>2. th'.pc = "mark"
    BY <1>1, <1>4, GoesTo
  <2>3. ~SomeListens /\ ~Registering /\ Registering'
    BY <1>1, <2>1, <2>2 DEF SomeListens, Registering, Refused, OneListens
  <2>4. SomeListens'
    <3>1. Listen(slot[th.i].ptr) /\ client' = client /\ slot' = slot
          /\ th.i \in Slots /\ slot[th.i].ptr # 0 /\ sock[slot[th.i].ptr].peer = "nobody"
      BY <1>1, <1>4, <2>1 DEF BeginListens, slotVars, IInv, Uses
    <3>2. sock'[slot[th.i].ptr].state = "SS_LISTENING"
      BY <1>1, <2>1, <3>1, ListenSmooth DEF IInv, Links
    <3> QED BY <3>1, <3>2 DEF SomeListens, Listens
  <2> QED BY <1>1, <2>1, <2>2, <2>3, <2>4, CameGrows DEF Room
<1>5. CASE BeginRegisters
  <2>1. th.pc = "register" /\ th'.pc = "assign" /\ sock' = sock /\ slot' = slot
    BY <1>1, <1>5, GoesTo DEF BeginRegisters, socketVars
  <2>2. Registering /\ (SomeListens' <=> SomeListens)
    BY <2>1 DEF Registering, SomeListens, Listens
  <2>3. CASE FreeEntries = {}
    <3>1. services' = services /\ th' = [th EXCEPT !.pc = "assign", !.entry = 0]
      BY <1>5, <2>3 DEF BeginRegisters
    <3>2. ThreadHas(th', "assign", th.i, th.found, th.status, 0, th.remaining, th.text)
      BY <1>1, <3>1, ThreadParts, Zenon
    <3>3. Registering'
      BY <2>1, <3>2 DEF Registering, Refused, ThreadHas
    <3> QED BY <1>1, <2>2, <3>1, <3>3, RoomKept
  <2>4. CASE FreeEntries # {}
    <3>1. PICK e \in FreeEntries :
            services' = services \union {e} /\ th' = [th EXCEPT !.pc = "assign", !.entry = e]
      BY <1>5, <2>4 DEF BeginRegisters
    <3>2. e \in Entries /\ e # 0 /\ e \notin services
      BY <3>1, <1>3 DEF FreeEntries, Entries
    <3>3. Cardinality(services') = Cardinality(services) + 1
      BY <1>1, <3>1, <3>2, CameGrows, FS_AddElement, Zenon
    <3>4. ThreadHas(th', "assign", th.i, th.found, th.status, e, th.remaining, th.text)
      BY <1>1, <3>1, ThreadParts, Zenon
    <3>5. ~Registering'
      BY <2>1, <3>2, <3>4 DEF Registering, Refused, ThreadHas
    <3> QED BY <1>1, <2>2, <3>3, <3>5, CameGrows DEF Room
  <2> QED BY <2>3, <2>4
<1>6. CASE Poll
  <2>1. PICK i \in Slots :
          /\ socketStatus(i) = "LISTEN"
          /\ \/ sock' = sock /\ slot' = slot /\ services' = services
             \/ \E q \in Incoming(slot[i].ptr) : sock' = Accepted(slot[i].ptr, q)
    BY <1>6 DEF Poll
  <2>2. client' = client /\ th' = th /\ services' \subseteq services
    BY <1>6 DEF Poll, Unregistered
  <2>3. Listens(i)
    BY <2>1, StatusSays
  <2>4. Registering' <=> Registering
    BY <2>2 DEF Registering, Refused
  <2>5. CASE sock' = sock /\ slot' = slot /\ services' = services
    <3>1. SomeListens => SomeListens'
      BY <2>5 DEF SomeListens, Listens
    <3> QED BY <1>1, <2>4, <2>5, <3>1, RoomKept
  <2>6. CASE \E q \in Incoming(slot[i].ptr) : sock' = Accepted(slot[i].ptr, q)
    <3>1. Cardinality(Came) + 1 <= Cardinality(Came')
      BY <1>1, <2>2, <2>3, <2>6, OneMoreCame
    <3>2. SomeListens
      BY <2>3 DEF SomeListens
    <3>3. Cardinality(services') <= Cardinality(services) /\ Cardinality(services') \in Nat
      BY <1>1, <2>2, CameGrows, FS_Subset, FS_CardinalityType
    <3> QED BY <1>1, <2>4, <3>1, <3>2, <3>3, CameGrows DEF Room
  <2> QED BY <2>1, <2>5, <2>6
<1>7. CASE BeginAssigns /\ Refused
  <2>1. Registering /\ services' = services
    BY <1>7 DEF BeginAssigns, Registering
  <2>2. th'.pc = "connected"
    BY <1>1, <1>7, GoesTo
  <2>3. ~Registering'
    BY <2>2 DEF Registering, Refused
  <2> QED BY <1>1, <2>1, <2>3, CameGrows DEF Room
<1>8. CASE ~BeginListens /\ ~BeginRegisters /\ ~Poll /\ ~(BeginAssigns /\ Refused)
  <2>1. services' = services /\ (SomeListens => SomeListens')
    <3>1. services' = services
      BY <1>8 DEF Next, ServerStep, ServiceStep, ScanSkips, ScanReadsStatus, ActOnConnection,
         ActOnListening, ActOnClosed, ScanEnds, socketBegin, BeginMarks, BeginAssigns,
         NobodyThere, ConnectedAfterFin, Connected, ReadsRequest, WritesHead, WritesBody, Write,
         Stops, vars, slotVars
    <3> QED BY <1>2, <1>8, <3>1
  <2>2. Registering' <=> Registering
    <3>1. CASE BeginMarks
      <4>1. th.pc = "mark" /\ th'.pc = "register"
        BY <1>1, <3>1, GoesTo DEF BeginMarks
      <4> QED BY <4>1 DEF Registering
    <3>2. CASE (ServerStep \/ ServiceStep) /\ ~BeginMarks
      <4>1. th.pc \notin {"mark", "register"} /\ ~Refused
        BY <1>8, <3>2 DEF ServerStep, ServiceStep, ScanSkips, ScanReadsStatus, ActOnConnection,
           ActOnListening, ActOnClosed, ScanEnds, socketBegin, BeginAssigns, NobodyThere,
           ConnectedAfterFin, Connected, ReadsRequest, WritesHead, WritesBody, Write, Stops, Refused
      <4>2. th'.pc \notin {"mark", "register", "assign"}
        BY <1>1, <1>8, <3>2, GoesTo DEF ServerStep, ServiceStep
      <4> QED BY <4>1, <4>2 DEF Registering, Refused
    <3>3. CASE th' = th
      BY <3>3 DEF Registering, Refused
    <3>4. BeginMarks \/ ((ServerStep \/ ServiceStep) /\ ~BeginMarks) \/ th' = th
      BY <1>8 DEF Next, vars
    <3> QED BY <3>1, <3>2, <3>3, <3>4
  <2> QED BY <1>1, <2>1, <2>2, RoomKept
<1> QED BY <1>4, <1>5, <1>6, <1>7, <1>8

-----------------------------------------------------------------------------
AInv == TInv /\ Reading /\ Answers /\ Dropping

\* Whoever got a goodbye got a whole answer.
Goodbyes == \A c \in CLIENTS : client[c].phase = "closed" => Len(client[c].got) = 2

\* At the start nobody has got anything, and nobody came.
LEMMA InitiallyAnswered == Init => AInv /\ Goodbyes /\ Room
<1> SUFFICES ASSUME Init PROVE AInv /\ Goodbyes /\ Room
  OBVIOUS
<1>1. TInv
  BY InitiallyTyped
<1>2. /\ sock = [s \in Socks |-> Unused] /\ services = {}
      /\ client = [c \in CLIENTS |-> [phase |-> "idle", sent |-> 0, fin |-> FALSE, got |-> << >>]]
  BY DEF Init, ServerInit, SocketInit, NewClient
<1>3. th = [pc |-> "socketBegin", i |-> 1, status |-> "CLOSED", listening |-> FALSE,
            found |-> 0, entry |-> 0, remaining |-> 0, text |-> << >>]
  BY DEF Init, Idle
<1>4. Unused.peer = "nobody"
  BY DEF Unused
<1>5. \A c \in CLIENTS : client[c].phase = "idle" /\ client[c].got = << >>
  BY <1>2
<1>6. \A c \in CLIENTS : AnsweredOnce(c)
  BY <1>5 DEF AnsweredOnce
<1>7. Reading /\ Answers /\ Dropping /\ Goodbyes
  BY <1>2, <1>3, <1>4, <1>5, <1>6 DEF Reading, Serving, Answers, Dropping, Goodbyes
<1>8. Room
  <2>1. Came = {} /\ ~Registering
    BY <1>3, <1>5 DEF Came, Registering, Refused
  <2>2. Cardinality(services) = 0 /\ Cardinality(Came) = 0
    BY <1>2, <2>1, FS_EmptySet
  <2> QED BY <2>1, <2>2 DEF Room
<1> QED BY <1>1, <1>7, <1>8 DEF AInv

\* Parts of an answer are beginnings of it.
LEMMA PartsAreBeginnings ==
    ASSUME NEW code, NEW got \in {<< >>, HeadOf(code), AllOf(code)}
    PROVE  /\ IsPrefix(got, << <<code, "head">>, <<code, "body">> >>)
           /\ got = AllOf(code) => Len(got) = 2
<1>1. PICK h, b : h = <<code, "head">> /\ b = <<code, "body">>
  OBVIOUS
<1>2. PICK S : S = {h, b}
  OBVIOUS
<1>3. PICK one, all : one = <<h>> /\ all = <<h, b>>
  OBVIOUS
<1>4. got \in {<< >>, one, all} /\ HeadOf(code) = one /\ AllOf(code) = all
  BY <1>1, <1>3 DEF HeadOf, AllOf
<1>5. /\ one \in Seq(S) /\ Len(one) = 1 /\ one[1] = h
      /\ all \in Seq(S) /\ Len(all) = 2 /\ all[1] = h /\ all[2] = b
  BY <1>2, <1>3
<1>6. Len(got) <= Len(all) /\ Len(got) \in 0..2
  <2>1. CASE got = << >>
    <3>1. Len(<< >>) = 0
      OBVIOUS
    <3> QED BY <1>5, <2>1, <3>1
  <2>2. CASE got \in {one, all}
    BY <1>5, <2>2
  <2> QED BY <1>4, <2>1, <2>2
<1>7. SubSeq(got, 1, Len(got)) = SubSeq(all, 1, Len(got))
  <2>1. CASE got = all
    BY <2>1
  <2>2. CASE got = one
    <3>1. SubSeq(one, 1, 1) \in Seq(S) /\ SubSeq(all, 1, 1) \in Seq(S)
          /\ Len(SubSeq(one, 1, 1)) = 1 /\ Len(SubSeq(all, 1, 1)) = 1
          /\ SubSeq(one, 1, 1)[1] = h /\ SubSeq(all, 1, 1)[1] = h
      BY <1>5
    <3>2. PICK u \in Seq(S), v \in Seq(S) :
            u = SubSeq(one, 1, 1) /\ v = SubSeq(all, 1, 1)
            /\ Len(u) = 1 /\ Len(v) = 1 /\ u[1] = h /\ v[1] = h
      BY <3>1
    <3>3. u = v
      BY <3>2, SeqEqual
    <3> QED BY <1>5, <2>2, <3>2, <3>3
  <2>3. CASE got = << >>
    <3>1. SubSeq(<< >>, 1, 0) = << >> /\ SubSeq(all, 1, 0) = << >> /\ Len(<< >>) = 0
      BY <1>5
    <3> QED BY <2>3, <3>1
  <2> QED BY <1>4, <2>1, <2>2, <2>3
<1> QED BY <1>1, <1>3, <1>4, <1>5, <1>6, <1>7 DEF IsPrefix

\* Only a client that goes on being connected gets anything.
LEMMA OthersGetNothing ==
    ASSUME AInv, [Next]_vars, NEW c \in CLIENTS, client'[c].phase = "closed"
    PROVE  client'[c].got = client[c].got
<1>1. TInv /\ CInv /\ Plain /\ Links /\ Connections /\ Dropping /\ Reading
  BY DEF AInv, TInv, CInv, IInv, Links
<1>2. CASE ~Working
  BY <1>1, <1>2, QuietSteps DEF Unheard
<1>3. CASE WritesHead \/ WritesBody
  <2>1. PICK what : Serving /\ Send(Found, what)
    BY <1>3 DEF WritesHead, WritesBody, Write, Serving, Found
  <2>2. th.found \in Slots /\ slot[th.found].ptr # 0 /\ Found \in Socks
    BY <1>1, <2>1, FoundInUse
  <2>3. CASE sock[Found].state # "SS_CONNECTED"
    BY <1>1, <2>1, <2>2, <2>3, SendSmooth DEF Found, Quiet
  <2>4. CASE sock[Found].state = "SS_CONNECTED"
    <3>1. client[sock[Found].peer].phase = "open"
      BY <1>1, <2>2, <2>4 DEF Plain, Connections
    <3> QED BY <1>1, <2>1, <2>2, <2>4, <3>1, SendSmooth DEF Found
  <2> QED BY <2>3, <2>4
<1>4. CASE Stops
  <2>1. Serving /\ Disconnect(th.found)
    BY <1>4 DEF Stops, Serving
  <2>2. th.found \in Slots /\ slot[th.found].ptr # 0
    BY <1>1, <2>1, FoundInUse
  <2> QED BY <1>1, <2>1, <2>2, DisconnectSmooth
<1> QED BY <1>2, <1>3, <1>4 DEF Working

\* A goodbye comes after the whole answer, or from a begin() that is refused.
LEMMA GoodbyeComesLast ==
    ASSUME AInv, [Next]_vars, NEW c \in CLIENTS,
           client[c].phase # "closed", client'[c].phase = "closed"
    PROVE  Len(client[c].got) = 2 \/ Refused
<1>1. TInv /\ CInv /\ Plain /\ Links /\ Connections /\ Dropping /\ Reading /\ Answers
  BY DEF AInv, TInv, CInv, IInv, Links
<1>2. CASE ~Working
  BY <1>1, <1>2, QuietSteps DEF Quiet
<1>3. CASE WritesHead \/ WritesBody
  <2>1. PICK what : Serving /\ Send(Found, what)
    BY <1>3 DEF WritesHead, WritesBody, Write, Serving, Found
  <2>2. th.found \in Slots /\ slot[th.found].ptr # 0 /\ Found \in Socks
    BY <1>1, <2>1, FoundInUse
  <2>3. CASE sock[Found].state # "SS_CONNECTED"
    BY <1>1, <2>1, <2>2, <2>3, SendSmooth DEF Found, Quiet
  <2>4. CASE sock[Found].state = "SS_CONNECTED"
    BY <1>1, <2>1, <2>2, <2>4, SendSmooth DEF Found
  <2> QED BY <2>3, <2>4
<1>4. CASE Stops
  <2>1. th.pc = "stop" /\ Serving /\ Disconnect(th.found)
    BY <1>4 DEF Stops, Serving
  <2>2. th.found \in Slots /\ slot[th.found].ptr # 0
    BY <1>1, <2>1, FoundInUse
  <2>3. ~Listens(th.found)
    BY <1>1, <2>1 DEF Reading, Listens, Found
  <2>4. /\ sock[Found].state # "SS_CONNECTED" => Quiet
        /\ \A d \in CLIENTS : d # sock[Found].peer => client'[d] = client[d]
    BY <1>1, <2>1, <2>2, <2>3, DisconnectSmooth DEF Found
  <2>5. c = sock[Found].peer /\ sock[Found].state = "SS_CONNECTED"
    BY <2>4 DEF Quiet
  <2>6. PICK code : code = StatusFor(th.text)
    OBVIOUS
  <2>7. client[c].got = AllOf(code)
    BY <1>1, <2>1, <2>5, <2>6 DEF Answers
  <2> QED BY <2>7, PartsAreBeginnings
<1> QED BY <1>2, <1>3, <1>4 DEF Working

\* With room in FNET's list every goodbye stays one after a whole answer.
LEMMA GoodbyesStay ==
    ASSUME AInv, Goodbyes, ~Refused, [Next]_vars
    PROVE  Goodbyes'
<1> SUFFICES ASSUME NEW c \in CLIENTS, client'[c].phase = "closed"
             PROVE  Len(client'[c].got) = 2
  BY DEF Goodbyes
<1>1. client'[c].got = client[c].got
  BY OthersGetNothing
<1>2. Len(client[c].got) = 2
  BY GoodbyeComesLast DEF Goodbyes
<1> QED BY <1>1, <1>2

\* The answers as the runs check them.
LEMMA AnsweredInOrder == AInv => AnswersInOrder
<1> SUFFICES ASSUME AInv, NEW c \in CLIENTS
             PROVE  \E code \in {AnswerOf(c), 500} :
                      /\ IsPrefix(client[c].got, << <<code, "head">>, <<code, "body">> >>)
                      /\ code # 500 /\ client[c].got # << >> => client[c].sent = PIECES
  BY DEF AnswersInOrder
<1>1. PICK code \in {AnswerOf(c), 500} :
        /\ client[c].got \in {<< >>, HeadOf(code), AllOf(code)}
        /\ code # 500 /\ client[c].got # << >> => client[c].sent = PIECES
  BY DEF AInv, Answers, AnsweredOnce
<1>2. IsPrefix(client[c].got, << <<code, "head">>, <<code, "body">> >>)
  BY <1>1, PartsAreBeginnings
<1> QED BY <1>1, <1>2

\* What is left for the temporal theorems.
LEMMA AnsweringStays == AInv /\ [Next]_vars => AInv'
BY StepTyped, ReadingStays, AnswersStay, DroppingStays DEF AInv

\* However many connect, and wherever poll() comes in: each client gets one answer at
\* most, in order, the one for what it sent or the one for what could not be parsed, and
\* the server's goodbye comes after all of it, or out of a begin() that is refused.
THEOREM EveryAnswerIsOne == Spec => OneAnswer
<1>1. Init => AInv
  BY InitiallyAnswered
<1>2. AInv /\ [Next]_vars => AInv'
  BY AnsweringStays
<1>3. AInv /\ [Next]_vars =>
        [\A c \in CLIENTS : client[c].phase # "closed" /\ client'[c].phase = "closed"
           => Len(client[c].got) = 2 \/ Refused]_vars
  BY GoodbyeComesLast
<1>4. AInv => AnswersInOrder
  BY AnsweredInOrder
<1> QED BY <1>1, <1>2, <1>3, <1>4, PTL DEF Spec, OneAnswer, GoodbyeIsWhole

\* As long as begin() finds an entry in FNET's list whenever it registers the poll,
\* nobody hears the goodbye without a whole answer.
THEOREM WholeWhileRegistered == Spec /\ []~Refused => []Goodbyes
<1>1. Init => AInv /\ Goodbyes
  BY InitiallyAnswered
<1>2. AInv /\ Goodbyes /\ ~Refused /\ [Next]_vars => AInv' /\ Goodbyes'
  BY AnsweringStays, GoodbyesStay
<1> QED BY <1>1, <1>2, PTL DEF Spec

\* There are never more entries in FNET's list than clients have connected, and the one
\* that begin() registers.
EntriesLostToConnections ==
    Cardinality(services) <= Cardinality({c \in CLIENTS : client[c].phase # "idle"}) + 1

\* Each client costs FNET's list an entry at most, whatever it does and whenever
\* poll() accepts it, before and after the list has run full.
THEOREM ConnectionsCostTheEntries == Spec => []EntriesLostToConnections
<1>1. Init => AInv /\ Room
  BY InitiallyAnswered
<1>2. AInv /\ Room /\ [Next]_vars => AInv' /\ Room'
  <2> SUFFICES ASSUME AInv, Room, [Next]_vars PROVE AInv' /\ Room'
    OBVIOUS
  <2> QED BY AnsweringStays, RoomStays DEF AInv
<1>3. AInv /\ Room => EntriesLostToConnections
  <2> SUFFICES ASSUME AInv, Room PROVE EntriesLostToConnections
    OBVIOUS
  <2> DEFINE connected == {c \in CLIENTS : client[c].phase # "idle"}
  <2>1. IsFiniteSet(connected) /\ Came \subseteq connected
    BY SocketConstants, FS_Subset DEF Came
  <2>2. IsFiniteSet(Came) /\ Cardinality(Came) <= Cardinality(connected)
    BY <2>1, FS_Subset
  <2>3. IsFiniteSet(services)
    <3>1. ENTRIES \in Nat /\ services \subseteq Entries
      BY ServerConstants DEF AInv, TInv, Locals
    <3>2. IsFiniteSet(Entries)
      BY <3>1, FS_Interval DEF Entries
    <3> QED BY <3>1, <3>2, FS_Subset
  <2>4. /\ Cardinality(Came) \in Nat /\ Cardinality(connected) \in Nat
        /\ Cardinality(services) \in Nat
    BY <2>1, <2>2, <2>3, FS_CardinalityType
  <2>5. Cardinality(services) <= Cardinality(Came) + 1
    BY <2>4 DEF Room
  <2> QED BY <2>2, <2>4, <2>5 DEF EntriesLostToConnections
<1> QED BY <1>1, <1>2, <1>3, PTL DEF Spec

=============================================================================
