---------------------------- MODULE EthernetServer ----------------------------
(***************************************************************************)
(* EthernetServer and the socket slots of EthernetClass: the thread that   *)
(* calls begin() and available(), and poll(), which the timer's interrupt  *)
(* runs through FNET's list of services and which accepts the connections. *)
(* FNET's mutexes are empty on this system, and nothing but the socket     *)
(* calls themselves keeps the interrupt out.                               *)
(***************************************************************************)
EXTENDS FnetSocket

CONSTANTS
    SLOTS,      \* socket_num, 8 in the firmware
    ENTRIES     \* entries of FNET's list of services the server may use

ASSUME ServerConstants ==
    /\ SLOTS \in Nat \ {0} /\ ENTRIES \in Nat \ {0}
    /\ SOCKETS >= SLOTS + 1     \* 12 and 8 in the firmware

VARIABLES
    slot,               \* socket_ptr (0: null) and whether server_port is the server's
    services,           \* entries of FNET's list that run poll()
    service_descriptor, \* the entry the server remembers, 0: none
    th                  \* the thread: its place and the locals of the calls it is in

slotVars == <<slot, services, service_descriptor>>

Slots == 1..SLOTS
Entries == 1..ENTRIES

\* Places of the thread in available() and begin().
ServerPlaces == {"scan", "act", "socketBegin", "listen", "mark", "register", "assign"}

\* socket_ptr and server_port come from new[]: the ports are not initialised.
ServerInit ==
    /\ SocketInit
    /\ slot \in [Slots -> [ptr : {0}, port : BOOLEAN]]
    /\ services = {}
    /\ service_descriptor = 0

ServerTypeOK ==
    /\ SocketTypeOK
    /\ slot \in [Slots -> [ptr : Socks \union {0}, port : BOOLEAN]]
    /\ services \subseteq Entries
    /\ service_descriptor \in Entries \union {0}

\* Slip: a connection whose other end has sent its FIN counts as closed.
socketStatus_ClosingClosed(i) ==
    IF slot[i].ptr = 0 THEN "CLOSED"
    ELSE LET state == sock[slot[i].ptr].state
         IN  CASE state = "SS_LISTENING" -> "LISTEN"
               [] state = "SS_CONNECTED" -> "ESTABLISHED"
               [] OTHER                  -> "CLOSED"

socketStatus(i) ==
    IF slot[i].ptr = 0 THEN "CLOSED"
    ELSE LET state == sock[slot[i].ptr].state
         IN  CASE state = "SS_LISTENING" -> "LISTEN"
               [] state = "SS_CONNECTED" -> "ESTABLISHED"
               [] state = "SS_CLOSING"   -> "CLOSE_WAIT"
               [] OTHER                  -> "CLOSED"

\* Slip: the pointer to the closed socket stays.
Disconnect_KeepsPointer(i) == Close(slot[i].ptr) /\ UNCHANGED slot

\* socketDisconnect is socketClose: until the pointer is null an interrupt only
\* finds no socket behind it.
Disconnect(i) ==
    /\ Close(slot[i].ptr)
    /\ slot' = [slot EXCEPT ![i].ptr = 0]

-----------------------------------------------------------------------------
(***************************************************************************)
(* available(): for each slot of the server its status, and then what the  *)
(* status asks for, with the interrupts in between.  A slot found later    *)
(* replaces one found earlier.                                             *)
(***************************************************************************)

NextSlot(found, listening) ==
    th' = [th EXCEPT !.pc = "scan", !.i = @ + 1, !.found = found, !.listening = listening]

ScanSkips ==
    /\ th.pc = "scan" /\ th.i <= SLOTS
    /\ ~slot[th.i].port
    /\ NextSlot(th.found, th.listening)
    /\ UNCHANGED <<socketVars, slotVars>>

ScanReadsStatus ==
    /\ th.pc = "scan" /\ th.i <= SLOTS
    /\ slot[th.i].port
    /\ th' = [th EXCEPT !.pc = "act", !.status = socketStatus(th.i)]
    /\ UNCHANGED <<socketVars, slotVars>>

\* Slip: a connection without data is always dropped.
ActOnConnection_DropsIdle ==
    /\ th.pc = "act" /\ th.status \in {"ESTABLISHED", "CLOSE_WAIT"}
    /\ IF sock[slot[th.i].ptr].received # << >>
       THEN NextSlot(th.i, th.listening) /\ UNCHANGED <<sock, client, slot>>
       ELSE NextSlot(th.found, th.listening) /\ Disconnect(th.i)
    /\ UNCHANGED <<error, services, service_descriptor>>

\* A connection without data is dropped once the client has sent its FIN.
ActOnConnection ==
    /\ th.pc = "act" /\ th.status \in {"ESTABLISHED", "CLOSE_WAIT"}
    /\ LET s == slot[th.i].ptr IN
        IF sock[s].received # << >>
        THEN NextSlot(th.i, th.listening) /\ UNCHANGED <<socketVars, slot>>
        ELSE /\ NextSlot(th.found, th.listening)
             /\ error' = ErrorAfterRecv(s)
             /\ IF th.status = "CLOSE_WAIT" THEN Disconnect(th.i)
                ELSE Recv(s) /\ UNCHANGED <<client, slot>>
    /\ UNCHANGED <<services, service_descriptor>>

ActOnListening ==
    /\ th.pc = "act" /\ th.status = "LISTEN"
    /\ NextSlot(th.found, TRUE)
    /\ UNCHANGED <<socketVars, slotVars>>

ActOnClosed ==
    /\ th.pc = "act" /\ th.status = "CLOSED"
    /\ slot' = [slot EXCEPT ![th.i].port = FALSE]
    /\ NextSlot(th.found, th.listening)
    /\ UNCHANGED <<socketVars, services, service_descriptor>>

ScanEnds ==
    /\ th.pc = "scan" /\ th.i > SLOTS
    /\ th' = [th EXCEPT !.pc = IF th.listening THEN "connected" ELSE "socketBegin"]
    /\ UNCHANGED <<socketVars, slotVars>>

-----------------------------------------------------------------------------
(***************************************************************************)
(* begin(): a slot, a listening socket, and the poll that accepts for it.  *)
(***************************************************************************)

NullSlots == {i \in Slots : slot[i].ptr = 0}

\* Slip: the index the loop ends with.
FirstNull_PastEnd == SLOTS + 1

FirstNull == CHOOSE i \in NullSlots : \A j \in NullSlots : i <= j

\* Without a slot whose pointer is null begin() does nothing.
socketBegin ==
    /\ th.pc = "socketBegin"
    /\ IF NullSlots = {}
       THEN th' = [th EXCEPT !.pc = "connected"] /\ UNCHANGED <<sock, slot>>
       ELSE /\ Create(NewSocket)
            /\ slot' = [slot EXCEPT ![FirstNull] = [ptr |-> NewSocket, port |-> FALSE]]
            /\ th' = [th EXCEPT !.pc = "listen", !.i = FirstNull]
    /\ UNCHANGED <<client, error, services, service_descriptor>>

BeginListens ==
    /\ th.pc = "listen"
    /\ Listen(slot[th.i].ptr)
    /\ th' = [th EXCEPT !.pc = "mark"]
    /\ UNCHANGED <<client, error, slotVars>>

BeginMarks ==
    /\ th.pc = "mark"
    /\ slot' = [slot EXCEPT ![th.i].port = TRUE]
    /\ th' = [th EXCEPT !.pc = "register"]
    /\ UNCHANGED <<socketVars, services, service_descriptor>>

FreeEntries == Entries \ services

\* Slip: an entry the server remembers is taken to be in the list still.
BeginRegisters_Once ==
    /\ th.pc = "register"
    /\ IF service_descriptor # 0
       THEN th' = [th EXCEPT !.pc = "assign", !.entry = service_descriptor] /\ UNCHANGED services
       ELSE /\ th' = [th EXCEPT !.pc = "assign", !.entry = 1]
            /\ services' = services \union {1}
    /\ UNCHANGED <<socketVars, slot, service_descriptor>>

\* fnet_service_register: the interrupt sees the entry before the server has it.
BeginRegisters ==
    /\ th.pc = "register"
    /\ IF FreeEntries = {}
       THEN th' = [th EXCEPT !.pc = "assign", !.entry = 0] /\ UNCHANGED services
       ELSE \E e \in FreeEntries :
             /\ \A f \in FreeEntries : e <= f
             /\ services' = services \union {e}
             /\ th' = [th EXCEPT !.pc = "assign", !.entry = e]
    /\ UNCHANGED <<socketVars, slot, service_descriptor>>

BeginAssigns ==
    /\ th.pc = "assign"
    /\ service_descriptor' = th.entry
    /\ IF th.entry = 0 THEN Disconnect(th.i) ELSE UNCHANGED <<sock, client, slot>>
    /\ th' = [th EXCEPT !.pc = "connected"]
    /\ UNCHANGED <<error, services>>

-----------------------------------------------------------------------------
(***************************************************************************)
(* poll(): a connection that waits at the listening socket takes its place *)
(* in the slot, and the poll is over until the server listens again.       *)
(***************************************************************************)

\* Slip: poll() leaves the listening socket open.
Accepted_KeepsListener(l, q) == [sock EXCEPT ![q].head = 0]

\* The sockets after an accept: the listening one is closed.
Accepted(l, q) == [sock EXCEPT ![q].head = 0, ![l] = Unused]

Unregistered == services \ {service_descriptor}

Poll ==
    /\ services # {}
    /\ \E i \in Slots :
        /\ slot[i].port /\ socketStatus(i) = "LISTEN"
        /\ IF Incoming(slot[i].ptr) = {}
           THEN error' = "AGAIN" /\ UNCHANGED <<sock, slot, services>>
           ELSE \E q \in Incoming(slot[i].ptr) :
                 /\ sock' = Accepted(slot[i].ptr, q)
                 /\ slot' = [slot EXCEPT ![i].ptr = q]
                 /\ services' = Unregistered
                 /\ UNCHANGED error
    /\ UNCHANGED <<client, service_descriptor, th>>

ServerStep ==
    \/ ScanSkips \/ ScanReadsStatus \/ ActOnConnection \/ ActOnListening \/ ActOnClosed
    \/ ScanEnds \/ socketBegin \/ BeginListens \/ BeginMarks \/ BeginRegisters \/ BeginAssigns

=============================================================================
