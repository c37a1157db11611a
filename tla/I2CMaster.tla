------------------------------- MODULE I2CMaster -------------------------------
(***************************************************************************)
(* IMX_RT1060_I2CMaster: the driver's transaction state machine, which its *)
(* interrupt routine and its callers both write, and the LPI2C port it     *)
(* drives.  The port and the devices on the bus are hardware; they are     *)
(* modelled from the commands and flags the driver uses and may do what    *)
(* the driver has to expect of them, in any timing.  Transfers always end  *)
(* with a STOP, as all callers in the firmware ask for, and a read is one  *)
(* byte long.                                                              *)
(***************************************************************************)
EXTENDS Integers, Sequences

CONSTANTS
    Registers,  \* registers of the device on the bus; a byte sent or read is one
    FAULTS      \* what may go wrong: a subset of {"nak", "stick", "arbitration"}

ASSUME BusConstants ==
    /\ Registers # {} /\ Registers \subseteq Nat \ {0}
    /\ FAULTS \subseteq {"nak", "stick", "arbitration"}

VARIABLES
    drv,      \* the driver's members
    port,     \* the registers of the port
    bus,      \* what happens on the bus
    pointer,  \* register the device will send next
    healthy,  \* from now on nothing goes wrong on the bus
    acked,    \* history: acknowledges in the last transaction
    got       \* history: bytes the interrupt routine took for it

masterVars == <<drv, port, bus, pointer, healthy, acked, got>>

BusyStates == {"starting", "transferring", "stopping"}
FinishedStates == {"idle", "transfer_complete", "stopped"}
I2CErrors == {"ok", "address_nak", "data_nak", "arbitration_lost",
              "master_fifo_error", "master_pin_low_timeout",
              "master_not_ready", "master_fifos_not_empty"}

\* Zero is what Wire's receive buffer holds before the first read.
Bytes == Registers \union {0}

\* Commands of the transmit FIFO.
START(reading) == [cmd |-> "START", reading |-> reading]
BYTE(data)     == [cmd |-> "BYTE", data |-> data]
RECEIVE        == [cmd |-> "RECEIVE"]
STOP           == [cmd |-> "STOP"]
Commands == {RECEIVE, STOP} \union {START(r) : r \in BOOLEAN}
              \union {BYTE(d) : d \in Bytes}

Flags == {"NDF", "ALF", "FEF", "PLTF", "SDF"}
MaxTransfer == 2

MasterTypeOK ==
    /\ drv.state \in BusyStates \union FinishedStates
    /\ drv.error \in I2CErrors
    /\ drv.ignore_tdf \in BOOLEAN
    /\ drv.data \in Seq(Bytes) /\ drv.size \in 0..MaxTransfer
    /\ drv.next \in 0..drv.size
    /\ drv.read_buffer \in Bytes
    /\ port.fifo \in Seq(Commands) /\ Len(port.fifo) <= 4
    /\ port.msr \subseteq Flags
    /\ port.rx \in Seq(Bytes) /\ Len(port.rx) <= 1
    /\ port.tdie \in BOOLEAN
    /\ bus.phase \in {"free", "address", "owned", "closing", "stuck"}
    /\ bus.reading \in BOOLEAN
    /\ bus.bytes \in 0..MaxTransfer
    /\ pointer \in Bytes
    /\ healthy \in BOOLEAN
    /\ acked \in 0..(MaxTransfer + 1)
    /\ got \in 0..1

\* After begin(): the port is reset and nothing is on the bus.
MasterInit ==
    /\ drv = [state |-> "idle", error |-> "ok", ignore_tdf |-> FALSE,
              data |-> << >>, size |-> 0, next |-> 0, read_buffer |-> 0]
    /\ port = [fifo |-> << >>, msr |-> {}, rx |-> << >>, tdie |-> FALSE]
    /\ bus = [phase |-> "free", reading |-> FALSE, bytes |-> 0]
    /\ pointer \in Registers
    /\ healthy = FALSE
    /\ acked = 0
    /\ got = 0

finished == drv.state \in FinishedStates

get_bytes_transferred == drv.next

\* Slip: the count of the previous transfer is kept.
Initialise_NoReset(d, data, size) == [d EXCEPT !.data = data, !.size = size]

\* I2CBuffer::initialise; data is what the buffer holds.  The byte of a read
\* goes to read_buffer, the first byte of Wire's rxBuffer.
Initialise(d, data, size) == [d EXCEPT !.data = data, !.size = size, !.next = 0]

\* The routines below take and return the driver and the port together.
Both == [drv |-> drv, port |-> port]
Store(c) == drv' = c.drv /\ port' = c.port

\* The port is master of a busy bus (MBF).
BusBusy == bus.phase # "free"

-----------------------------------------------------------------------------
(***************************************************************************)
(* The callers' side                                                       *)
(***************************************************************************)

\* Both FIFOs are reset; a STOP is sent unless one was sent already.
abort_transaction_async(c) ==
    [c EXCEPT !.port.tdie = FALSE,
              !.port.rx = << >>,
              !.port.fifo = IF BusBusy /\ "SDF" \notin c.port.msr
                            THEN <<STOP>> ELSE << >>]

\* Slip: a driver that refuses a transaction stays busy.
Refused_Busy(c) == [abort_transaction_async(c) EXCEPT !.drv.error = "master_not_ready"]

\* start(), previous transaction not finished: the caller is refused, and the
\* driver is idle from now on.  The buffer keeps what it had.
Refused(c) ==
    [abort_transaction_async(c) EXCEPT !.drv.error = "master_not_ready",
                                       !.drv.state = "idle"]

\* start(), commands or bytes left over in the FIFOs.
NotEmpty(c, reading) ==
    abort_transaction_async(
        [c EXCEPT !.drv.ignore_tdf = reading,
                  !.drv.state = "starting",
                  !.drv.error = "master_fifos_not_empty"])

\* start(), the START on its way and all flags cleared.
Started(c, reading) ==
    [c EXCEPT !.drv.ignore_tdf = reading,
              !.drv.state = "starting",
              !.drv.error = "ok",
              !.port.msr = {},
              !.port.fifo = <<START(reading)>>]

Starts == finished /\ port.fifo = << >> /\ port.rx = << >>

\* start() returns false and so do write_async and read_async.
startFails(reading) ==
    /\ ~Starts
    /\ Store(IF finished THEN NotEmpty(Both, reading) ELSE Refused(Both))
    /\ acked' = 0 /\ got' = 0
    /\ UNCHANGED <<bus, pointer, healthy>>

startSucceeds(reading) ==
    /\ Starts
    /\ Store(Started(Both, reading))
    /\ acked' = 0 /\ got' = 0
    /\ UNCHANGED <<bus, pointer, healthy>>

\* The rest of write_async and read_async.  The interrupt routine may run, and
\* the thread may be preempted, between start() and these.
probeArmed ==
    /\ Store([Both EXCEPT !.drv.ignore_tdf = TRUE,
                          !.port.fifo = Append(@, STOP)])
    /\ UNCHANGED <<bus, pointer, healthy, acked, got>>

writeArmed(data) ==
    /\ Store([Both EXCEPT !.drv = Initialise(drv, data, Len(data)),
                          !.port.tdie = TRUE])
    /\ UNCHANGED <<bus, pointer, healthy, acked, got>>

\* Slip: the commands are queued and the buffer is left as it is.
readArmed_KeepsBuffer ==
    /\ Store([Both EXCEPT !.port.fifo = @ \o <<RECEIVE, STOP>>])
    /\ UNCHANGED <<bus, pointer, healthy, acked, got>>

readArmed ==
    /\ Store([Both EXCEPT !.drv = Initialise(drv, <<drv.read_buffer>>, 1),
                          !.port.fifo = @ \o <<RECEIVE, STOP>>])
    /\ UNCHANGED <<bus, pointer, healthy, acked, got>>

-----------------------------------------------------------------------------
(***************************************************************************)
(* The interrupt routine.  It reads the flags once and then handles the    *)
(* groups in this order; msr is that reading, c what is left to the next.  *)
(***************************************************************************)

ErrorFlags == {"NDF", "ALF", "FEF", "PLTF"}

\* The error that stays: the flags are handled in this order and each assigns,
\* but a FIFO error that follows from another one is ignored.
ErrorOf(c, msr) ==
    IF "PLTF" \in msr THEN "master_pin_low_timeout"
    ELSE IF "ALF" \in msr THEN "arbitration_lost"
    ELSE IF "NDF" \in msr
         THEN IF c.drv.state = "starting" THEN "address_nak" ELSE "data_nak"
    ELSE IF c.drv.error = "ok" THEN "master_fifo_error" ELSE c.drv.error

OnErrors(c, msr) ==
    LET e == [c EXCEPT !.drv.error = ErrorOf(c, msr), !.port.msr = @ \ ErrorFlags] IN
    IF msr \intersect ErrorFlags = {} THEN c
    ELSE IF c.drv.state = "stopping" THEN e
    ELSE [abort_transaction_async(e) EXCEPT !.drv.state = "stopping"]

OnStop(c, msr) ==
    IF "SDF" \in msr
    THEN [c EXCEPT !.port.tdie = FALSE, !.drv.state = "stopped",
                   !.port.msr = @ \ {"SDF"}]
    ELSE c

\* A byte has come in (RDF).  In a read the first one marks the transfer as
\* going; the byte is kept while it is going and dropped otherwise.  The queue
\* is empty, and reads as zero, when an error of the same entry has reset it.
OnByte(c) ==
    LET byte  == IF c.port.rx = << >> THEN 0 ELSE c.port.rx[1]
        fresh == c.drv.next = 0
        going == fresh \/ c.drv.state = "transferring"
        full  == c.drv.next = c.drv.size
        kept  == IF full THEN c
                 ELSE [c EXCEPT !.drv.read_buffer = byte,
                                !.drv.data = <<byte>>,
                                !.drv.next = @ + 1]
        taken == IF going
                 THEN [kept EXCEPT !.drv.error = IF fresh THEN "ok" ELSE @,
                                   !.drv.state = "transferring",
                                   !.port.rx = << >>]
                 ELSE [c EXCEPT !.port.rx = << >>]
    IN  IF ~c.drv.ignore_tdf
        THEN [abort_transaction_async(c) EXCEPT !.drv.state = "stopping"]
        ELSE IF taken.drv.next # taken.drv.size THEN taken
        ELSE IF Len(taken.port.fifo) = 1
        THEN [taken EXCEPT !.drv.state = "stopping"]
        ELSE [taken EXCEPT !.drv.state = "transfer_complete"]

OnReceive(c, rdf) == IF rdf THEN OnByte(c) ELSE c

\* Room for commands in a write transaction (TDF): the bytes are queued, and
\* the STOP when they have all gone out; shifted counts the commands the port
\* takes out of its queue while the routine runs.
OnSpace(c, shifted) ==
    LET fresh == c.drv.next = 0
        going == fresh \/ c.drv.state = "transferring"
        begun == IF fresh THEN [c EXCEPT !.drv.error = "ok", !.drv.state = "transferring"]
                 ELSE c
        rest  == SubSeq(begun.drv.data, begun.drv.next + 1, begun.drv.size)
        fed   == [begun EXCEPT !.drv.next = begun.drv.size,
                               !.port.fifo = @ \o [i \in 1..Len(rest) |-> BYTE(rest[i])]]
    IN  IF ~going THEN c
        ELSE IF Len(fed.port.fifo) > shifted THEN fed
        ELSE [fed EXCEPT !.port.tdie = FALSE,
                         !.drv.state = "stopping",
                         !.port.fifo = Append(@, STOP)]

OnTransmit(c, tdf, shifted) ==
    IF tdf /\ ~c.drv.ignore_tdf THEN OnSpace(c, shifted) ELSE c

\* The routine is entered for a flag, a received byte or, when it asked for
\* that, an empty transmit FIFO.
InterruptPending == port.msr # {} \/ port.rx # << >> \/ (port.tdie /\ port.fifo = << >>)

interrupt_service_routine ==
    /\ InterruptPending
    /\ LET tdf == port.fifo = << >>
           rdf == port.rx # << >>
           c1 == OnErrors(Both, port.msr)
           c2 == OnStop(c1, port.msr)
           c3 == OnReceive(c2, rdf)
       IN  /\ \E shifted \in 0..(IF bus.phase = "owned" THEN 1 ELSE 0) :
                 Store(OnTransmit(c3, tdf, shifted))
           /\ got' = IF c3.drv.next > drv.next /\ drv.ignore_tdf THEN 1 ELSE got
    /\ UNCHANGED <<bus, pointer, healthy, acked>>

-----------------------------------------------------------------------------
(***************************************************************************)
(* The port and the bus.  The port stops taking commands while an error    *)
(* flag is up and ends the transaction on the bus by itself.               *)
(***************************************************************************)

\* An interrupt is served before the next event on the bus: a bit takes at least
\* a microsecond, and nothing in the firmware holds interrupts off that long.
Prompt == ~InterruptPending
FaultsNow == IF healthy \/ ~Prompt THEN {} ELSE FAULTS
Halted == port.msr \intersect ErrorFlags # {}
NextCommand(name) ==
    Prompt /\ ~Halted /\ port.fifo # << >> /\ port.fifo[1].cmd = name
PopCommand == port' = [port EXCEPT !.fifo = Tail(@)]
Raise(flag) == port' = [port EXCEPT !.msr = @ \union {flag}]

BusStart ==
    /\ NextCommand("START")
    /\ bus.phase \in {"free", "owned"}
    /\ PopCommand
    /\ bus' = [phase |-> "address", reading |-> port.fifo[1].reading, bytes |-> 0]
    /\ UNCHANGED <<drv, pointer, healthy, acked, got>>

BusAddressAck ==
    /\ Prompt
    /\ bus.phase = "address"
    /\ bus' = [bus EXCEPT !.phase = "owned"]
    /\ acked' = 1
    /\ UNCHANGED <<drv, port, pointer, healthy, got>>

BusAddressNak ==
    /\ "nak" \in FaultsNow
    /\ bus.phase = "address"
    /\ bus' = [bus EXCEPT !.phase = "closing"]
    /\ Raise("NDF")
    /\ UNCHANGED <<drv, pointer, healthy, acked, got>>

\* The first byte of a write moves the device's register pointer.
BusByteAck ==
    /\ NextCommand("BYTE")
    /\ bus.phase = "owned" /\ ~bus.reading /\ bus.bytes < MaxTransfer
    /\ PopCommand
    /\ bus' = [bus EXCEPT !.bytes = @ + 1]
    /\ pointer' = IF bus.bytes = 0 THEN port.fifo[1].data ELSE pointer
    /\ acked' = acked + 1
    /\ UNCHANGED <<drv, healthy, got>>

BusByteNak ==
    /\ "nak" \in FaultsNow
    /\ NextCommand("BYTE")
    /\ bus.phase = "owned" /\ ~bus.reading /\ bus.bytes < MaxTransfer
    /\ bus' = [bus EXCEPT !.phase = "closing"]
    /\ port' = [port EXCEPT !.fifo = Tail(@), !.msr = @ \union {"NDF"}]
    /\ UNCHANGED <<drv, pointer, healthy, acked, got>>

BusReceive ==
    /\ NextCommand("RECEIVE")
    /\ bus.phase = "owned" /\ bus.reading
    /\ port.rx = << >>
    /\ port' = [port EXCEPT !.fifo = Tail(@), !.rx = <<pointer>>]
    /\ UNCHANGED <<drv, bus, pointer, healthy, acked, got>>

\* A byte or a RECEIVE outside a transfer that fits it.
BusFifoError ==
    /\ \/ NextCommand("BYTE") /\ bus.phase = "owned" /\ bus.reading
       \/ NextCommand("RECEIVE") /\ bus.phase = "owned" /\ ~bus.reading
       \/ bus.phase = "free" /\ (NextCommand("BYTE") \/ NextCommand("RECEIVE"))
    /\ port' = [port EXCEPT !.fifo = Tail(@), !.msr = @ \union {"FEF"}]
    /\ bus' = IF BusBusy THEN [bus EXCEPT !.phase = "closing"] ELSE bus
    /\ UNCHANGED <<drv, pointer, healthy, acked, got>>

\* The port takes a STOP from the queue; it has no effect on a free bus.
BusStop ==
    /\ NextCommand("STOP")
    /\ bus.phase \in {"owned", "free"}
    /\ bus' = IF BusBusy THEN [bus EXCEPT !.phase = "closing"] ELSE bus
    /\ PopCommand
    /\ UNCHANGED <<drv, pointer, healthy, acked, got>>

\* The bus is free again, after a STOP and after a failure, which the port ends
\* by itself.
BusCloses ==
    /\ Prompt
    /\ bus.phase = "closing"
    /\ bus' = [bus EXCEPT !.phase = "free"]
    /\ Raise("SDF")
    /\ UNCHANGED <<drv, pointer, healthy, acked, got>>

BusArbitrationLost ==
    /\ "arbitration" \in FaultsNow
    /\ bus.phase \in {"address", "owned"}
    /\ bus' = [bus EXCEPT !.phase = "free"]
    /\ Raise("ALF")
    /\ UNCHANGED <<drv, pointer, healthy, acked, got>>

\* The device holds a line low beyond the port's pin low timeout, or still does.
BusSticks ==
    /\ "stick" \in FaultsNow
    /\ bus.phase \in {"address", "owned", "stuck"}
    /\ bus' = [bus EXCEPT !.phase = "stuck"]
    /\ Raise("PLTF")
    /\ UNCHANGED <<drv, pointer, healthy, acked, got>>

BusReleased ==
    /\ bus.phase = "stuck"
    /\ bus' = [bus EXCEPT !.phase = "closing"]
    /\ UNCHANGED <<drv, port, pointer, healthy, acked, got>>

BusHeals ==
    /\ ~healthy
    /\ healthy' = TRUE
    /\ UNCHANGED <<drv, port, bus, pointer, acked, got>>

\* What the port does in microseconds when nothing goes wrong.
PortStep ==
    \/ BusStart \/ BusAddressAck \/ BusByteAck \/ BusReceive
    \/ BusFifoError \/ BusStop \/ BusCloses

\* The port has one of these to do (PortStep is enabled).  It takes a command from
\* a free or an owned bus, but no byte beyond what a transfer holds.
PortWorks ==
    /\ Prompt
    /\ \/ bus.phase \in {"address", "closing"}
       \/ /\ bus.phase \in {"free", "owned"} /\ port.fifo # << >>
          /\ ~(port.fifo[1].cmd = "BYTE" /\ bus.phase = "owned"
               /\ ~bus.reading /\ bus.bytes = MaxTransfer)

FaultStep ==
    \/ BusAddressNak \/ BusByteNak \/ BusArbitrationLost \/ BusSticks

=============================================================================
