---------------------------- MODULE TeensyI2CMaster ----------------------------
(***************************************************************************)
(* TeensyI2CMaster::read and write and the address probe of                *)
(* I2CManager::i2c_scan_task, on top of Wire (I2CDriverWire), on top of    *)
(* the driver.  One thread makes one call after the other; its steps       *)
(* interleave with the interrupt routine and the bus, and it may be        *)
(* preempted between any two of them.                                      *)
(***************************************************************************)
EXTENDS I2CMaster

VARIABLES
    op,      \* the call the thread is in, "none" outside one
    reg,     \* the register it is for
    pc,      \* where in it the thread is
    status,  \* history: what Wire.endTransmission returned in this call
    result,  \* history: what read returned in this call, and its value
    switched \* history: whether the thread was ever switched away between start() and
             \* the rest of write_async or read_async, long enough for an interrupt

callVars == <<op, reg, pc, status, result, switched>>
vars == <<masterVars, callVars>>

Ops == {"probe", "write", "read"}
NoStatus == 256
NoResult == [status |-> NoStatus, value |-> 0]
WireResults == {0, 2, 3, 4}

\* What read returns when no byte is available, uint8_t(-1).
ReadFailed == 255

TypeOK ==
    /\ MasterTypeOK
    /\ op \in Ops \union {"none"}
    /\ reg \in Registers
    /\ pc \in {"ready", "write_async", "arm_write", "finish_write",
               "read_async", "arm_read", "finish_read"}
    /\ (op = "none") <=> (pc = "ready")
    /\ status \in WireResults \union {NoStatus}
    /\ result \in [status : {0, ReadFailed, NoStatus}, value : Bytes]
    /\ switched \in BOOLEAN

Init ==
    /\ MasterInit
    /\ op = "none" /\ reg \in Registers /\ pc = "ready"
    /\ status = NoStatus
    /\ result = NoResult
    /\ switched = FALSE

-----------------------------------------------------------------------------
\* Slip: only the two refusals of the device count as failures.
toWireResult_OnlyNaks(error) ==
    CASE error = "address_nak" -> 2
      [] error = "data_nak" -> 3
      [] OTHER -> 0

toWireResult(error) ==
    CASE error = "ok" -> 0
      [] error = "address_nak" -> 2
      [] error = "data_nak" -> 3
      [] OTHER -> 4

\* What beginTransmission and the calls of write left in the transmit buffer:
\* the register, and in a write the value, which is of no interest here.
TxBuffer ==
    CASE op = "probe" -> << >>
      [] op = "write" -> <<reg, reg>>
      [] OTHER -> <<reg>>

\* beginTransmission, write...
Call(o, r) ==
    /\ pc = "ready"
    /\ op' = o /\ reg' = r /\ pc' = "write_async"
    /\ status' = NoStatus
    /\ result' = NoResult
    /\ UNCHANGED <<masterVars, switched>>

\* endTransmission: master.write_async, in two steps.
WriteAsync ==
    /\ pc = "write_async"
    /\ \/ startSucceeds(FALSE) /\ pc' = "arm_write"
       \/ startFails(FALSE) /\ pc' = "finish_write"
    /\ UNCHANGED <<op, reg, status, result, switched>>

ArmWrite ==
    /\ pc = "arm_write"
    /\ IF TxBuffer = << >> THEN probeArmed ELSE writeArmed(TxBuffer)
    /\ pc' = "finish_write"
    /\ UNCHANGED <<op, reg, status, result, switched>>

\* finish() polls for 200 ms: it gives up only when neither the port nor the
\* interrupt routine has anything left to do.
finish == finished \/ (~InterruptPending /\ ~PortWorks)

\* endTransmission returns.  read goes on whatever the result.
EndTransmission ==
    /\ pc = "finish_write"
    /\ finish
    /\ status' = toWireResult(drv.error)
    /\ IF op = "read"
       THEN pc' = "read_async" /\ UNCHANGED op
       ELSE pc' = "ready" /\ op' = "none"
    /\ UNCHANGED <<masterVars, reg, result, switched>>

\* requestFrom: master.read_async, in two steps.
ReadAsync ==
    /\ pc = "read_async"
    /\ \/ startSucceeds(TRUE) /\ pc' = "arm_read"
       \/ startFails(TRUE) /\ pc' = "finish_read"
    /\ UNCHANGED <<op, reg, status, result, switched>>

ArmRead ==
    /\ pc = "arm_read"
    /\ readArmed
    /\ pc' = "finish_read"
    /\ UNCHANGED <<op, reg, status, result, switched>>

\* requestFrom returns, and read reads the byte it says is there.
RequestFrom ==
    /\ pc = "finish_read"
    /\ finish
    /\ result' = IF get_bytes_transferred >= 1
                 THEN [status |-> 0, value |-> drv.read_buffer]
                 ELSE [status |-> ReadFailed, value |-> 0]
    /\ pc' = "ready" /\ op' = "none"
    /\ UNCHANGED <<masterVars, reg, status, switched>>

\* An interrupt is served before the thread goes on.
Thread ==
    /\ Prompt
    /\ \/ WriteAsync \/ ArmWrite \/ EndTransmission
       \/ ReadAsync \/ ArmRead \/ RequestFrom

\* While the thread is on its way through start() nothing else happens, unless it
\* was switched away.
Meanwhile ==
    /\ switched' = (switched \/ pc \in {"arm_write", "arm_read"})
    /\ UNCHANGED <<op, reg, pc, status, result>>

Interrupt == interrupt_service_routine /\ Meanwhile
Port      == PortStep /\ Meanwhile
Fault     == FaultStep /\ Meanwhile
Release   == BusReleased /\ UNCHANGED callVars
Heal      == BusHeals /\ UNCHANGED callVars

NewCall == \E o \in Ops, r \in Registers : Call(o, r)

Next == NewCall \/ Thread \/ Interrupt \/ Port \/ Fault \/ Release \/ Heal

Spec == Init /\ [][Next]_vars

\* The thread goes on, the interrupt is served, the port works and a device
\* that holds a line lets go of it.
FairSpec ==
    /\ Spec
    /\ WF_vars(NewCall) /\ WF_vars(Thread) /\ WF_vars(Interrupt)
    /\ WF_vars(Port) /\ WF_vars(Release)

-----------------------------------------------------------------------------
\* The thread was told the truth about the transmission that ends.
ToldTheTruth ==
    /\ status' = 0 => acked = 1 + Len(TxBuffer)
    /\ (op = "probe" /\ status' = 2) => acked = 0

\* When endTransmission says 0, the device acknowledged its address and every
\* byte; when the probe of i2c_scan_task gets 2, it did not acknowledge its
\* address.  So it is as long as the thread is never switched away inside
\* write_async.
ResultHonest == [][EndTransmission /\ ~switched => ToldTheTruth]_vars

\* i2c_driver.h: 'ok' means there were no errors since the last transaction
\* started, whether or not the thread was switched away.
OkMeansNoErrors == [][EndTransmission => ToldTheTruth]_vars

\* When read returns 0 and its register write went through, the value is the
\* byte that the interrupt routine took in this call, of the register that was
\* asked for, and not one left over in Wire's buffer; with the same exception.
ReadHonest ==
    [][ (RequestFrom /\ ~switched /\ status = 0 /\ result'.status = 0)
          => (got = 1 /\ result'.value = reg) ]_vars

\* Once nothing goes wrong on the bus any more, the driver gets out of whatever
\* state the faults left it in: from some point on every call succeeds.
Recovers ==
    healthy ~> [](status \in {0, NoStatus} /\ result.status \in {0, NoStatus})

=============================================================================
