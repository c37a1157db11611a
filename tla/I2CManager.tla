------------------------------ MODULE I2CManager ------------------------------
(***************************************************************************)
(* I2CManager: the scan of the bus and the fan control, one Wire call at a *)
(* time.  A call takes several steps of the thread that makes it, so that  *)
(* the thread may be preempted inside one.  What a call brings back is     *)
(* what TeensyI2CMaster promises: the truth on a healthy bus, and possibly *)
(* nothing or another byte otherwise.  The fan controller (Max6651), the   *)
(* fans and the bus are outside the sources.                               *)
(***************************************************************************)
EXTENDS Integers, FiniteSets

CONSTANTS
    FAN_COUNT,     \* fans of the backplane controller
    LAST_ADDRESS,  \* addresses 1..LAST_ADDRESS are probed, 1..126 in the firmware
    SPEEDS,        \* speeds a fan may run at, in RPM
    Threads        \* threads that may run a procedure of the manager

FAN_MIN_SPEED == 3800
FAN_MAX_SPEED == 4600

ASSUME FanConstants ==
    /\ FAN_COUNT \in Nat \ {0}
    /\ LAST_ADDRESS \in Nat \ {0}
    /\ SPEEDS \subseteq Nat
    /\ SPEEDS \intersect (FAN_MIN_SPEED + 1)..(FAN_MAX_SPEED - 1) # {}

VARIABLES
    detected,    \* detected_i2c_slaves
    fan_begun,   \* whether begin_fan_control commanded the controller
    pc,          \* where each thread is
    inWire,      \* threads inside a Wire call
    address,     \* loop variable of i2c_scan_task
    fan,         \* loop variable of fan_speed_scan_task
    controller,  \* mode of the controller, and whether it has a target speed
    speed,       \* speed of each fan
    healthy      \* from now on nothing goes wrong on the bus

managerVars == <<detected, fan_begun, pc, inWire, address, fan,
                 controller, speed, healthy>>

Fans == 0..(FAN_COUNT - 1)
Addresses == 1..LAST_ADDRESS

\* Places at which a thread makes a Wire call.
BootCalls == {"probe", "check", "begin", "mode", "set", "psu"}
TaskCalls == {"read", "rebegin", "remode", "reset"}
WireCalls == BootCalls \union TaskCalls

ManagerTypeOK ==
    /\ detected \subseteq Addresses
    /\ fan_begun \in BOOLEAN
    /\ inWire \subseteq Threads
    /\ address \in Addresses
    /\ fan \in Fans
    /\ controller \in [mode : {"other", "closed_loop"}, target : BOOLEAN]
    /\ speed \in [Fans -> SPEEDS]
    /\ healthy \in BOOLEAN

ManagerInit ==
    /\ detected = {}
    /\ fan_begun = FALSE
    /\ inWire = {}
    /\ address = 1
    /\ fan = 0
    /\ controller = [mode |-> "other", target |-> FALSE]
    /\ speed \in [Fans -> SPEEDS]
    /\ healthy \in BOOLEAN

Goto(t, place) == pc' = [pc EXCEPT ![t] = place]
CallDone(t) == t \in inWire /\ inWire' = inWire \ {t}
Environment == <<speed, healthy>>

\* Any Wire call begins: Wire's buffers and the driver are the thread's now.
CallBegins(t) ==
    /\ pc[t] \in WireCalls
    /\ t \notin inWire
    /\ inWire' = inWire \union {t}
    /\ UNCHANGED <<detected, fan_begun, pc, address, fan, controller, Environment>>

-----------------------------------------------------------------------------
(***************************************************************************)
(* i2c_scan_task, which init() runs.                                       *)
(***************************************************************************)

\* What endTransmission may return for an empty write; which addresses have a
\* device is not known.
ProbeResults == {0, 2, 4}

DetectedAfter(a, error) ==
    CASE error = 0 -> detected \union {a}
      [] error = 2 -> detected \ {a}
      [] OTHER     -> detected

Probe(t, next) ==
    /\ pc[t] = "probe"
    /\ CallDone(t)
    /\ \E error \in ProbeResults : detected' = DetectedAfter(address, error)
    /\ IF address < LAST_ADDRESS
       THEN address' = address + 1 /\ UNCHANGED pc
       ELSE address' = 1 /\ Goto(t, next)
    /\ UNCHANGED <<fan_begun, fan, controller, Environment>>

-----------------------------------------------------------------------------
(***************************************************************************)
(* The controller: what its registers hold after a write.  A write that    *)
(* fails leaves them; the manager is not told.                             *)
(***************************************************************************)

Reads(f) == IF healthy THEN {speed[f]} ELSE SPEEDS

\* begin() writes the default configuration, mode() and setSpeed() a register.
Configured == {[controller EXCEPT !.mode = m] : m \in {"other", "closed_loop"}}
ModeSet    == {[controller EXCEPT !.mode = "closed_loop"]}
SpeedSet   == {[controller EXCEPT !.target = TRUE]}

Command(t, outcomes, next) ==
    /\ CallDone(t)
    /\ controller' \in outcomes \union (IF healthy THEN {} ELSE {controller})
    /\ Goto(t, next)

Controlled == controller = [mode |-> "closed_loop", target |-> TRUE]

-----------------------------------------------------------------------------
(***************************************************************************)
(* begin_fan_control looks at fan 0 only, and takes the limits themselves  *)
(* for out of range.  The reads that it only logs are left out.            *)
(***************************************************************************)

SpeedOK(s) == s > FAN_MIN_SPEED /\ s < FAN_MAX_SPEED

FirstCheck(t, next) ==
    /\ pc[t] = "check"
    /\ CallDone(t)
    /\ \E s \in Reads(0) : Goto(t, IF SpeedOK(s) THEN next ELSE "begin")
    /\ UNCHANGED <<detected, fan_begun, address, fan, controller, Environment>>

FirstBegin(t) ==
    /\ pc[t] = "begin"
    /\ Command(t, Configured, "mode")
    /\ UNCHANGED <<detected, fan_begun, address, fan, Environment>>

\* fan_begun is set before the speed is, and whether or not the writes worked.
FirstMode(t) ==
    /\ pc[t] = "mode"
    /\ Command(t, ModeSet, "set")
    /\ fan_begun' = TRUE
    /\ UNCHANGED <<detected, address, fan, Environment>>

FirstSet(t, next) ==
    /\ pc[t] = "set"
    /\ Command(t, SpeedSet, next)
    /\ UNCHANGED <<detected, fan_begun, address, fan, Environment>>

\* begin_psu_readings: psu.dump().
PsuDump(t, next) ==
    /\ pc[t] = "psu"
    /\ CallDone(t)
    /\ Goto(t, next)
    /\ UNCHANGED <<detected, fan_begun, address, fan, controller, Environment>>

-----------------------------------------------------------------------------
(***************************************************************************)
(* fan_speed_scan_task.                                                    *)
(***************************************************************************)

\* Slip: the two limits are joined by "and".
OutOfRange_Both(s) == s < FAN_MIN_SPEED /\ s > FAN_MAX_SPEED

OutOfRange(s) == s < FAN_MIN_SPEED \/ s > FAN_MAX_SPEED

\* Slip: the index runs past the last fan; the scan stays at a fan.
NextFan_Overrun(f) == f + 1
NextFan_Stays(f) == f

\* The next fan, 0 when the round is over.
NextFan(f) == IF f + 1 = FAN_COUNT THEN 0 ELSE f + 1

PastFan(t, idle) ==
    /\ fan' = NextFan(fan)
    /\ Goto(t, IF fan' = 0 THEN idle ELSE "read")

ScanRead(t, idle) ==
    /\ pc[t] = "read"
    /\ CallDone(t)
    /\ \E s \in Reads(fan) :
          IF OutOfRange(s) /\ ~fan_begun
          THEN Goto(t, "rebegin") /\ UNCHANGED fan
          ELSE PastFan(t, idle)
    /\ UNCHANGED <<detected, fan_begun, address, controller, Environment>>

ScanBegin(t) ==
    /\ pc[t] = "rebegin"
    /\ Command(t, Configured, "remode")
    /\ UNCHANGED <<detected, fan_begun, address, fan, Environment>>

ScanMode(t) ==
    /\ pc[t] = "remode"
    /\ Command(t, ModeSet, "reset")
    /\ UNCHANGED <<detected, fan_begun, address, fan, Environment>>

ScanSet(t, idle) ==
    /\ pc[t] = "reset"
    /\ CallDone(t)
    /\ controller' \in SpeedSet \union (IF healthy THEN {} ELSE {controller})
    /\ PastFan(t, idle)
    /\ UNCHANGED <<detected, fan_begun, address, Environment>>

-----------------------------------------------------------------------------
(***************************************************************************)
(* The fans and the backplane.                                             *)
(***************************************************************************)

SpeedChanges(f, s) ==
    /\ speed' = [speed EXCEPT ![f] = s]
    /\ UNCHANGED <<detected, fan_begun, pc, inWire, address, fan,
                   controller, healthy>>

\* The backplane loses power: the controller starts over.
ControllerResets ==
    /\ ~healthy
    /\ controller' = [mode |-> "other", target |-> FALSE]
    /\ UNCHANGED <<detected, fan_begun, pc, inWire, address, fan, Environment>>

Heals ==
    /\ ~healthy
    /\ healthy' = TRUE
    /\ UNCHANGED <<detected, fan_begun, pc, inWire, address, fan,
                   controller, speed>>

=============================================================================
