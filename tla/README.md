# TeensyJBOD in TLA+

TeensyJBOD is the firmware of a Teensy 4.1 that runs a disk enclosure (a JBOD):
it keeps the fans of the backplane in range over I2C, blinks a status light, and
is meant to serve a small web page. It runs on bare metal with a preemptive
thread library, one core, one I2C bus and no tests. What is hard about it is
timing: threads preempted anywhere, an interrupt routine that shares a state
machine with its callers, a millisecond counter that wraps, a bus that fails, and
browsers that come, stop and go while a fixed number of sockets is shared out.
This directory models those parts, checks them with TLC on small instances and
proves the most important facts with TLAPS for all sizes.

Paths below are relative to the root of the repository as it is named in
`PROJECT.json` (`src/src/...` is the firmware's own code, `src/arduino_lib/...`
the libraries it is built with).

## 1. Inventory

### The firmware (`src/src/main.cpp`)

*State*: the globals `i2c_manager`, `task_manager`, `status_led_blinks`; the level
of the light. *Operations*: `setup()` scans the bus, starts the fan control and
the PSU readings, adds one task (the fan scan, every 5000 ms) and adds two
threads, `task_loop` and `status_led_loop`; `loop()` is empty. The start of the
network and of `web_loop` is commented out. *Interactions*: calls into every other
part; the first `addThread` starts preemption while `setup()` still has a thread to
add. *Hard*: nothing but the order of `setup()` keeps two threads out of the Wire
library and out of the vector of tasks. *Correct when*: Wire calls never overlap
(`WireIsExclusive`), the vector is complete before a thread walks it
(`TasksAreSettled`), and every loop goes on for ever (`LedBlinks`,
`EveryFanIsScanned`).

### I2CManager (`src/src/I2CManager.h`)

*State*: `detected_i2c_slaves`, `fan_begun`; the mode and target speed of the
MAX6651 behind it. *Operations*: `i2c_scan_task` (at boot only),
`begin_fan_control`, `begin_psu_readings`, `fan_speed_scan_task`.
*Interactions*: every step is a Wire call that may fail or bring back an old byte.
*Hard*: a sequence of three commands to the controller, each of which can fail
alone, and a flag set in the middle of it. *Correct when*: every fan is looked at
again and again, and one that is out of range gets the controller commanded
(`FanIsControlled`).

### TaskManager (`src/src/TaskManager.h`)

*State*: `timed_tasks`, each with `last_execute_ms` and its period. *Operations*:
`add_task`, `service`, `TimedTask::execute`. *Hard*: unsigned time that wraps every
49 days, a start value of `0 - millis()`, tasks that take time themselves.
*Correct when*: no task that has run runs again early (`PeriodKept`) or late (`Punctual`),
none is forgotten (`EveryTaskRuns`), and a new one runs at once, as the comment on its start
value says (`InstantExecution`, which does not hold: section 3).

### TeensyI2CMaster and Wire (`src/src/i2c/TeensyI2CMaster.h`, `teensy4_i2c/src/i2c_driver_wire.*`)

*State*: one transmit and one receive buffer for everybody. *Operations*: `write`
and `read` of a register, each made of `beginTransmission`, `write`,
`endTransmission` and `requestFrom`; `finish` polls the driver for up to 200 ms.
*Interactions*: calls the driver's `write_async`/`read_async`, polls `finished`.
*Hard*: a call that times out leaves the driver in the middle of something, and the
next call meets it there. *Correct when*: a returned success is true
(`ResultHonest`, `ReadHonest`).

### LPI2C driver (`teensy4_i2c/src/imx_rt1060/imx_rt1060_i2c_driver.*`)

*State*: transaction state, error, buffer, and the port's FIFOs and flags.
*Operations*: `start`, `write_async`, `read_async`, `abort_transaction_async` on the
callers' side, `_interrupt_service_routine` on the other. *Hard*: both sides write
`state`, `error` and the buffer without a lock, and one interrupt entry handles
errors, STOP, receive and transmit in sequence. *Correct when*: it always gets out
of an error (`Recovers`) and its count and error are those of the last call.

### TeensyThreads (`arduino_lib/TeensyThreads/TeensyThreads.*`, `TeensyThreads-asm.S`)

*State*: `currentActive`, `current_thread`, `currentCount`, the state of each slot of
`threadp`, `thread_count`. *Operations*: the context switch of the timer and of
`yield`; `addThread`, `del_process`, `kill`, `suspend`, `restart`, `wait`, `stop` /
`start`, the `Suspend` scope; `Threads::Mutex` with `lock`, `try_lock`, `unlock`.
*Hard*: preemption between any two steps, critical regions that are only
"stop the timer from switching", waiters that suspend themselves. *Correct when*:
scopes are exclusive and restored (`ScopeIsExclusive`, `StartedForGood`), the round
robin starves nobody (`EveryThreadRuns`), and the mutex is one
(`MutualExclusion`, `ImplementsLock`).

### HTTP request parser (`lib/httpparser/src/httpparser/`)

*State*: the state of `consume`, the content length, the chunked flag, the sizes of the
chunk, and the request built so far. *Operations*: `parse` over a buffer of characters;
the result is complete, incomplete or an error. *Interactions*: called once per request
by `WebServer` with whatever one read returned. *Hard*: some forty states, and three
ways for a body to end (none, a length, chunks). *Correct when*: a request that a client
writes out is read back as it was (`RoundTrip`), and a text taken for complete is framed
as one, whatever character was lost, added or changed (`CompleteIsFramed`).

### WebServer and RestApi (`src/src/net/WebServer.h`, `RestApi.h`)

*State*: the client being served, the routes. *Operations*: `web_loop` forever:
`available()`, read what is there, parse, look up the route, answer, close, sleep.
*Interactions*: NativeEthernet's server and client, the parser, the handlers, which read
the `I2CManager`. *Hard*: the request may come in pieces, the browser may reset or close
at any point, and the answer goes out in parts of which each can be refused.
*Correct when*: a browser gets one answer at most, in order, and the server's
goodbye comes after the whole of it (`OneAnswer`), and whoever has sent a whole request sees the end
of its connection, unless others are served before it for ever (`EveryRequestEnds`).

### NativeEthernet server and client (`arduino_lib/NativeEthernet/src/`)

*State*: `_client_sockets` and the other arrays with an entry per socket (eight).
*Operations*: `begin`, `poll` (called by a timer of FNET, listens, accepts, notes data
and closes), `available`, `read`, `write`, `stop`, `connected`. *Interactions*: FNET
sockets. *Hard*: `poll` runs in an interrupt between any two calls of the thread, and
both write the same entries. *Correct when*: a socket has one entry (`OneOwner`), a
request is not lost while browsers keep their connections open (`NothingLostInPeace`), and
the server goes on listening with somebody to accept for as long as it has slots and entries in
FNET's list of services (`KeepsListening`), which only resets (`SlotsLostToResets`) and
connections (`WebServer_proofs!EntriesLostToConnections`) can cost it.

### FNET (`arduino_lib/FNET/src/stack/`, `service/`)

*State*: the list of sockets, each with its TCP control block, buffers, backlog queues;
the table of services that `fnet_service_poll` calls. *Operations*: the socket calls, the TCP
input and the TCP timers. *Interactions*: called by NativeEthernet and, from the timer,
calls its `poll`. *Hard*: connections that end on either side at any time, segments that
are lost, repeated or overtaken, windows that close, numbers that wrap. *Correct when*: the
owner of a socket sees each connection once and sees its end, both streams come out as they
went in (`ReceivesStream`, `SendsStream`), and neither side waits for the other without a
timer (`NeverStalls`).

### Not modelled, and why

| part | why |
|---|---|
| `NetManager`, DHCP, DNS, UDP, the start of the network | a sequence without concurrency whose one loop waits for the link for ever; its calls in `setup()` are commented out |
| `ReplaceAll` and the rest of `StringUtil`, `SensorUtils`, `SerialLogger` | formatting and logging; `ReplaceAll` is only called under `WEB_DEBUG` |
| `Threads::delay`, `idle`, `sleep`, `setTimeSlice`, the microsecond timer | waits that yield; `delay` is in `Firmware.tla` as such. Its signed difference of readings goes wrong after 2^31 ms, `idle` walks the slots by `thread_count`; both are read off the source, no run shows them |
| the stacks of threads | memory, not control. `addThread` after `kill` of the running thread reuses the slot and with it the stack it runs on; the 128 bytes of the light's thread hold a context frame and little else |
| the order of static initialisation | `I2CManager`'s constructor calls `Wire.begin()`, possibly before `Wire` is constructed; C++ leaves it open between files |
| `Max6651.cpp`, `SuperPMBus` | included by the sources and not in the repository; `I2CManager.tla` has the effects the manager needs, marked external |
| I2C slave driver, block transfers, `set_clock` | the firmware does not use them |
| `SdManager` | the whole file is commented out |
| TCP from the client's side (`SYN_SENT`), urgent data, keepalive, the third-repeat recovery's window arithmetic, resets sent | the firmware never connects out; congestion windows are a choice from a set, so their arithmetic cannot matter to what is checked; a reset sent leaves the control block as it is |
| the rest of FNET, SdFat, SPI, Bounce2, TeensyID, the Teensy core, `web_src` | vendored code with no caller in the firmware, or no logic |

## 2. Modules

| module | models | uses |
|---|---|---|
| `ThreadScheduler` | the scheduler's variables, the context switch and the operations on slots | |
| `Threads` | the Threads class under arbitrary callers | `ThreadScheduler` |
| `AbstractLock` | what a mutex promises | |
| `Mutex` | `Threads::Mutex`, `kill`, `Suspend` scopes; refines `AbstractLock` | `ThreadScheduler` |
| `TaskManager`, `MCTaskManager` | `TaskManager` on a wrapping clock; its instances | |
| `I2CMaster` | the driver, its interrupt routine, the port and the bus | |
| `TeensyI2CMaster` | register reads, writes and probes through Wire | `I2CMaster` |
| `I2CManager` | bus scan and fan control, one Wire call at a time | |
| `Firmware` | `setup()` and the loops, all threads together | `ThreadScheduler`, `I2CManager` |
| `HttpParser`, `MCHttpParser` | the parser over classes of characters; the requests and texts it is run on, and what a well-framed text is | |
| `FnetSocket` | the sockets of FNET as their owner sees them: listening, queues, connections, ends | |
| `EthernetServer` | the server's arrays, `poll` in the interrupt and the calls of the thread | `FnetSocket` |
| `WebServer`, `MCWebServer` | `web_loop`, the routes and the browsers; its instance | `EthernetServer` |
| `FnetTcp`, `MCFnetTcp` | the control block of one accepted TCP connection, its application, its timers and a peer; its instances | |
| `Threads_proofs`, `Mutex_proofs`, `TaskManager_proofs`, `Firmware_proofs`, `TeensyI2CMaster_proofs`, `HttpParser_proofs`, `FnetTcp_proofs`, `WebServer_proofs` | theorems | their modules |

`Firmware` does not contain the three parts it stands on in full. It takes from
`TeensyI2CMaster` that a Wire call ends and, on a healthy bus, tells the truth
(`ResultHonest`, `ReadHonest`, `Recovers`), from `TaskManager` that the task
becomes due again and again (`EveryTaskRuns`), and uses the scheduler itself.

### How state and actions correspond to the code

* **One core.** `current_thread` owns it. Every step of thread *t* has the guard
  `current_thread = t`; `Tick` is the timer interrupt and may come between any two
  steps. Code between `threads.stop()` and `threads.start(p)` is one step, because
  the timer does not switch there; everything else is split where another thread
  could notice. In `Mutex` each of the six steps of `lock()` is an action of its own
  (`FirstTry`, `LoopTry`, `CheckLimit`, `CheckWaiter`, `Enroll`, `YieldInLock`), in
  the order of the source.
* **`getNextThread`.** The scan for the next RUNNING slot above the current one is a
  minimum over a set (`NextThread`); when there is none, slot 0 is dispatched
  whatever its flags, as in the code.
* **Threads as callers.** `Threads` lets every thread call everything, as the header
  and the readme of the library describe it: scopes are closed by the thread that
  opened them, and nobody waits inside one.
* **Time.** `elapsed` is the difference of two clock readings in a wait with a limit,
  counted up to one past the limit. `TaskManager` keeps the reading itself, modulo
  `CLOCK`, because there the wrapping matters. `since`, `gap`, `ran` are history.
* **The interrupt routine** is one action: it does not get interrupted. It takes the
  flags once and applies `OnErrors`, `OnStop`, `OnReceive`, `OnTransmit` to the pair
  of driver and port in the order of the code, so that what one group writes the next
  one sees. `start()` and the rest of `write_async` / `read_async` are two steps with
  anything in between; `switched` records that a thread was switched away inside a
  call, and the properties that need the thread to stay say so.
* **The bus** may acknowledge or refuse, lose arbitration, or hold a line low until it
  lets go, as `FAULTS` says, until `healthy` becomes TRUE. Flags are raised as the
  driver's code expects them (`MSR_NDF`, `ALF`, `FEF`, `PLTF`, `SDF`).
* **The fan controller** is a record of the two facts the manager cares about: its mode
  and whether it has a target speed. A failed write leaves it, and the manager is not
  told, as in the code. `ControllerResets` is a power loss of the backplane.
* **The parser** reads characters by the class its tests tell apart (letters of a header
  name that matters, digits, space, colon, CR, LF, ...). A text is a sequence of classes, a
  request the lines it has. A step takes one character: `Target` is the edge, `Pushed` what it
  does to the request.
* **The web server's thread and the timer.** `fnet_poll` runs in a timer interrupt: `Poll` is
  one action and may come between any two steps of `web_loop`; every socket call of the
  thread is one step of its own, because FNET masks the timer for the length of a call.
  A connection starts where FNET's handshake has ended; browsers send a request in
  `PIECES`, and close or reset whenever they like. In `Spec` each of the `CLIENTS` connects at
  most once; they are any finite number, so that a browser that comes back is one more of
  them, and the theorems have every such run. In `ReturningSpec` some (`Regulars`) connect
  again without end (`ComesAgain`), for what shows only then: starvation and a list
  that runs full.
* **TCP.** `FnetTcp` has one control block (`c`) from the SYN on. A byte is the unit, and
  its content is its position in the stream, so a byte in the wrong place shows. Each
  function of `fnet_tcp.c` that decides something is an operator from the control block to
  the control block, and `Inputsk`, the socket calls and the timers apply them in the order
  of the code; the stack's mutex makes each of them one step. Congestion windows are taken from
  `CWNDS`, a timer that runs may expire at any time, and whether a repeated acknowledgement
  is the third is a choice. The network keeps nothing: the peer may at any time send again whatever it
  may ever have sent, with any acknowledgement it may ever have given, which covers loss,
  repetition and overtaking. It sends inside the largest window it was told of, or one byte
  beyond a closed one (`InWindow`); `load` says how much is asked of the connection.
  Where the code reads through a null pointer, the count becomes `UNKNOWN` and every test of
  it a choice. `FnetSocket` is the same sockets as their owner sees them.
* **Left out**: logging, message texts, the bytes of PMBus, the stacks of threads
  apart from who owns one, clock settings of the port.

Slips: next to some definitions stand variants with a suffix
(`NextThread_FromStart`, `tryTakes_Blind`, ...). No specification uses them. Each is a
plausible mistake in the code of that definition, and is there to show that a property
fails when the mistake is made (`PROJECT.json`, "mutants").

## 3. Runs

All are run with `tlc -config X.cfg M` in this directory.

| run | shows |
|---|---|
| `Firmware` | Wire calls never overlap and the task vector is complete before it is walked; every fan keeps being looked at, the light blinks, an unconfigured controller gets commanded, with every bus failure and power losses |
| `Threads` | scopes exclusive, preemption never stays off, a stopped thread stands still, no thread starves, a timed `wait` returns |
| `Mutex` | three threads, with killed waiters, time limits and `Suspend` scopes: mutual exclusion, refinement of `AbstractLock`, the recorded waiter is really stopped in `lock()`, nobody leaves `lock()` suspended; thread 0, which is dispatched though suspended, loses neither a free mutex nor its time limit |
| `TaskManager_periods` | two tasks on a clock that wraps: once run, never early or late, and never forgotten |
| `TeensyI2CMaster_faults` | results and bytes are true under every bus fault, and after the last fault every call succeeds, also when the thread is preempted inside the driver |
| `HttpParser_texts` | requests read back as written; of every text one character away from a request only the well framed are taken |
| `WebServer` | a browser that sends in pieces, closes its half and resets, and one that comes again and again, against four sockets, three slots and a list of two services: sockets have one owner, answers are single, in order and whole, slots are lost to resets only, the server keeps listening until slots or services are used up, a whole request's connection ends unless it is overtaken for ever |
| `FnetTcp` | a connection that sends to a window that closes or is small, one that receives more than its buffer holds, one that does both: streams whole and in order in both directions, receive buffer never overrun, nobody waits without a timer |

Four runs state what a comment or the readme says and the code does not do; TLC finds a
behaviour that violates each:

| run | what the documentation says | what happens |
|---|---|---|
| `Mutex_lost_wakeup` | `lock` suspends "until unlock", and "can hold 1 thread suspend" | `unlock` before the suspension, and two threads that both find `waitthread == -1`: suspended on a free mutex |
| `TaskManager_instant` | the start value is to "enable instant execution upon scheduling" | the first look finds twice the time since power-up, less than the period, and passes the task over |
| `TeensyI2CMaster_preempted` | 'ok' "means there were no errors" | the transmit branch overwrites the address refusal when the thread was switched away |
| `FnetTcp_fin` | a "reliable" stream whose output "can be sent after the execution of the fnet_socket_close() in the background" | the FIN goes out under the number of an undelivered byte, the peer acknowledges it, and the byte is dropped as delivered |

`Mutex_lost_wakeup` does not reach today's firmware, which uses no mutex.
`TaskManager_instant` does, when `setup()` comes to `add_task` within 2500 ms of power-up, half the
period of the fan scan: the first scan then waits until the clock and the time of adding make up 5000 ms.
`TeensyI2CMaster_preempted` needs a thread switched away inside `write_async`;
the task loop can be, as the light's thread competes with it. `FnetTcp_fin` needs a close with
bytes unsent, a peer that opens a small window, and a lost segment. A FIN may be repeated
with every acknowledgement of `FIN_WAIT_1` under "the last number used"; when the window
shrinks, `_fnet_tcp_send_anydata` takes that number back though the FIN is out
(`fnet_tcp.c:2398`, `:3522`). `SendsStream` says the rest: every byte is under its own number,
and nothing is lost on connections without such a FIN.

### Bounds and why they are enough

| bound | value | why |
|---|---|---|
| `MAX_THREADS` | 3 (8 in the library) | thread 0 is special; two more compete for a slot, a mutex and the core, and the third slot wraps the scan. The firmware has three threads. With two the second waiter of `Mutex_lost_wakeup` is missing |
| `DEFAULT_TICKS` | 0, in `Mutex` 1 | at 0 a thread may lose the core at every step, which is the hardest case; 1 exercises the count |
| `MAX_NEST`, `MAX_COUNT` | 2, 2 | a scope inside a scope; slots are freed by ends and kills and taken again, and a kill leaves `thread_count` above the threads there are |
| `TIMEOUTS` | {0, 1}, {1} in `Threads` | no limit, and one that passes during any step; `wait` without one only waits longer, and the proofs of `Threads` have it |
| `CLOCK`, `PERIODS`, `LOOP_BOUND` | 8, <<5, 2>>, 3 | the clock wraps within two periods, a task is slower and one is faster than a round of the loop, and 5 + 3 = 8 meets the assumption with equality |
| `Registers` | {1, 2} | a byte left over from another register can be told from the right one |
| `MaxTransfer`, FIFO length | 2 bytes, 4 commands | register and value; the longest calls of the firmware's masters |
| `FAN_COUNT`, `LAST_ADDRESS` | 2, 2 (3 and 126) | the loops move on and wrap |
| `SOCKETS`, `SLOTS`, `ENTRIES` | 4, 3, 2 (12, 8 and 12 in the library) | one listening, two connected and one being opened. A request on a low slot is overtaken by later ones only when a third slot listens meanwhile: without `Overtaken` TLC finds `EveryRequestEnds` violated. A list of two runs full in the run, so that `begin` is refused: without `Refused` TLC finds `OneAnswer` and `KeepsListening` violated. The two other ways out of `KeepsListening` need a slot less (`SOCKETS` = 3, `SLOTS` = 2, resets of both browsers), where TLC finds all four needed and the properties true as well |
| `CLIENTS`, `Regulars`, `PIECES` | 2, 1, 2 | one browser served while another waits, one that returns standing for all that come later; a request cut in two |
| texts of `HttpParser_texts` | a handful of requests and all texts one character away (lost, added, changed) | every state of the parser is entered, and left both ways |
| `SEQ`, `HALF`, `ISS`, `IRS` | 64, 16, 61, 62 (2^32, 2^29) | both streams wrap after their first bytes; 2 * `HALF` < `SEQ` as in the code, and what is under way is below `HALF` |
| `SNDMSS`, `RCVMSS`, `RCVMAX`, `CWNDS` | 2, 2, 4, {2, 4} | a segment that is cut, a buffer of two segments, a congestion window of one or two |
| `MCLoads` | at most 3 bytes out, 6 in; windows {0, 4}, {1, 4}, {4} | a window that closes with bytes unsent, one below a segment, more received than the buffer holds, both directions at once |
| `SPEEDS` | {3799, 4100} | outside and inside the limits. At a limit boot and scan differ, and either answer is right |

`TaskManager` assumes that the loop comes round to each task within `LOOP_BOUND`
milliseconds and that a period and a round fit the clock (`TaskConstants`): with 5000 ms
and a 32-bit clock that leaves 49 days for a round.

### Fairness and why the code justifies it

* `SF(Tick)`, `WF(Millis)`: the timer and the clock are hardware and never stop. The
  tick is not synchronised with the code, so a thread that opens and closes scopes for
  ever cannot always be inside one when it comes; hence strong fairness.
* `SF` of a thread's steps: a thread runs when it has the core. It has it again and
  again, not continuously, so weak fairness would say nothing.
* `WF(Closes)`, `SF(LeavesOutermost)`, `SF(Unlock)`, `SF(CloseScope)`: callers leave their scopes
  and critical sections, as C++ scopes make them do.
* `MainFairSpec` has strong fairness of the tick and of thread 0 inside `lock()` only, and weak
  fairness of the end of a scope, since nobody takes the core from
  a thread with one open, but an `unlock` inside it, which starts the system again anyway: what `Mutex` says of thread 0 holds though the others stop in `lock()` or keep the mutex.
* `WF` of the calls, the interrupt, the port and the release of a stuck line in
  `TeensyI2CMaster`; nothing is assumed about faults except that, in `Recovers`, they
  end.
* `WF` of the steps of `web_loop` and of `Poll`: the thread gets the core again and again
  and stays at its step until it does (no step is disabled by another thread), the timer
  of FNET never stops. Nothing is assumed of the browsers: they may connect for ever, or stay
  connected and silent. `EveryRequestEnds` and `KeepsListening` therefore name what the browsers
  can do to them (serving later slots for ever; slots all taken, a list that is full), and
  promise the rest.
* `Prompt` in `I2CMaster`: an interrupt is served before the next event on the bus and
  before the thread goes on. A bit on the bus takes microseconds, and no code of the
  firmware masks interrupts for longer.

## 4. Theorems

Proved by TLAPS for every value of the constants that meets the named assumptions
(`ThreadConstants`, `ClientConstants`, `MutexConstants`, `TaskConstants`,
`FanConstants`, `FirmwareConstants`, `BusConstants`, `TcpConstants`, `SocketConstants`, `ServerConstants`, `AsksForUris`, `TextsOfChars`).
`SocketConstants` has that the browsers are finitely many, `ServerConstants` that there is
a socket more than slots: the server's table has 8 slots, and FNET 12 sockets.

* **`Firmware_proofs!WireIsNeverShared`, `TasksSettled`.** `WireIsExclusive` alone is
  not inductive: a state with thread 0 at the fan check and a task loop already running
  satisfies it and breaks it in a step. `IInv` says where every thread can be
  (`PlaceInv`), that no other thread exists while thread 0 may still call Wire or has the
  task loop to add, and that only one thread is in the task loop (`AloneInv`), that a
  thread inside a call is at a place that makes one (`CallInv`), and when the task is
  known to be added (`AddedInv`). The step from `addThread` needs that the first free slot has
  no thread in it, which is why `AloneInv` speaks of `FreeSlots`.
* **`Firmware_proofs!TypeCorrect`.** The places come from `IInv`; the rest (`DataOK`) is
  inductive alone, the loops over fans and addresses being the part that could leave its range.
* **`Mutex_proofs!TypeCorrect`, `MutexIsExclusive`, `MutexImplementsLock`.** `IInv` is
  `TypeOK`, the lock word against the threads in the critical section (`LockInv`), and a
  small fact about clocks (`TimeInv`). The refinement maps `owner` to the thread in the
  critical section; `LockInv` makes it unique, so that each step of the mutex is
  `Acquire`, `Release` or a stutter. With kills and scopes allowed.
* **`Mutex_proofs!RestartsOnlyWaiters`, `LeavesLockRunning`.** That the recorded waiter is
  stopped in `lock()` holds only because `yield` really gives the core away: `ScopeInv` says
  that a thread inside `lock()` has no `Suspend` scope open and that the system is started
  whenever such a thread has the core, `CoreInv` that a suspended thread other than thread 0
  has the core only between its suspension and that yield. The scan hands the core to thread 0 or a
  RUNNING thread (`DispatchedRuns`). With kills, scopes and time limits.
* **`Threads_proofs!TypeCorrect`, `PreemptionStays`, `StoppedThreadsRest`.** `thread_count` is
  decremented whenever a thread function returns, and `addThread` reuses the slots of killed
  threads, so that the count is never negative needs `CountInv`: it is at least the number of
  threads that may still return. A kill leaves it too high, never too low. `PreemptionStays`
  follows from the invariant of the scopes, `StoppedThreadsRest` from `DispatchedRuns`.
* **`Threads_proofs!ScopesAreExclusive`.** Inductive through `ScopesOf`: a thread with a
  scope open has the core, the system is not started, and only its outermost scope
  recorded a started one. This is where `addThread`, which stops and starts the system by itself,
  could break a scope, and does not.
* **`Threads_proofs!NextThreadIsSlot`** and the lemmas beside it: the scan returns a slot,
  `yield`, the tick and the flags keep their types. `Mutex_proofs` and `Firmware_proofs` begin
  with the ones they cite, since each extends its own module of callers of the scheduler.
* **`FnetTcp_proofs!SizeIsDistance`, `HitIsInterval`, `GreaterIsAhead`, `OrderOfPositions`.** The
  comparisons of `fnet_tcp.c` are the order of the positions in the stream wherever the
  numbers wrap, as long as two positions are at most `HALF` apart and 2 * `HALF` < `SEQ`.
  The run has one size of the number space; these have them all.
* **`FnetTcp_proofs!TypeCorrect`, `ReceivedAsSent`, `SentAsWritten`, `NobodyStalls`.** The four
  invariants of the run, for every number space, buffer, segment size, set of windows and load that
  stays below `HALF`. None of them is inductive. `Inv` has three stages (`Handshake`,
  `Established`, `Closed`) and says of an established connection, position by position:
  - `Window`: the last acknowledgement, the edge of the window that the peer was told and what
    waits to be read fit the receive buffer together. That the buffer is never overrun
    depends on what was announced once and cannot be taken back, so the edge is a history variable.
  - `Opens`: what the window lacks of the free buffer is less than half of it, which is what
    `_fnet_tcp_get_rcvwnd` holds back, and the rest is what was read without an
    acknowledgement. This is what makes `NeverStalls` true of the receiving side.
  - `Stream`: what the application got are the first bytes of the peer's stream, and each kept
    segment has bytes of that stream below the edge under its number; `KeptSegs` says so
    whatever order they came in and however they overlap.
  - `Positions`: the acknowledged, the next and the highest position in this order, at most one
    behind the FIN; the send buffer has what is between what was acknowledged and what was
    written. `OutOK` says the same of every segment that is under way.
  - `Timers`: the persist timer runs only while bytes wait, and while something was sent and
    not acknowledged the retransmission timer does. Without it `Waits`, which is
    `NeverStalls` for the sending side, is not kept: turning one timer off has to
    know why the other one runs.
  - `Phase`: the state follows from the FIN received and the shutdown; `Called`: shutdown and
    close are one call. `Heard` relates the control block to the peer: what
    was acknowledged it has, and its FIN is one that was sent behind what it has.

  Each function of the code has a lemma that says what it does to each of these (`Emit...`,
  `Dataseg...`, `Anydata...`, `AddInpbuf...`, `Dataprocess...`, `Inputsk...`), whatever it is called
  with, and each action cites those of the functions it calls. The loops of the code are recursive functions
  over the number of a turn (`SendTurn`, `MoveTurn`, `SndTurn`), and what a turn keeps holds
  after all of them by `Climbs`, the least number principle for a set of turns. `SentAsWritten` keeps the
  hypothesis of `SendsStream` (no FIN went out early), since `FnetTcp_fin` shows that
  one may. TLC finds `Inv` true in every state of the run of `FnetTcp` when it is
  asked for it (`MCFnetTcp` and `FnetTcp_proofs` extended by one module).
* **`TaskManager_proofs!TypeCorrect`, `PeriodIsKept`, `TasksArePunctual`, `FirstWaitIsBounded`.** The difference
  of two readings is the time that passed only while that is below `CLOCK`. `RanInv`
  says so for a task that has run, `FreshInv` bounds it for one that has not, whose
  start value is arbitrary; `LOOP_BOUND` is what keeps the difference from wrapping
  unseen. `FirstWaitIsBounded` is what is left of the promise of an instant first run: a
  task that has not run waits at most a period and two rounds of the loop.

* **`WebServer_proofs!EverySocketHasOneOwner`.** That no two slots share a socket (`OneOwner`) needs
  to know of every socket in use where it belongs: `Owners` says that it is in a slot, or waits
  alone, accepted by a listening socket and not yet taken by `poll`. That in turn needs
  that one slot listens at most and where the thread is in `begin` when none does
  (`OneListens`), and what the thread still uses between two steps, while `poll` exchanges the
  socket under it (`Uses`). `poll` registers a listening socket again after it handed one
  to a connection: that a free one exists is a pigeonhole, at least one socket more than slots.
* **`WebServer_proofs!ResetsCostTheSlots`.** `CInv` adds whose connection each socket holds
  (`Connections`) and bounds all closed sockets that are still in a slot (`Closed`, of which
  the lost slots are a part) by the browsers that left, since each step that closes one
  from the far end is a browser leaving, and one browser has one connection.
* **`WebServer_proofs!PeaceLosesNothing`.** While no browser ends its side, no socket is in
  `SS_CLOSING`, the slot that the thread serves stays connected and FNET's last error never is
  `NOTCONN` (`Peace`), so that the test of it in `available` does no harm.
* **`WebServer_proofs!TypeCorrect`.** What a browser sent is a prefix of its request and what it
  was told are pieces of one answer only while the bytes a socket received are those its browser
  sent (`Received`), also when the browser ended and the slot got another socket. `Locals` types
  what the thread carries from step to step, the found slot and the text it read.
* **`WebServer_proofs!EveryAnswerIsOne`, `WholeWhileRegistered`.** An answer is three steps
  (head, body, stop), and between them `poll` may give the slot away. `Reading` relates the
  request in the thread's hands to the socket it came from, `Answers` what each browser was told
  to the place of the thread, and `Dropping` says that `available`, about to disconnect a socket
  in `CLOSE_WAIT`, has no connection in hand that could still be answered. What remains is the
  disconnection in `begin`, when FNET's list of services is full: the slot may then hold
  a socket that `poll` just accepted, and the browser hears the goodbye without an answer. This
  is the exception that `OneAnswer` names (`Refused`), and `EveryAnswerIsOne` needs no hypothesis
  for it; `WholeWhileRegistered` has the behaviours in which it does not occur.
* **`WebServer_proofs!ConnectionsCostTheEntries`.** The list does fill up (section 5), and this is
  how fast: it never holds more entries than browsers that have connected, and one more
  (`EntriesLostToConnections`). `Room` counts the entries against the connections that came by the
  place of the thread in `begin`, where `poll` may take the wrong entry out or none.
* **`TeensyI2CMaster_proofs!TypeCorrect`.** That the queue of commands never holds more than four
  and a received byte always has a buffer of one is no matter of types alone. `Shape` says that
  the buffer is as long as the driver takes it for, and one byte long while a RECEIVE is
  queued or its byte has come; `RoomLeft` says what start() left in the queue for the rest of a call,
  although the routine may run in between; `OnBus` counts the acknowledges against the
  bytes sent. Every entry of the interrupt routine is taken apart into its four groups
  (`RoutineParts`, `RoutineOk`), each a lemma on what it does to a pair of driver and port.
  These hold also when the thread was switched away.
* **`TeensyI2CMaster_proofs!ResultsAreHonest`, `ReadsAreHonest`.** What the driver says of a
  transmission depends on its state, the queue, the flags and the bus together, so the invariant
  (`Honest`) lists the stages a transmission goes through while the thread was never switched away
  between start() and the rest of a call: `Clean` and `Failed` between two of them, `Armed` after start(),
  `Probing`, `Sending` and `Receiving` with the commands that are left and the
  acknowledges that came, and `Failing` while an error flag waits for the routine. `Told`
  carries what endTransmission said to the read that follows: after a 0 the device points to the register.
  A write's stage ends only with every byte acknowledged, and an `address_nak` is stored only when
  nothing was. The hypothesis `~switched` is needed: `TeensyI2CMaster_preempted` shows what
  happens without it.

* **`HttpParser_proofs!FramesAreWhole`.** `CompleteIsFramed` speaks of a parser that is through;
  the invariant (`Sound`) says what it knows on the way, by the part of the request its state
  belongs to (`Stage`): in the states around a newline, how much of an empty line the last
  characters were; in the head, that the size is that of the last Content-Length whose line has
  ended (`Says`), also while a later header grows or a folded line makes the value longer than
  the one that was read; in `Post`, that size and content together make what was announced. TLC
  agreed to `Sound` on all states of the run. Nothing is assumed of the texts but that they are
  sequences of characters, so damage is of any kind and number. The size is counted down to 1
  from what `atoi` read, and that this is a number at all is an induction over the turns of its
  loop, by the least turn that breaks it (`Climbs`), as for the loops of FNET.

Model-checked only: every liveness property (`EveryThreadRuns`, `TimedWaitReturns`,
`MainTakesFreeMutex`, `MainTimedLockReturns`, `EveryTaskRuns`, `Recovers`,
`EveryFanIsScanned`, `LedBlinks`, `FanIsControlled`, `KeepsListening`, `EveryRequestEnds`),
which are outside what TLAPS does here; and the parser's `RoundTrip`, which compares a request
with the text it was written as: how a request is written is data of the instance
(`MCHttpParser`), and a proof would be an induction over that writing.

## 5. What the properties do not say

* `FanIsControlled` holds while `fan_begun` is FALSE. Once boot has set it, the scan
  never commands the controller again, whether or not the commands at boot got through
  and even if the backplane lost power later.
* `ReadHonest` is about reads whose register write succeeded. `TeensyI2CMaster::read`
  ignores that result; if the write failed the byte is of another register and the
  status is still 0.
* What the model has of `Mutex` beside the properties that hold: the test of `waitthread`
  (`CheckWaiter`) is not in the critical region of `Enroll`, so two threads may suspend
  themselves and only the last is recorded (`Mutex_lost_wakeup`); the time limit of `lock` is tested by the
  thread that is suspended, so it ends a wait only in thread 0; `UnlockWakes` restarts the
  recorded thread also after a `kill`, hands the core to the next slot of the round robin
  and not to the waiter, and starts the system inside a `Suspend` scope, where another
  thread runs with the scope open (no property forbids it). Mutual exclusion
  holds through all of it.
* `wait` returns for every state that is not RUNNING (`WaitReturns`), so also for a thread
  that is only suspended. A refused `read_async` leaves the count of an earlier transfer
  (`startFails`), and `requestFrom` reports it.
* A browser that resets at the wrong moment costs the server one slot for good
  (`SlotsLostToResets` counts them, and says that nothing else costs one): after
  eight of them no connection is accepted until a restart.
* `begin` marks the slot as listening before it stores the entry of `poll` in
  `service_descriptor` (`NativeEthernetServer.cpp:32-37`). When `poll` accepts in between, it
  unregisters an old number, and one entry is never given back. The library's list has 12
  entries; once they are used up `begin` is refused, disconnects whoever `poll` put into its
  slot unanswered, and listens no more. With two entries three connections are enough for it,
  none of them reset. `OneAnswer` and `KeepsListening` name this as an exception, `WholeWhileRegistered` is about
  the time before, and `EntriesLostToConnections` says that only connections cost entries.
* `available` returns the last slot with data (`NativeEthernetServer.cpp:64`), so a request on a
  lower slot waits for as long as new ones keep coming on later slots. `EveryRequestEnds` has this
  as its only exception (`Overtaken`).
* `WebServer` parses what its first read returns. A request in two pieces is answered 500
  when the second comes late, and a browser that closed its sending side after the request
  gets nothing back, since `poll` closes the socket for it. When FNET's last error is one of
  another socket's, a read comes back empty and the answer is 500 as well.
* The parser reads the content length with `atoi`, so a negative one is a body that never
  ends (the conversion is modelled for the values in the texts).
* Of TCP the model has, beside its properties: the segment that "Delete the repeated segment"
  drops leaves the count of the temporary buffer wrong, by the size of the segment behind it
  or of whatever a null pointer leads to (`fnet_tcp.c:2350-2355`); the delayed acknowledgement
  is never armed, as its flag is tested before it is set (`1922-1926`); a FIN stays on a
  segment whose right part was cut off (`1460-1470`); a call that waits for a window leaves
  `INSND` set (`912-921`); `LAST_ACK` with more than a segment unacknowledged is ended by a timer,
  since only an acknowledgement of everything is looked at (`1856-1864`).
* `Punctual` is about tasks that have run. A first run is not instant (`TaskManager_instant`),
  and how long it may take is `FirstWaitIsBounded`.
* The heap of FNET, addresses in use at `bind`, sockets that linger after `close` and the
  statuses of handlers other than 200, 404 and 500 are left out; `disconnect` closes and
  forgets a socket in one step. `web_loop` is not started by `setup()`
  (`main.cpp:66-72`, `89-100` are commented out), so `WebServer` is a model of a part that
  waits for its network, not of what runs today.
* A slot table that is full before the system was first started leaves it stopped for
  good (`ActiveAfterFailedAdd`). The firmware adds two threads to eight slots.

## 6. Plan

Done: the scheduler and everything that runs on it today, from `setup()` down to the
interrupt routine; the web server's path from the TCP segments over the sockets and the
server to the request parser and the answers; the theorems above.

Left, in the order of their worth:

1. `Threads::delay`, `idle`, `sleep` and time slices: the walk of `idle` by `thread_count`, the signed
   difference in `delay`.
2. TCP from the client's side, and UDP with DHCP, once the network is started by `setup()` again.
3. `StringUtil::ReplaceAll` against a reference definition, once something other than
   debugging calls it.
