------------------------ MODULE TeensyI2CMaster_proofs ------------------------
(***************************************************************************)
(* What endTransmission and read tell is true unless the thread was ever   *)
(* switched away between start() and the rest of a call: for any registers *)
(* and faults on the bus and any timing of the interrupt routine and the   *)
(* port.  The types come first; the stages of a transaction, one invariant *)
(* for what driver, port and bus are in together, come after them.         *)
(***************************************************************************)
EXTENDS TeensyI2CMaster, TLAPS

\* Records with the fields of the driver and of the port, and no others.
IsDrv(d) == d = [state |-> d.state, error |-> d.error, ignore_tdf |-> d.ignore_tdf,
                 data |-> d.data, size |-> d.size, next |-> d.next,
                 read_buffer |-> d.read_buffer]
IsPort(p) == p = [fifo |-> p.fifo, msr |-> p.msr, rx |-> p.rx, tdie |-> p.tdie]

\* What the routines of the driver take and return.
IsCell(c) == c = [drv |-> c.drv, port |-> c.port] /\ IsDrv(c.drv) /\ IsPort(c.port)

\* The assignments they make.
SetState(c, x) == [c EXCEPT !.drv.state = x]
SetError(c, x) == [c EXCEPT !.drv.error = x]
SetIgnore(c, x) == [c EXCEPT !.drv.ignore_tdf = x]
SetData(c, x) == [c EXCEPT !.drv.data = x]
SetNext(c, x) == [c EXCEPT !.drv.next = x]
SetBuffer(c, x) == [c EXCEPT !.drv.read_buffer = x]
SetFifo(c, x) == [c EXCEPT !.port.fifo = x]
SetMsr(c, x) == [c EXCEPT !.port.msr = x]
SetRx(c, x) == [c EXCEPT !.port.rx = x]
SetTdie(c, x) == [c EXCEPT !.port.tdie = x]

\* The routine asks for no empty queue; it is not to fill the queue.
TdieOff(c) == c.port.tdie = FALSE
Reads(c) == c.drv.ignore_tdf

\* Each changes the one field.
LEMMA SetStateIs ==
    ASSUME NEW c, IsCell(c), NEW x
    PROVE  /\ IsCell(SetState(c, x)) /\ SetState(c, x).port = c.port
           /\ SetState(c, x).drv.state = x /\ SetState(c, x).drv.error = c.drv.error
           /\ SetState(c, x).drv.ignore_tdf = c.drv.ignore_tdf /\ SetState(c, x).drv.data = c.drv.data
           /\ SetState(c, x).drv.size = c.drv.size /\ SetState(c, x).drv.next = c.drv.next
           /\ SetState(c, x).drv.read_buffer = c.drv.read_buffer
<1>1. PICK d, e : d = c.drv /\ e = [d EXCEPT !.state = x]
  OBVIOUS
<1>2. PICK st, er, ig, da, si, ne, rb :
        d = [state |-> st, error |-> er, ignore_tdf |-> ig, data |-> da, size |-> si, next |-> ne, read_buffer |-> rb]
  BY <1>1 DEF IsCell, IsDrv
<1>3. e = [state |-> x, error |-> er, ignore_tdf |-> ig, data |-> da, size |-> si, next |-> ne, read_buffer |-> rb]
  BY <1>1, <1>2
<1>4. SetState(c, x) = [drv |-> e, port |-> c.port]
  <2>1. PICK a, b : c = [drv |-> a, port |-> b] /\ c.drv = a /\ c.port = b
    BY DEF IsCell
  <2>2. [c EXCEPT !.drv = e] = [drv |-> e, port |-> b]
    BY <2>1
  <2> QED BY <1>1, <2>1, <2>2, Zenon DEF SetState
<1>5. SetState(c, x).drv = e /\ SetState(c, x).port = c.port
  BY <1>4
<1>6. e.state = x /\ e.error = d.error /\ e.ignore_tdf = d.ignore_tdf /\ e.data = d.data /\ e.size = d.size /\ e.next = d.next /\ e.read_buffer = d.read_buffer /\ IsDrv(e)
  BY <1>2, <1>3 DEF IsDrv
<1> QED BY <1>1, <1>4, <1>5, <1>6 DEF IsCell

\* Writing the error leaves the other fields.
LEMMA SetErrorIs ==
    ASSUME NEW c, IsCell(c), NEW x
    PROVE  /\ IsCell(SetError(c, x)) /\ SetError(c, x).port = c.port
           /\ SetError(c, x).drv.state = c.drv.state /\ SetError(c, x).drv.error = x
           /\ SetError(c, x).drv.ignore_tdf = c.drv.ignore_tdf /\ SetError(c, x).drv.data = c.drv.data
           /\ SetError(c, x).drv.size = c.drv.size /\ SetError(c, x).drv.next = c.drv.next
           /\ SetError(c, x).drv.read_buffer = c.drv.read_buffer
<1>1. PICK d, e : d = c.drv /\ e = [d EXCEPT !.error = x]
  OBVIOUS
<1>2. PICK st, er, ig, da, si, ne, rb :
        d = [state |-> st, error |-> er, ignore_tdf |-> ig, data |-> da, size |-> si, next |-> ne, read_buffer |-> rb]
  BY <1>1 DEF IsCell, IsDrv
<1>3. e = [state |-> st, error |-> x, ignore_tdf |-> ig, data |-> da, size |-> si, next |-> ne, read_buffer |-> rb]
  BY <1>1, <1>2
<1>4. SetError(c, x) = [drv |-> e, port |-> c.port]
  <2>1. PICK a, b : c = [drv |-> a, port |-> b] /\ c.drv = a /\ c.port = b
    BY DEF IsCell
  <2>2. [c EXCEPT !.drv = e] = [drv |-> e, port |-> b]
    BY <2>1
  <2> QED BY <1>1, <2>1, <2>2, Zenon DEF SetError
<1>5. SetError(c, x).drv = e /\ SetError(c, x).port = c.port
  BY <1>4
<1>6. e.state = d.state /\ e.error = x /\ e.ignore_tdf = d.ignore_tdf /\ e.data = d.data /\ e.size = d.size /\ e.next = d.next /\ e.read_buffer = d.read_buffer /\ IsDrv(e)
  BY <1>2, <1>3 DEF IsDrv
<1> QED BY <1>1, <1>4, <1>5, <1>6 DEF IsCell

\* Writing ignore_tdf leaves the other fields.
LEMMA SetIgnoreIs ==
    ASSUME NEW c, IsCell(c), NEW x
    PROVE  /\ IsCell(SetIgnore(c, x)) /\ SetIgnore(c, x).port = c.port
           /\ SetIgnore(c, x).drv.state = c.drv.state /\ SetIgnore(c, x).drv.error = c.drv.error
           /\ SetIgnore(c, x).drv.ignore_tdf = x /\ SetIgnore(c, x).drv.data = c.drv.data
           /\ SetIgnore(c, x).drv.size = c.drv.size /\ SetIgnore(c, x).drv.next = c.drv.next
           /\ SetIgnore(c, x).drv.read_buffer = c.drv.read_buffer
<1>1. PICK d, e : d = c.drv /\ e = [d EXCEPT !.ignore_tdf = x]
  OBVIOUS
<1>2. PICK st, er, ig, da, si, ne, rb :
        d = [state |-> st, error |-> er, ignore_tdf |-> ig, data |-> da, size |-> si, next |-> ne, read_buffer |-> rb]
  BY <1>1 DEF IsCell, IsDrv
<1>3. e = [state |-> st, error |-> er, ignore_tdf |-> x, data |-> da, size |-> si, next |-> ne, read_buffer |-> rb]
  BY <1>1, <1>2
<1>4. SetIgnore(c, x) = [drv |-> e, port |-> c.port]
  <2>1. PICK a, b : c = [drv |-> a, port |-> b] /\ c.drv = a /\ c.port = b
    BY DEF IsCell
  <2>2. [c EXCEPT !.drv = e] = [drv |-> e, port |-> b]
    BY <2>1
  <2> QED BY <1>1, <2>1, <2>2, Zenon DEF SetIgnore
<1>5. SetIgnore(c, x).drv = e /\ SetIgnore(c, x).port = c.port
  BY <1>4
<1>6. e.state = d.state /\ e.error = d.error /\ e.ignore_tdf = x /\ e.data = d.data /\ e.size = d.size /\ e.next = d.next /\ e.read_buffer = d.read_buffer /\ IsDrv(e)
  BY <1>2, <1>3 DEF IsDrv
<1> QED BY <1>1, <1>4, <1>5, <1>6 DEF IsCell

\* Writing the data of the buffer leaves the other fields.
LEMMA SetDataIs ==
    ASSUME NEW c, IsCell(c), NEW x
    PROVE  /\ IsCell(SetData(c, x)) /\ SetData(c, x).port = c.port
           /\ SetData(c, x).drv.state = c.drv.state /\ SetData(c, x).drv.error = c.drv.error
           /\ SetData(c, x).drv.ignore_tdf = c.drv.ignore_tdf /\ SetData(c, x).drv.data = x
           /\ SetData(c, x).drv.size = c.drv.size /\ SetData(c, x).drv.next = c.drv.next
           /\ SetData(c, x).drv.read_buffer = c.drv.read_buffer
<1>1. PICK d, e : d = c.drv /\ e = [d EXCEPT !.data = x]
  OBVIOUS
<1>2. PICK st, er, ig, da, si, ne, rb :
        d = [state |-> st, error |-> er, ignore_tdf |-> ig, data |-> da, size |-> si, next |-> ne, read_buffer |-> rb]
  BY <1>1 DEF IsCell, IsDrv
<1>3. e = [state |-> st, error |-> er, ignore_tdf |-> ig, data |-> x, size |-> si, next |-> ne, read_buffer |-> rb]
  BY <1>1, <1>2
<1>4. SetData(c, x) = [drv |-> e, port |-> c.port]
  <2>1. PICK a, b : c = [drv |-> a, port |-> b] /\ c.drv = a /\ c.port = b
    BY DEF IsCell
  <2>2. [c EXCEPT !.drv = e] = [drv |-> e, port |-> b]
    BY <2>1
  <2> QED BY <1>1, <2>1, <2>2, Zenon DEF SetData
<1>5. SetData(c, x).drv = e /\ SetData(c, x).port = c.port
  BY <1>4
<1>6. e.state = d.state /\ e.error = d.error /\ e.ignore_tdf = d.ignore_tdf /\ e.data = x /\ e.size = d.size /\ e.next = d.next /\ e.read_buffer = d.read_buffer /\ IsDrv(e)
  BY <1>2, <1>3 DEF IsDrv
<1> QED BY <1>1, <1>4, <1>5, <1>6 DEF IsCell

\* Writing the count of the buffer leaves the other fields.
LEMMA SetNextIs ==
    ASSUME NEW c, IsCell(c), NEW x
    PROVE  /\ IsCell(SetNext(c, x)) /\ SetNext(c, x).port = c.port
           /\ SetNext(c, x).drv.state = c.drv.state /\ SetNext(c, x).drv.error = c.drv.error
           /\ SetNext(c, x).drv.ignore_tdf = c.drv.ignore_tdf /\ SetNext(c, x).drv.data = c.drv.data
           /\ SetNext(c, x).drv.size = c.drv.size /\ SetNext(c, x).drv.next = x
           /\ SetNext(c, x).drv.read_buffer = c.drv.read_buffer
<1>1. PICK d, e : d = c.drv /\ e = [d EXCEPT !.next = x]
  OBVIOUS
<1>2. PICK st, er, ig, da, si, ne, rb :
        d = [state |-> st, error |-> er, ignore_tdf |-> ig, data |-> da, size |-> si, next |-> ne, read_buffer |-> rb]
  BY <1>1 DEF IsCell, IsDrv
<1>3. e = [state |-> st, error |-> er, ignore_tdf |-> ig, data |-> da, size |-> si, next |-> x, read_buffer |-> rb]
  BY <1>1, <1>2
<1>4. SetNext(c, x) = [drv |-> e, port |-> c.port]
  <2>1. PICK a, b : c = [drv |-> a, port |-> b] /\ c.drv = a /\ c.port = b
    BY DEF IsCell
  <2>2. [c EXCEPT !.drv = e] = [drv |-> e, port |-> b]
    BY <2>1
  <2> QED BY <1>1, <2>1, <2>2, Zenon DEF SetNext
<1>5. SetNext(c, x).drv = e /\ SetNext(c, x).port = c.port
  BY <1>4
<1>6. e.state = d.state /\ e.error = d.error /\ e.ignore_tdf = d.ignore_tdf /\ e.data = d.data /\ e.size = d.size /\ e.next = x /\ e.read_buffer = d.read_buffer /\ IsDrv(e)
  BY <1>2, <1>3 DEF IsDrv
<1> QED BY <1>1, <1>4, <1>5, <1>6 DEF IsCell

\* Writing the caller's byte leaves the other fields.
LEMMA SetBufferIs ==
    ASSUME NEW c, IsCell(c), NEW x
    PROVE  /\ IsCell(SetBuffer(c, x)) /\ SetBuffer(c, x).port = c.port
           /\ SetBuffer(c, x).drv.state = c.drv.state /\ SetBuffer(c, x).drv.error = c.drv.error
           /\ SetBuffer(c, x).drv.ignore_tdf = c.drv.ignore_tdf /\ SetBuffer(c, x).drv.data = c.drv.data
           /\ SetBuffer(c, x).drv.size = c.drv.size /\ SetBuffer(c, x).drv.next = c.drv.next
           /\ SetBuffer(c, x).drv.read_buffer = x
<1>1. PICK d, e : d = c.drv /\ e = [d EXCEPT !.read_buffer = x]
  OBVIOUS
<1>2. PICK st, er, ig, da, si, ne, rb :
        d = [state |-> st, error |-> er, ignore_tdf |-> ig, data |-> da, size |-> si, next |-> ne, read_buffer |-> rb]
  BY <1>1 DEF IsCell, IsDrv
<1>3. e = [state |-> st, error |-> er, ignore_tdf |-> ig, data |-> da, size |-> si, next |-> ne, read_buffer |-> x]
  BY <1>1, <1>2
<1>4. SetBuffer(c, x) = [drv |-> e, port |-> c.port]
  <2>1. PICK a, b : c = [drv |-> a, port |-> b] /\ c.drv = a /\ c.port = b
    BY DEF IsCell
  <2>2. [c EXCEPT !.drv = e] = [drv |-> e, port |-> b]
    BY <2>1
  <2> QED BY <1>1, <2>1, <2>2, Zenon DEF SetBuffer
<1>5. SetBuffer(c, x).drv = e /\ SetBuffer(c, x).port = c.port
  BY <1>4
<1>6. e.state = d.state /\ e.error = d.error /\ e.ignore_tdf = d.ignore_tdf /\ e.data = d.data /\ e.size = d.size /\ e.next = d.next /\ e.read_buffer = x /\ IsDrv(e)
  BY <1>2, <1>3 DEF IsDrv
<1> QED BY <1>1, <1>4, <1>5, <1>6 DEF IsCell

\* Writing the command queue leaves the driver and the other registers.
LEMMA SetFifoIs ==
    ASSUME NEW c, IsCell(c), NEW x
    PROVE  /\ IsCell(SetFifo(c, x)) /\ SetFifo(c, x).drv = c.drv
           /\ SetFifo(c, x).port.fifo = x /\ SetFifo(c, x).port.msr = c.port.msr
           /\ SetFifo(c, x).port.rx = c.port.rx /\ SetFifo(c, x).port.tdie = c.port.tdie
<1>1. PICK d, e : d = c.port /\ e = [d EXCEPT !.fifo = x]
  OBVIOUS
<1>2. PICK fi, ms, rx, td :
        d = [fifo |-> fi, msr |-> ms, rx |-> rx, tdie |-> td]
  BY <1>1 DEF IsCell, IsPort
<1>3. e = [fifo |-> x, msr |-> ms, rx |-> rx, tdie |-> td]
  BY <1>1, <1>2
<1>4. SetFifo(c, x) = [drv |-> c.drv, port |-> e]
  <2>1. PICK a, b : c = [drv |-> a, port |-> b] /\ c.drv = a /\ c.port = b
    BY DEF IsCell
  <2>2. [c EXCEPT !.port = e] = [drv |-> a, port |-> e]
    BY <2>1
  <2> QED BY <1>1, <2>1, <2>2, Zenon DEF SetFifo
<1>5. SetFifo(c, x).port = e /\ SetFifo(c, x).drv = c.drv
  BY <1>4
<1>6. e.fifo = x /\ e.msr = d.msr /\ e.rx = d.rx /\ e.tdie = d.tdie /\ IsPort(e)
  BY <1>2, <1>3 DEF IsPort
<1> QED BY <1>1, <1>4, <1>5, <1>6 DEF IsCell

\* Writing the flags leaves the driver and the other registers.
LEMMA SetMsrIs ==
    ASSUME NEW c, IsCell(c), NEW x
    PROVE  /\ IsCell(SetMsr(c, x)) /\ SetMsr(c, x).drv = c.drv
           /\ SetMsr(c, x).port.fifo = c.port.fifo /\ SetMsr(c, x).port.msr = x
           /\ SetMsr(c, x).port.rx = c.port.rx /\ SetMsr(c, x).port.tdie = c.port.tdie
<1>1. PICK d, e : d = c.port /\ e = [d EXCEPT !.msr = x]
  OBVIOUS
<1>2. PICK fi, ms, rx, td :
        d = [fifo |-> fi, msr |-> ms, rx |-> rx, tdie |-> td]
  BY <1>1 DEF IsCell, IsPort
<1>3. e = [fifo |-> fi, msr |-> x, rx |-> rx, tdie |-> td]
  BY <1>1, <1>2
<1>4. SetMsr(c, x) = [drv |-> c.drv, port |-> e]
  <2>1. PICK a, b : c = [drv |-> a, port |-> b] /\ c.drv = a /\ c.port = b
    BY DEF IsCell
  <2>2. [c EXCEPT !.port = e] = [drv |-> a, port |-> e]
    BY <2>1
  <2> QED BY <1>1, <2>1, <2>2, Zenon DEF SetMsr
<1>5. SetMsr(c, x).port = e /\ SetMsr(c, x).drv = c.drv
  BY <1>4
<1>6. e.fifo = d.fifo /\ e.msr = x /\ e.rx = d.rx /\ e.tdie = d.tdie /\ IsPort(e)
  BY <1>2, <1>3 DEF IsPort
<1> QED BY <1>1, <1>4, <1>5, <1>6 DEF IsCell

\* Writing the receive queue leaves the driver and the other registers.
LEMMA SetRxIs ==
    ASSUME NEW c, IsCell(c), NEW x
    PROVE  /\ IsCell(SetRx(c, x)) /\ SetRx(c, x).drv = c.drv
           /\ SetRx(c, x).port.fifo = c.port.fifo /\ SetRx(c, x).port.msr = c.port.msr
           /\ SetRx(c, x).port.rx = x /\ SetRx(c, x).port.tdie = c.port.tdie
<1>1. PICK d, e : d = c.port /\ e = [d EXCEPT !.rx = x]
  OBVIOUS
<1>2. PICK fi, ms, rx, td :
        d = [fifo |-> fi, msr |-> ms, rx |-> rx, tdie |-> td]
  BY <1>1 DEF IsCell, IsPort
<1>3. e = [fifo |-> fi, msr |-> ms, rx |-> x, tdie |-> td]
  BY <1>1, <1>2
<1>4. SetRx(c, x) = [drv |-> c.drv, port |-> e]
  <2>1. PICK a, b : c = [drv |-> a, port |-> b] /\ c.drv = a /\ c.port = b
    BY DEF IsCell
  <2>2. [c EXCEPT !.port = e] = [drv |-> a, port |-> e]
    BY <2>1
  <2> QED BY <1>1, <2>1, <2>2, Zenon DEF SetRx
<1>5. SetRx(c, x).port = e /\ SetRx(c, x).drv = c.drv
  BY <1>4
<1>6. e.fifo = d.fifo /\ e.msr = d.msr /\ e.rx = x /\ e.tdie = d.tdie /\ IsPort(e)
  BY <1>2, <1>3 DEF IsPort
<1> QED BY <1>1, <1>4, <1>5, <1>6 DEF IsCell

\* Writing the interrupt enable leaves the driver and the other registers.
LEMMA SetTdieIs ==
    ASSUME NEW c, IsCell(c), NEW x
    PROVE  /\ IsCell(SetTdie(c, x)) /\ SetTdie(c, x).drv = c.drv
           /\ SetTdie(c, x).port.fifo = c.port.fifo /\ SetTdie(c, x).port.msr = c.port.msr
           /\ SetTdie(c, x).port.rx = c.port.rx /\ SetTdie(c, x).port.tdie = x
<1>1. PICK d, e : d = c.port /\ e = [d EXCEPT !.tdie = x]
  OBVIOUS
<1>2. PICK fi, ms, rx, td :
        d = [fifo |-> fi, msr |-> ms, rx |-> rx, tdie |-> td]
  BY <1>1 DEF IsCell, IsPort
<1>3. e = [fifo |-> fi, msr |-> ms, rx |-> rx, tdie |-> x]
  BY <1>1, <1>2
<1>4. SetTdie(c, x) = [drv |-> c.drv, port |-> e]
  <2>1. PICK a, b : c = [drv |-> a, port |-> b] /\ c.drv = a /\ c.port = b
    BY DEF IsCell
  <2>2. [c EXCEPT !.port = e] = [drv |-> a, port |-> e]
    BY <2>1
  <2> QED BY <1>1, <2>1, <2>2, Zenon DEF SetTdie
<1>5. SetTdie(c, x).port = e /\ SetTdie(c, x).drv = c.drv
  BY <1>4
<1>6. e.fifo = d.fifo /\ e.msr = d.msr /\ e.rx = d.rx /\ e.tdie = x /\ IsPort(e)
  BY <1>2, <1>3 DEF IsPort
<1> QED BY <1>1, <1>4, <1>5, <1>6 DEF IsCell

-----------------------------------------------------------------------------
(***************************************************************************)
(* What the routines of the driver do to a cell.                           *)
(***************************************************************************)
LEMMA AbortIs ==
    ASSUME NEW c, IsCell(c), NEW r, r = abort_transaction_async(c)
    PROVE  /\ IsCell(r) /\ r.drv = c.drv /\ r.port.msr = c.port.msr
           /\ r.port.tdie = FALSE /\ r.port.rx = << >>
           /\ r.port.fifo = IF BusBusy /\ "SDF" \notin c.port.msr THEN <<STOP>> ELSE << >>
<1> DEFINE f == IF BusBusy /\ "SDF" \notin c.port.msr THEN <<STOP>> ELSE << >>
<1>1. r = SetFifo(SetRx(SetTdie(c, FALSE), << >>), f)
  BY DEF abort_transaction_async, SetFifo, SetRx, SetTdie
<1>2. PICK a : a = SetTdie(c, FALSE)
  OBVIOUS
<1>3. IsCell(a) /\ a.drv = c.drv /\ a.port.msr = c.port.msr /\ a.port.tdie = FALSE
  BY <1>2, SetTdieIs
<1>b. PICK b : b = SetRx(a, << >>)
  OBVIOUS
<1>4. IsCell(b) /\ b.drv = c.drv /\ b.port.msr = c.port.msr /\ b.port.tdie = FALSE
      /\ b.port.rx = << >>
  BY <1>b, <1>3, SetRxIs
<1>c. r = SetFifo(b, f)
  BY <1>1, <1>2, <1>b
<1> HIDE DEF f
<1>5. IsCell(r) /\ r.drv = c.drv /\ r.port.msr = c.port.msr /\ r.port.tdie = FALSE
      /\ r.port.rx = << >> /\ r.port.fifo = f
  BY <1>c, <1>4, SetFifoIs
<1> QED BY <1>5 DEF f

\* The same buffer, its count and the flag for the transmit branch.
SameBuffer(r, c) ==
    /\ r.drv.data = c.drv.data /\ r.drv.size = c.drv.size /\ r.drv.next = c.drv.next
    /\ r.drv.read_buffer = c.drv.read_buffer

\* What start() leaves when the previous transaction has not finished.
LEMMA RefusedIs ==
    ASSUME NEW c, IsCell(c), NEW r, r = Refused(c)
    PROVE  /\ IsCell(r) /\ r.drv.state = "idle" /\ r.drv.error = "master_not_ready"
           /\ r.drv.ignore_tdf = c.drv.ignore_tdf /\ SameBuffer(r, c)
           /\ r.port = abort_transaction_async(c).port
<1>1. r = SetState(SetError(abort_transaction_async(c), "master_not_ready"), "idle")
  BY DEF Refused, SetState, SetError
<1>2. PICK a, b : a = abort_transaction_async(c) /\ b = SetError(a, "master_not_ready")
                  /\ r = SetState(b, "idle")
  BY <1>1
<1>3. IsCell(a) /\ a.drv = c.drv
  BY <1>2, AbortIs
<1>4. IsCell(b) /\ b.port = a.port /\ b.drv.error = "master_not_ready"
      /\ b.drv.ignore_tdf = c.drv.ignore_tdf /\ SameBuffer(b, c)
  BY <1>2, <1>3, SetErrorIs DEF SameBuffer
<1>5. IsCell(r) /\ r.port = a.port /\ r.drv.state = "idle" /\ r.drv.error = "master_not_ready"
      /\ r.drv.ignore_tdf = c.drv.ignore_tdf /\ SameBuffer(r, c)
  BY <1>2, <1>4, SetStateIs DEF SameBuffer
<1> QED BY <1>2, <1>5

\* What start() leaves when a queue was not empty.
LEMMA NotEmptyIs ==
    ASSUME NEW c, IsCell(c), NEW reading, NEW r, r = NotEmpty(c, reading)
    PROVE  /\ IsCell(r) /\ r.drv.state = "starting" /\ r.drv.error = "master_fifos_not_empty"
           /\ r.drv.ignore_tdf = reading /\ SameBuffer(r, c)
           /\ r.port.msr = c.port.msr /\ TdieOff(r) /\ r.port.rx = << >>
           /\ r.port.fifo = IF BusBusy /\ "SDF" \notin c.port.msr THEN <<STOP>> ELSE << >>
<1>1. r = abort_transaction_async(
            SetError(SetState(SetIgnore(c, reading), "starting"), "master_fifos_not_empty"))
  BY DEF NotEmpty, SetState, SetError, SetIgnore
<1>2. PICK a, b, d : a = SetIgnore(c, reading) /\ b = SetState(a, "starting")
                     /\ d = SetError(b, "master_fifos_not_empty") /\ r = abort_transaction_async(d)
  BY <1>1
<1>3. IsCell(a) /\ a.port = c.port /\ a.drv.ignore_tdf = reading /\ SameBuffer(a, c)
  BY <1>2, SetIgnoreIs DEF SameBuffer
<1>4. IsCell(b) /\ b.port = c.port /\ b.drv.ignore_tdf = reading /\ SameBuffer(b, c)
      /\ b.drv.state = "starting"
  BY <1>2, <1>3, SetStateIs DEF SameBuffer
<1>5. IsCell(d) /\ d.port = c.port /\ d.drv.ignore_tdf = reading /\ SameBuffer(d, c)
      /\ d.drv.state = "starting" /\ d.drv.error = "master_fifos_not_empty"
  BY <1>2, <1>4, SetErrorIs DEF SameBuffer
<1>6. r = abort_transaction_async(d)
  BY <1>2
<1>7. IsCell(r) /\ r.drv = d.drv /\ r.port.msr = d.port.msr /\ r.port.tdie = FALSE
      /\ r.port.rx = << >>
      /\ r.port.fifo = IF BusBusy /\ "SDF" \notin d.port.msr THEN <<STOP>> ELSE << >>
  BY <1>5, <1>6, AbortIs
<1>8. TdieOff(r)
  BY <1>7 DEF TdieOff
<1> QED BY <1>5, <1>7, <1>8, Zenon DEF SameBuffer

\* What start() leaves when it went well.
LEMMA StartedIs ==
    ASSUME NEW c, IsCell(c), NEW reading, NEW r, r = Started(c, reading)
    PROVE  /\ IsCell(r) /\ r.drv.state = "starting" /\ r.drv.error = "ok"
           /\ r.drv.ignore_tdf = reading /\ SameBuffer(r, c)
           /\ r.port.msr = {} /\ r.port.tdie = c.port.tdie /\ r.port.rx = c.port.rx
           /\ r.port.fifo = <<START(reading)>>
<1>1. r = SetFifo(SetMsr(SetError(SetState(SetIgnore(c, reading), "starting"), "ok"), {}),
                  <<START(reading)>>)
  BY DEF Started, SetState, SetError, SetIgnore, SetMsr, SetFifo
<1>2. PICK a, b, d, e : a = SetIgnore(c, reading) /\ b = SetState(a, "starting")
                        /\ d = SetError(b, "ok") /\ e = SetMsr(d, {})
                        /\ r = SetFifo(e, <<START(reading)>>)
  BY <1>1
<1>3. IsCell(a) /\ a.port = c.port /\ a.drv.ignore_tdf = reading /\ SameBuffer(a, c)
  BY <1>2, SetIgnoreIs DEF SameBuffer
<1>4. IsCell(b) /\ b.port = c.port /\ b.drv.ignore_tdf = reading /\ SameBuffer(b, c)
      /\ b.drv.state = "starting"
  BY <1>2, <1>3, SetStateIs DEF SameBuffer
<1>5. IsCell(d) /\ d.port = c.port /\ d.drv.ignore_tdf = reading /\ SameBuffer(d, c)
      /\ d.drv.state = "starting" /\ d.drv.error = "ok"
  BY <1>2, <1>4, SetErrorIs DEF SameBuffer
<1>6. IsCell(e) /\ e.drv = d.drv /\ e.port.msr = {} /\ e.port.tdie = c.port.tdie
      /\ e.port.rx = c.port.rx
  BY <1>2, <1>5, SetMsrIs
<1>7. IsCell(r) /\ r.drv = d.drv /\ r.port.msr = {} /\ r.port.tdie = c.port.tdie
      /\ r.port.rx = c.port.rx /\ r.port.fifo = <<START(reading)>>
  BY <1>2, <1>6, SetFifoIs
<1> QED BY <1>5, <1>7 DEF SameBuffer

\* OnErrors: nothing to do, or the transaction is already ended, or it is aborted.
LEMMA ErrorSteps ==
    ASSUME NEW c, NEW msr
    PROVE  OnErrors(c, msr) =
             IF msr \intersect ErrorFlags = {} THEN c
             ELSE IF c.drv.state = "stopping"
             THEN SetMsr(SetError(c, ErrorOf(c, msr)), c.port.msr \ ErrorFlags)
             ELSE SetState(abort_transaction_async(
                             SetMsr(SetError(c, ErrorOf(c, msr)), c.port.msr \ ErrorFlags)), "stopping")
BY DEF OnErrors, SetError, SetMsr, SetState

\* Without an error flag the first group does nothing.
LEMMA NoErrors ==
    ASSUME NEW c, NEW msr, msr \intersect ErrorFlags = {}
    PROVE  OnErrors(c, msr) = c
BY ErrorSteps

\* Storing the error and clearing the flags, the start of that group.
LEMMA ErrorMarked ==
    ASSUME NEW c, IsCell(c), NEW error, NEW msr, NEW e, e = SetMsr(SetError(c, error), msr)
    PROVE  /\ IsCell(e) /\ SameBuffer(e, c) /\ e.drv.error = error
           /\ e.drv.ignore_tdf = c.drv.ignore_tdf /\ e.drv.state = c.drv.state
           /\ e.port.msr = msr /\ e.port.fifo = c.port.fifo /\ e.port.rx = c.port.rx
           /\ e.port.tdie = c.port.tdie
<1>1. PICK a : a = SetError(c, error)
  OBVIOUS
<1>2. IsCell(a) /\ a.port = c.port /\ SameBuffer(a, c) /\ a.drv.error = error
      /\ a.drv.ignore_tdf = c.drv.ignore_tdf /\ a.drv.state = c.drv.state
  BY <1>1, SetErrorIs DEF SameBuffer
<1>3. e = SetMsr(a, msr)
  BY <1>1
<1>4. IsCell(e) /\ e.drv = a.drv /\ e.port.msr = msr
      /\ e.port.fifo = c.port.fifo /\ e.port.rx = c.port.rx /\ e.port.tdie = c.port.tdie
  BY <1>2, <1>3, SetMsrIs
<1> QED BY <1>2, <1>4 DEF SameBuffer

\* An error while the driver is stopping is stored and nothing else.
LEMMA ErrorStopping ==
    ASSUME NEW c, IsCell(c), NEW msr, msr \intersect ErrorFlags # {}, c.drv.state = "stopping",
           NEW r, r = OnErrors(c, msr)
    PROVE  /\ IsCell(r) /\ SameBuffer(r, c) /\ r.drv.ignore_tdf = c.drv.ignore_tdf
           /\ r.drv.error = ErrorOf(c, msr) /\ r.drv.state = "stopping"
           /\ r.port.msr = c.port.msr \ ErrorFlags
           /\ r.port.fifo = c.port.fifo /\ r.port.rx = c.port.rx /\ r.port.tdie = c.port.tdie
<1>1. r = SetMsr(SetError(c, ErrorOf(c, msr)), c.port.msr \ ErrorFlags)
  BY ErrorSteps
<1>2. PICK m, x : m = c.port.msr \ ErrorFlags /\ x = ErrorOf(c, msr)
  OBVIOUS
<1>3. r = SetMsr(SetError(c, x), m)
  BY <1>1, <1>2
<1> QED BY <1>2, <1>3, ErrorMarked

\* Any other error resets the queues and makes the driver stop.
LEMMA ErrorAborts ==
    ASSUME NEW c, IsCell(c), NEW msr, msr \intersect ErrorFlags # {}, c.drv.state # "stopping",
           NEW r, r = OnErrors(c, msr)
    PROVE  /\ IsCell(r) /\ SameBuffer(r, c) /\ r.drv.ignore_tdf = c.drv.ignore_tdf
           /\ r.drv.error = ErrorOf(c, msr) /\ r.drv.state = "stopping"
           /\ r.port.msr = c.port.msr \ ErrorFlags
           /\ TdieOff(r) /\ r.port.rx = << >>
           /\ r.port.fifo = IF BusBusy /\ "SDF" \notin r.port.msr THEN <<STOP>> ELSE << >>
<1>1. PICK m, x : m = c.port.msr \ ErrorFlags /\ x = ErrorOf(c, msr)
  OBVIOUS
<1>2. PICK e : e = SetMsr(SetError(c, x), m)
  OBVIOUS
<1>3. /\ IsCell(e) /\ SameBuffer(e, c) /\ e.drv.error = x
      /\ e.drv.ignore_tdf = c.drv.ignore_tdf /\ e.port.msr = m
  BY <1>2, ErrorMarked
<1>4. PICK b : b = abort_transaction_async(e)
  OBVIOUS
<1>5. /\ IsCell(b) /\ b.drv = e.drv /\ b.port.msr = m
      /\ b.port.tdie = FALSE /\ b.port.rx = << >>
      /\ b.port.fifo = IF BusBusy /\ "SDF" \notin m THEN <<STOP>> ELSE << >>
  BY <1>3, <1>4, AbortIs
<1>6. r = SetState(b, "stopping")
  BY <1>1, <1>2, <1>4, ErrorSteps, Zenon
<1>7. /\ IsCell(r) /\ r.port = b.port /\ r.drv.state = "stopping" /\ SameBuffer(r, b)
      /\ r.drv.error = b.drv.error /\ r.drv.ignore_tdf = b.drv.ignore_tdf
  BY <1>5, <1>6, SetStateIs DEF SameBuffer
<1>8. TdieOff(r)
  BY <1>5, <1>7 DEF TdieOff
<1> QED BY <1>1, <1>3, <1>5, <1>7, <1>8 DEF SameBuffer

\* Without the flag of a STOP the second group does nothing.
LEMMA NoStop ==
    ASSUME NEW c, NEW msr, "SDF" \notin msr
    PROVE  OnStop(c, msr) = c
BY DEF OnStop

\* A STOP on the bus ends the transaction and keeps the error.
LEMMA StopSeen ==
    ASSUME NEW c, IsCell(c), NEW msr, "SDF" \in msr, NEW r, r = OnStop(c, msr)
    PROVE  /\ IsCell(r) /\ SameBuffer(r, c) /\ r.drv.ignore_tdf = c.drv.ignore_tdf
           /\ r.drv.error = c.drv.error /\ r.port.fifo = c.port.fifo /\ r.port.rx = c.port.rx
           /\ r.drv.state = "stopped" /\ TdieOff(r)
           /\ r.port.msr = c.port.msr \ {"SDF"}
<1>1. PICK a : a = SetTdie(c, FALSE)
  OBVIOUS
<1>2. IsCell(a) /\ a.drv = c.drv /\ a.port.fifo = c.port.fifo /\ a.port.rx = c.port.rx
      /\ a.port.msr = c.port.msr /\ a.port.tdie = FALSE
  BY <1>1, SetTdieIs
<1>3. PICK b : b = SetState(a, "stopped")
  OBVIOUS
<1>4. IsCell(b) /\ b.port = a.port /\ SameBuffer(b, c) /\ b.drv.state = "stopped"
      /\ b.drv.error = c.drv.error /\ b.drv.ignore_tdf = c.drv.ignore_tdf
  BY <1>2, <1>3, SetStateIs DEF SameBuffer
<1>5. r = SetMsr(SetState(SetTdie(c, FALSE), "stopped"),
                 SetState(SetTdie(c, FALSE), "stopped").port.msr \ {"SDF"})
  BY Zenon DEF OnStop, SetMsr, SetState, SetTdie
<1>6. r = SetMsr(b, c.port.msr \ {"SDF"})
  BY <1>1, <1>2, <1>3, <1>4, <1>5
<1>7. IsCell(r) /\ r.drv = b.drv /\ r.port.fifo = c.port.fifo /\ r.port.rx = c.port.rx
      /\ r.port.tdie = FALSE /\ r.port.msr = c.port.msr \ {"SDF"}
  BY <1>2, <1>4, <1>6, SetMsrIs
<1>8. TdieOff(r)
  BY <1>7 DEF TdieOff
<1> QED BY <1>4, <1>7, <1>8 DEF SameBuffer

\* OnByte step by step.
ByteIn(c) == IF c.port.rx = << >> THEN 0 ELSE c.port.rx[1]
Stored(c) == SetData(SetBuffer(c, ByteIn(c)), <<ByteIn(c)>>)
KeptIn(c) == IF c.drv.next = c.drv.size THEN c
             ELSE SetNext(Stored(c), c.drv.next + 1)
Begun(c, k) ==
    SetRx(SetState(SetError(k, IF c.drv.next = 0 THEN "ok" ELSE k.drv.error), "transferring"), << >>)
TakenIn(c) == IF c.drv.next = 0 \/ c.drv.state = "transferring" THEN Begun(c, KeptIn(c))
              ELSE SetRx(c, << >>)

\* The third group in named parts.
LEMMA ByteSteps ==
    ASSUME NEW c
    PROVE  OnByte(c) =
             IF ~c.drv.ignore_tdf THEN SetState(abort_transaction_async(c), "stopping")
             ELSE IF TakenIn(c).drv.next # TakenIn(c).drv.size THEN TakenIn(c)
             ELSE IF Len(TakenIn(c).port.fifo) = 1 THEN SetState(TakenIn(c), "stopping")
             ELSE SetState(TakenIn(c), "transfer_complete")
BY DEF OnByte, TakenIn, Begun, KeptIn, Stored, ByteIn, SetData, SetBuffer, SetNext, SetRx,
       SetState, SetError

\* A byte in the middle of a write, and in a read.
LEMMA ByteInWrite ==
    ASSUME NEW c, IsCell(c), ~Reads(c), NEW r, r = OnByte(c)
    PROVE  /\ IsCell(r) /\ r.drv.ignore_tdf = c.drv.ignore_tdf
           /\ SameBuffer(r, c) /\ r.drv.error = c.drv.error /\ r.drv.state = "stopping"
           /\ r.port.msr = c.port.msr /\ r.port.rx = << >> /\ TdieOff(r)
           /\ r.port.fifo = IF BusBusy /\ "SDF" \notin c.port.msr THEN <<STOP>> ELSE << >>
<1>1. PICK a : a = abort_transaction_async(c)
  OBVIOUS
<1>2. /\ IsCell(a) /\ a.drv = c.drv /\ a.port.msr = c.port.msr
      /\ a.port.tdie = FALSE /\ a.port.rx = << >>
      /\ a.port.fifo = IF BusBusy /\ "SDF" \notin c.port.msr THEN <<STOP>> ELSE << >>
  BY <1>1, AbortIs
<1>3. r = SetState(a, "stopping")
  BY <1>1, ByteSteps DEF Reads
<1>4. /\ IsCell(r) /\ r.port = a.port /\ r.drv.state = "stopping" /\ SameBuffer(r, a)
      /\ r.drv.error = a.drv.error /\ r.drv.ignore_tdf = a.drv.ignore_tdf
  BY <1>2, <1>3, SetStateIs DEF SameBuffer
<1>5. TdieOff(r)
  BY <1>2, <1>4 DEF TdieOff
<1> QED BY <1>2, <1>4, <1>5 DEF SameBuffer

\* A byte in a read is kept while the transfer is going.
LEMMA ByteInRead ==
    ASSUME NEW c, IsCell(c), c.drv.next \in Nat, Reads(c), NEW r, r = OnByte(c)
    PROVE  /\ IsCell(r) /\ r.drv.ignore_tdf = c.drv.ignore_tdf /\ r.drv.size = c.drv.size
           /\ r.port.msr = c.port.msr /\ r.port.rx = << >>
           /\ r.port.fifo = c.port.fifo /\ r.port.tdie = c.port.tdie
           /\ IF (c.drv.next = 0 \/ c.drv.state = "transferring") /\ c.drv.next # c.drv.size
              THEN /\ r.drv.data = <<ByteIn(c)>> /\ r.drv.read_buffer = ByteIn(c)
                   /\ r.drv.next = c.drv.next + 1
              ELSE SameBuffer(r, c)
           /\ r.drv.error = IF c.drv.next = 0 THEN "ok" ELSE c.drv.error
           /\ r.drv.state = IF r.drv.next = r.drv.size
                            THEN IF Len(c.port.fifo) = 1 THEN "stopping" ELSE "transfer_complete"
                            ELSE IF c.drv.next = 0 THEN "transferring" ELSE c.drv.state
<1> DEFINE going == c.drv.next = 0 \/ c.drv.state = "transferring"
           full == c.drv.next = c.drv.size
<1>1. PICK k : k = KeptIn(c)
  OBVIOUS
<1>2. /\ IsCell(k) /\ k.port = c.port /\ k.drv.ignore_tdf = c.drv.ignore_tdf
      /\ k.drv.size = c.drv.size /\ k.drv.error = c.drv.error /\ k.drv.state = c.drv.state
      /\ full => SameBuffer(k, c)
      /\ ~full => k.drv.data = <<ByteIn(c)>> /\ k.drv.read_buffer = ByteIn(c)
                  /\ k.drv.next = c.drv.next + 1
  <2>1. CASE full
    BY <1>1, <2>1 DEF KeptIn, SameBuffer
  <2>2. CASE ~full
    <3>1. PICK a : a = SetBuffer(c, ByteIn(c))
      OBVIOUS
    <3>2. IsCell(a) /\ a.port = c.port /\ a.drv.ignore_tdf = c.drv.ignore_tdf
          /\ a.drv.size = c.drv.size /\ a.drv.error = c.drv.error /\ a.drv.state = c.drv.state
          /\ a.drv.read_buffer = ByteIn(c)
      BY <3>1, SetBufferIs
    <3>3. PICK b : b = SetData(a, <<ByteIn(c)>>)
      OBVIOUS
    <3>4. IsCell(b) /\ b.port = c.port /\ b.drv.ignore_tdf = c.drv.ignore_tdf
          /\ b.drv.size = c.drv.size /\ b.drv.error = c.drv.error /\ b.drv.state = c.drv.state
          /\ b.drv.read_buffer = ByteIn(c) /\ b.drv.data = <<ByteIn(c)>>
      BY <3>2, <3>3, SetDataIs
    <3>5. k = SetNext(b, c.drv.next + 1)
      BY <1>1, <2>2, <3>1, <3>3 DEF KeptIn, Stored
    <3>6. IsCell(k) /\ k.port = c.port /\ k.drv.ignore_tdf = c.drv.ignore_tdf
          /\ k.drv.size = c.drv.size /\ k.drv.error = c.drv.error /\ k.drv.state = c.drv.state
          /\ k.drv.read_buffer = ByteIn(c) /\ k.drv.data = <<ByteIn(c)>>
          /\ k.drv.next = c.drv.next + 1
      BY <3>4, <3>5, SetNextIs
    <3> QED BY <2>2, <3>6
  <2> QED BY <2>1, <2>2
<1>3. PICK t : t = TakenIn(c)
  OBVIOUS
<1>4. /\ IsCell(t) /\ t.port.rx = << >> /\ t.port.fifo = c.port.fifo
      /\ t.port.tdie = c.port.tdie /\ t.port.msr = c.port.msr
      /\ t.drv.ignore_tdf = c.drv.ignore_tdf /\ t.drv.size = c.drv.size
      /\ going => /\ SameBuffer(t, k) /\ t.drv.state = "transferring"
                  /\ t.drv.error = IF c.drv.next = 0 THEN "ok" ELSE c.drv.error
      /\ ~going => SameBuffer(t, c) /\ t.drv.state = c.drv.state /\ t.drv.error = c.drv.error
  <2>1. CASE going
    <3>1. PICK a : a = SetError(k, IF c.drv.next = 0 THEN "ok" ELSE k.drv.error)
      OBVIOUS
    <3>2. /\ IsCell(a) /\ a.port = c.port /\ a.drv.ignore_tdf = c.drv.ignore_tdf
          /\ a.drv.size = c.drv.size /\ SameBuffer(a, k)
          /\ a.drv.error = IF c.drv.next = 0 THEN "ok" ELSE c.drv.error
      BY <1>2, <3>1, SetErrorIs DEF SameBuffer
    <3>3. PICK b : b = SetState(a, "transferring")
      OBVIOUS
    <3>4. /\ IsCell(b) /\ b.port = c.port /\ b.drv.ignore_tdf = c.drv.ignore_tdf
          /\ b.drv.size = c.drv.size /\ SameBuffer(b, k) /\ b.drv.error = a.drv.error
          /\ b.drv.state = "transferring"
      BY <3>2, <3>3, SetStateIs DEF SameBuffer
    <3>5. t = SetRx(b, << >>)
      BY <1>1, <1>3, <2>1, <3>1, <3>3 DEF TakenIn, Begun
    <3>6. /\ IsCell(t) /\ t.drv = b.drv /\ t.port.rx = << >> /\ t.port.fifo = c.port.fifo
          /\ t.port.tdie = c.port.tdie /\ t.port.msr = c.port.msr
      BY <3>4, <3>5, SetRxIs
    <3> QED BY <2>1, <3>2, <3>4, <3>6 DEF SameBuffer
  <2>2. CASE ~going
    <3>1. t = SetRx(c, << >>)
      BY <1>3, <2>2 DEF TakenIn
    <3> QED BY <2>2, <3>1, SetRxIs DEF SameBuffer
  <2> QED BY <2>1, <2>2
<1>5. r = IF t.drv.next # t.drv.size THEN t
          ELSE IF Len(t.port.fifo) = 1 THEN SetState(t, "stopping")
          ELSE SetState(t, "transfer_complete")
  BY <1>3, ByteSteps DEF Reads
<1>6. /\ IsCell(r) /\ r.port = t.port /\ SameBuffer(r, t)
      /\ r.drv.ignore_tdf = c.drv.ignore_tdf /\ r.drv.error = t.drv.error
      /\ r.drv.state = IF t.drv.next = t.drv.size
                       THEN IF Len(c.port.fifo) = 1 THEN "stopping" ELSE "transfer_complete"
                       ELSE t.drv.state
  <2>1. CASE t.drv.next # t.drv.size
    BY <1>4, <1>5, <2>1 DEF SameBuffer
  <2>2. CASE t.drv.next = t.drv.size /\ Len(t.port.fifo) = 1
    <3>1. r = SetState(t, "stopping")
      BY <1>5, <2>2
    <3> QED BY <1>4, <2>2, <3>1, SetStateIs DEF SameBuffer
  <2>3. CASE t.drv.next = t.drv.size /\ Len(t.port.fifo) # 1
    <3>1. r = SetState(t, "transfer_complete")
      BY <1>5, <2>3
    <3> QED BY <1>4, <2>3, <3>1, SetStateIs DEF SameBuffer
  <2> QED BY <2>1, <2>2, <2>3
<1>7. CASE going /\ ~full
  BY <1>2, <1>4, <1>6, <1>7 DEF SameBuffer
<1>8. CASE going /\ full
  BY <1>2, <1>4, <1>6, <1>8 DEF SameBuffer
<1>9. CASE ~going
  BY <1>2, <1>4, <1>6, <1>9 DEF SameBuffer
<1> QED BY <1>7, <1>8, <1>9

\* OnSpace step by step.
Rest(c) == SubSeq(c.drv.data, c.drv.next + 1, c.drv.size)
Queued(c) == c.port.fifo \o [i \in 1..Len(Rest(c)) |-> BYTE(Rest(c)[i])]
BegunOut(c) == IF c.drv.next = 0 THEN SetState(SetError(c, "ok"), "transferring") ELSE c
Fed(b) == SetFifo(SetNext(b, b.drv.size), Queued(b))
Sent(f) == SetFifo(SetState(SetTdie(f, FALSE), "stopping"), Append(f.port.fifo, STOP))

\* The fourth group in named parts.
LEMMA SpaceSteps ==
    ASSUME NEW c, NEW shifted
    PROVE  OnSpace(c, shifted) =
             IF ~(c.drv.next = 0 \/ c.drv.state = "transferring") THEN c
             ELSE IF Len(Fed(BegunOut(c)).port.fifo) > shifted THEN Fed(BegunOut(c))
             ELSE Sent(Fed(BegunOut(c)))
BY DEF OnSpace, Sent, Fed, BegunOut, Queued, Rest, SetFifo, SetNext, SetState, SetTdie, SetError

\* A transfer that is over queues nothing.
LEMMA SpaceSkips ==
    ASSUME NEW c, NEW shifted, ~(c.drv.next = 0 \/ c.drv.state = "transferring")
    PROVE  OnSpace(c, shifted) = c
BY SpaceSteps

\* The bytes that are left all go to the queue.
LEMMA FedIs ==
    ASSUME NEW c, IsCell(c), c.drv.next = 0 \/ c.drv.state = "transferring",
           NEW f, f = Fed(BegunOut(c))
    PROVE  /\ IsCell(f) /\ f.drv.ignore_tdf = c.drv.ignore_tdf /\ f.drv.data = c.drv.data
           /\ f.drv.size = c.drv.size /\ f.drv.read_buffer = c.drv.read_buffer
           /\ f.drv.next = c.drv.size /\ f.drv.state = "transferring"
           /\ f.drv.error = IF c.drv.next = 0 THEN "ok" ELSE c.drv.error
           /\ f.port.msr = c.port.msr /\ f.port.rx = c.port.rx
           /\ f.port.fifo = Queued(c) /\ f.port.tdie = c.port.tdie
<1>1. PICK b : b = BegunOut(c)
  OBVIOUS
<1>2. /\ IsCell(b) /\ b.port = c.port /\ b.drv.ignore_tdf = c.drv.ignore_tdf
      /\ SameBuffer(b, c) /\ b.drv.state = "transferring"
      /\ b.drv.error = IF c.drv.next = 0 THEN "ok" ELSE c.drv.error
  <2>1. CASE c.drv.next = 0
    <3>1. PICK a : a = SetError(c, "ok")
      OBVIOUS
    <3>2. IsCell(a) /\ a.port = c.port /\ a.drv.ignore_tdf = c.drv.ignore_tdf
          /\ SameBuffer(a, c) /\ a.drv.error = "ok"
      BY <3>1, SetErrorIs DEF SameBuffer
    <3>3. b = SetState(a, "transferring")
      BY <1>1, <2>1, <3>1 DEF BegunOut
    <3> QED BY <2>1, <3>2, <3>3, SetStateIs DEF SameBuffer
  <2>2. CASE c.drv.next # 0
    BY <1>1, <2>2 DEF BegunOut, SameBuffer
  <2> QED BY <2>1, <2>2
<1>3. Queued(b) = Queued(c)
  BY <1>2 DEF Queued, Rest, SameBuffer
<1>4. f = Fed(b)
  BY <1>1
<1>5. /\ IsCell(f) /\ f.drv.ignore_tdf = c.drv.ignore_tdf /\ f.drv.data = c.drv.data
      /\ f.drv.size = c.drv.size /\ f.drv.read_buffer = c.drv.read_buffer
      /\ f.drv.next = c.drv.size /\ f.drv.state = "transferring" /\ f.drv.error = b.drv.error
      /\ f.port.msr = c.port.msr /\ f.port.rx = c.port.rx
      /\ f.port.fifo = Queued(c) /\ f.port.tdie = c.port.tdie
  <2>1. PICK a : a = SetNext(b, b.drv.size)
    OBVIOUS
  <2>2. /\ IsCell(a) /\ a.port = c.port /\ a.drv.ignore_tdf = c.drv.ignore_tdf
        /\ a.drv.data = c.drv.data /\ a.drv.size = c.drv.size
        /\ a.drv.read_buffer = c.drv.read_buffer /\ a.drv.next = c.drv.size
        /\ a.drv.state = "transferring" /\ a.drv.error = b.drv.error
    BY <1>2, <2>1, SetNextIs DEF SameBuffer
  <2>3. f = SetFifo(a, Queued(c))
    BY <1>3, <1>4, <2>1 DEF Fed
  <2> QED BY <2>2, <2>3, SetFifoIs
<1> QED BY <1>2, <1>5

FeedFacts(r, c) ==
    /\ IsCell(r) /\ r.drv.ignore_tdf = c.drv.ignore_tdf /\ r.drv.data = c.drv.data
    /\ r.drv.size = c.drv.size /\ r.drv.read_buffer = c.drv.read_buffer
    /\ r.drv.next = c.drv.size
    /\ r.drv.error = IF c.drv.next = 0 THEN "ok" ELSE c.drv.error
    /\ r.port.msr = c.port.msr /\ r.port.rx = c.port.rx

\* The transfer goes on while there are bytes in the queue.
LEMMA SpaceFeeds ==
    ASSUME NEW c, IsCell(c), c.drv.next = 0 \/ c.drv.state = "transferring",
           NEW shifted, Len(Queued(c)) > shifted, NEW r, r = OnSpace(c, shifted)
    PROVE  /\ FeedFacts(r, c) /\ r.drv.state = "transferring"
           /\ r.port.fifo = Queued(c) /\ r.port.tdie = c.port.tdie
<1>1. PICK f : f = Fed(BegunOut(c))
  OBVIOUS
<1>2. FeedFacts(f, c) /\ f.port.fifo = Queued(c) /\ f.port.tdie = c.port.tdie
      /\ f.drv.state = "transferring"
  BY <1>1, FedIs DEF FeedFacts
<1>3. r = IF Len(f.port.fifo) > shifted THEN f ELSE Sent(f)
  BY <1>1, SpaceSteps
<1>4. r = f
  BY <1>2, <1>3, Zenon
<1> QED BY <1>2, <1>4

\* When they have all gone out the STOP follows.
LEMMA SpaceStops ==
    ASSUME NEW c, IsCell(c), c.drv.next = 0 \/ c.drv.state = "transferring",
           NEW shifted, ~(Len(Queued(c)) > shifted), NEW r, r = OnSpace(c, shifted)
    PROVE  /\ FeedFacts(r, c) /\ r.drv.state = "stopping"
           /\ r.port.fifo = Append(Queued(c), STOP) /\ TdieOff(r)
<1>1. PICK f : f = Fed(BegunOut(c))
  OBVIOUS
<1>2. FeedFacts(f, c) /\ f.port.fifo = Queued(c)
  BY <1>1, FedIs DEF FeedFacts
<1>3. r = IF Len(f.port.fifo) > shifted THEN f ELSE Sent(f)
  BY <1>1, SpaceSteps
<1>4. r = Sent(f)
  BY <1>2, <1>3, Zenon
<1>5. IsCell(f)
  BY <1>2 DEF FeedFacts
<1>6. PICK a : a = SetTdie(f, FALSE)
  OBVIOUS
<1>7. IsCell(a) /\ a.drv = f.drv /\ a.port.msr = f.port.msr /\ a.port.rx = f.port.rx
      /\ a.port.fifo = f.port.fifo /\ a.port.tdie = FALSE
  BY <1>5, <1>6, SetTdieIs
<1>8. PICK d : d = SetState(a, "stopping")
  OBVIOUS
<1>9. /\ IsCell(d) /\ d.port = a.port /\ d.drv.ignore_tdf = f.drv.ignore_tdf
      /\ SameBuffer(d, f) /\ d.drv.state = "stopping" /\ d.drv.error = f.drv.error
  BY <1>7, <1>8, SetStateIs DEF SameBuffer
<1>10. PICK q : q = Append(f.port.fifo, STOP)
  OBVIOUS
<1>11. r = SetFifo(d, q)
  BY <1>4, <1>6, <1>8, <1>10, Zenon DEF Sent
<1>12. /\ IsCell(r) /\ r.drv = d.drv /\ r.port.fifo = q
       /\ r.port.msr = d.port.msr /\ r.port.rx = d.port.rx /\ r.port.tdie = d.port.tdie
  BY <1>9, <1>11, SetFifoIs
<1>13. FeedFacts(r, c)
  BY <1>2, <1>7, <1>9, <1>12 DEF FeedFacts, SameBuffer
<1>14. TdieOff(r)
  BY <1>7, <1>9, <1>12 DEF TdieOff
<1>15. r.port.fifo = Append(Queued(c), STOP)
  BY <1>2, <1>10, <1>12, Zenon
<1> QED BY <1>2, <1>9, <1>12, <1>13, <1>14, <1>15

-----------------------------------------------------------------------------
(***************************************************************************)
(* The invariants.                                                         *)
(***************************************************************************)
NoReceive(fifo) == \A n \in 1..Len(fifo) : fifo[n] # RECEIVE

\* Driver, port and bus are records.  The buffer is as long as the driver takes it
\* for, and one byte long when a byte may come in.
Shape ==
    /\ IsDrv(drv) /\ IsPort(port)
    /\ bus = [phase |-> bus.phase, reading |-> bus.reading, bytes |-> bus.bytes]
    /\ Len(drv.data) = drv.size
    /\ port.rx # << >> \/ ~NoReceive(port.fifo) => drv.size = 1

\* Between start() and the rest of a call the queue has room for the commands.
RoomLeft ==
    /\ pc \in {"arm_write", "arm_read"} => NoReceive(port.fifo) /\ port.rx = << >>
    /\ pc = "arm_write" => Len(port.fifo) <= 3
    /\ pc = "arm_read" => drv.ignore_tdf /\ Len(port.fifo) <= 2

\* No more is acknowledged than the address and the bytes sent.
OnBus ==
    /\ bus.phase = "address" => bus.bytes = 0
    /\ bus.phase = "owned" => acked <= 1 + bus.bytes

TInv == TypeOK /\ Shape /\ RoomLeft /\ OnBus

-----------------------------------------------------------------------------
\* What the driver may be in while the thread was never switched away inside it.

\* The flags of the driver, the port and the bus.
Skips == drv.ignore_tdf
Asks == port.tdie
BusReads == bus.reading

\* The bus is free and everything was taken from the port.
Quiet == bus.phase = "free" /\ port.msr = {} /\ port.fifo = << >>

\* The last transaction went well, or there was none.
Clean ==
    /\ Quiet /\ drv.error = "ok" /\ drv.state \in {"idle", "stopped"}
    /\ port.rx = << >> /\ ~Asks

\* It did not, and the port has a STOP to take at most.
Failed ==
    /\ drv.error # "ok" /\ port.rx = << >> /\ ~Asks
    /\ \/ Quiet
       \/ /\ port.fifo = <<STOP>>
          /\ \/ bus.phase \in {"free", "closing", "stuck"} /\ port.msr = {}
             \/ bus.phase \in {"closing", "stuck"} /\ port.msr = {"PLTF"}
             \/ bus.phase = "free" /\ port.msr = {"SDF"}

\* The port has raised an error flag that the interrupt routine has not seen.
Failing ==
    /\ drv.error = "ok" /\ port.rx = << >>
    /\ \/ port.msr = {"NDF"} /\ bus.phase = "closing"
       \/ port.msr = {"ALF"} /\ bus.phase = "free"
       \/ port.msr = {"PLTF"} /\ bus.phase \in {"closing", "stuck"}
    /\ drv.state \in BusyStates
    /\ drv.state = "stopping" => port.fifo = <<STOP>> /\ ~Asks
    /\ port.msr = {"NDF"} /\ drv.state = "starting" => acked = 0
    /\ Skips \/ port.fifo # << >> \/ drv.next # 0

\* start() went well and nothing has happened since.
Armed(reading) ==
    /\ drv.state = "starting" /\ drv.error = "ok" /\ (Skips <=> reading)
    /\ port.fifo = <<START(reading)>> /\ port.msr = {} /\ port.rx = << >> /\ ~Asks
    /\ bus.phase = "free" /\ acked = 0 /\ got = 0

\* A transaction that goes well: the driver's state, the commands that are left, the
\* phase of the bus and the acknowledges.
At(state, fifo, phase, count) ==
    /\ drv.state = state /\ port.fifo = fifo /\ bus.phase = phase /\ acked = count

\* It ends: the STOP is taken, the bus becomes free, the flag is seen.
Ends(state, count) ==
    \/ At(state, <<STOP>>, "owned", count) /\ port.msr = {}
    \/ At(state, << >>, "closing", count) /\ port.msr = {}
    \/ At(state, << >>, "free", count) /\ port.msr = {"SDF"}
    \/ At("stopped", << >>, "free", count) /\ port.msr = {}

Probing ==
    /\ drv.error = "ok" /\ Skips /\ port.rx = << >> /\ ~Asks
    /\ \/ At("starting", <<START(FALSE), STOP>>, "free", 0) /\ port.msr = {}
       \/ At("starting", <<STOP>>, "address", 0) /\ port.msr = {} /\ ~BusReads
       \/ Ends("starting", 1)

\* The bytes of the buffer that are left in the queue.
LeftOf(size, bytes, r) ==
    CASE size = bytes + 2 -> <<BYTE(r), BYTE(r)>>
      [] size = bytes + 1 -> <<BYTE(r)>>
      [] OTHER -> << >>
Left == LeftOf(drv.size, bus.bytes, reg)

Sending ==
    /\ drv.error = "ok" /\ ~Skips /\ port.rx = << >> /\ drv.data = TxBuffer
    /\ \/ /\ port.msr = {} /\ Asks /\ drv.next = 0 /\ drv.state = "starting" /\ acked = 0
          /\ \/ port.fifo = <<START(FALSE)>> /\ bus.phase = "free"
             \/ port.fifo = << >> /\ bus.phase = "address" /\ ~BusReads
       \/ /\ port.msr = {} /\ Asks /\ drv.next = drv.size /\ ~BusReads
          /\ \/ At("transferring", Left, "address", 0)
             \/ At("transferring", Left, "owned", bus.bytes + 1)
          /\ bus.bytes <= drv.size /\ (bus.bytes > 0 => pointer = reg)
       \/ /\ ~Asks /\ drv.next = drv.size /\ Ends("stopping", drv.size + 1)
          /\ pointer = reg

Receiving ==
    /\ drv.error = "ok" /\ Skips /\ ~Asks /\ drv.size = 1
    /\ \/ /\ drv.next = 0 /\ drv.state = "starting"
          /\ \/ /\ port.fifo = <<START(TRUE), RECEIVE, STOP>> /\ bus.phase = "free" /\ acked = 0
                /\ port.msr = {} /\ port.rx = << >>
             \/ /\ port.fifo = <<RECEIVE, STOP>> /\ bus.phase = "address" /\ BusReads
                /\ acked = 0 /\ port.msr = {} /\ port.rx = << >>
             \/ /\ port.fifo = <<RECEIVE, STOP>> /\ bus.phase = "owned" /\ BusReads
                /\ port.msr = {} /\ port.rx = << >>
             \/ /\ port.fifo = <<STOP>> /\ bus.phase = "owned" /\ port.msr = {}
                /\ port.rx = <<pointer>>
       \/ /\ drv.next = 1 /\ port.rx = << >> /\ Ends("stopping", acked)

Stages ==
    /\ pc \in {"ready", "write_async", "read_async"} => Clean \/ Failed
    /\ pc = "arm_write" => Armed(FALSE)
    /\ pc = "arm_read" => Armed(TRUE)
    /\ pc = "finish_write" => Failed \/ Failing \/ (IF op = "probe" THEN Probing ELSE Sending)
    /\ pc = "finish_read" => Failed \/ Failing \/ Receiving

\* What a call was told so far is true.
Told ==
    /\ drv.error = "address_nak" => acked = 0
    /\ pc \in {"write_async", "arm_write", "finish_write"} => status = NoStatus
    /\ status = 0 /\ pc \in {"read_async", "arm_read", "finish_read"} => pointer = reg
    /\ status = 0 /\ pc = "read_async" => Clean
    /\ status = 0 /\ pc = "finish_read" /\ drv.next # 0 => got = 1 /\ drv.read_buffer = reg

Honest == ~switched => Stages /\ Told

-----------------------------------------------------------------------------
(***************************************************************************)
(* Commands and queues.                                                    *)
(***************************************************************************)
LEMMA Names ==
    /\ RECEIVE \in Commands /\ STOP \in Commands
    /\ \A r \in BOOLEAN : START(r) \in Commands
    /\ \A d \in Bytes : BYTE(d) \in Commands
    /\ RECEIVE.cmd = "RECEIVE" /\ STOP.cmd = "STOP"
    /\ \A r : START(r).cmd = "START" /\ START(r).reading = r
    /\ \A d : BYTE(d).cmd = "BYTE" /\ BYTE(d).data = d
    /\ \A x \in Commands : /\ x.cmd = "START" => x.reading \in BOOLEAN
                           /\ x.cmd = "BYTE" => x.data \in Bytes
                           /\ x.cmd = "RECEIVE" => x = RECEIVE
<1>1. RECEIVE \in Commands /\ STOP \in Commands
  BY Zenon DEF Commands
<1>2. \A r \in BOOLEAN : START(r) \in Commands
  BY Zenon DEF Commands
<1>3. \A d \in Bytes : BYTE(d) \in Commands
  BY Zenon DEF Commands
<1>4. RECEIVE.cmd = "RECEIVE" /\ STOP.cmd = "STOP"
  BY DEF RECEIVE, STOP
<1>5. \A r : START(r).cmd = "START" /\ START(r).reading = r
  BY DEF START
<1>6. \A d : BYTE(d).cmd = "BYTE" /\ BYTE(d).data = d
  BY DEF BYTE
<1>7. ASSUME NEW x \in Commands
      PROVE  /\ x.cmd = "START" => x.reading \in BOOLEAN
             /\ x.cmd = "BYTE" => x.data \in Bytes
             /\ x.cmd = "RECEIVE" => x = RECEIVE
  <2>1. \/ x = RECEIVE \/ x = STOP \/ \E r \in BOOLEAN : x = START(r)
        \/ \E d \in Bytes : x = BYTE(d)
    BY Zenon DEF Commands
  <2> QED BY <1>4, <1>5, <1>6, <2>1
<1> QED BY <1>1, <1>2, <1>3, <1>4, <1>5, <1>6, <1>7

\* Elements and length of a tail.
LEMMA TailOf ==
    ASSUME NEW S, NEW s \in Seq(S), s # << >>
    PROVE  /\ s[1] \in S /\ Len(s) \in Nat \ {0} /\ Tail(s) \in Seq(S) /\ Len(Tail(s)) = Len(s) - 1
           /\ \A n \in 1..Len(Tail(s)) : Tail(s)[n] = s[n + 1] /\ n + 1 \in 1..Len(s)
OBVIOUS

\* Elements and length of a sequence that something was appended to.
LEMMA AppendOf ==
    ASSUME NEW S, NEW s \in Seq(S), NEW x \in S
    PROVE  /\ Append(s, x) \in Seq(S) /\ Len(Append(s, x)) = Len(s) + 1
           /\ \A n \in 1..Len(s) : Append(s, x)[n] = s[n]
           /\ Append(s, x)[Len(s) + 1] = x
OBVIOUS

\* Type and length of a concatenation.
LEMMA ConcatOf ==
    ASSUME NEW S, NEW s \in Seq(S), NEW t \in Seq(S)
    PROVE  s \o t \in Seq(S) /\ Len(s \o t) = Len(s) + Len(t) /\ Len(s) \in Nat
OBVIOUS

\* A queue with no RECEIVE: in the head, in the rest, and with another command.
LEMMA StopOnly ==
    /\ <<STOP>> \in Seq(Commands) /\ Len(<<STOP>>) = 1 /\ Len(<<STOP>>) <= 4
    /\ NoReceive(<<STOP>>)
    /\ << >> \in Seq(Commands) /\ Len(<< >>) = 0 /\ Len(<< >>) <= 4
    /\ NoReceive(<< >>)
<1>1. <<STOP>> \in Seq(Commands) /\ Len(<<STOP>>) = 1 /\ <<STOP>>[1] = STOP
  BY Names
<1>2. STOP # RECEIVE
  BY Names
<1> QED BY <1>1, <1>2 DEF NoReceive

\* A queue without a RECEIVE has none after its first command is taken.
LEMMA NoReceiveTail ==
    ASSUME NEW s \in Seq(Commands), s # << >>, NoReceive(s)
    PROVE  NoReceive(Tail(s)) /\ s[1].cmd # "RECEIVE"
<1>1. NoReceive(Tail(s))
  BY TailOf DEF NoReceive
<1>2. s[1] # RECEIVE /\ s[1] \in Commands
  BY TailOf DEF NoReceive
<1> QED BY <1>1, <1>2, Names

\* It has none after another command is appended.
LEMMA NoReceiveAppend ==
    ASSUME NEW s \in Seq(Commands), NEW x \in Commands, NoReceive(s), x.cmd # "RECEIVE"
    PROVE  NoReceive(Append(s, x))
<1>1. x # RECEIVE
  BY Names
<1> QED BY <1>1, AppendOf DEF NoReceive

-----------------------------------------------------------------------------
(***************************************************************************)
(* The types, and the bounds of buffer and queue.                          *)
(***************************************************************************)
CellOk(c) ==
    /\ IsCell(c)
    /\ c.drv.state \in BusyStates \union FinishedStates /\ c.drv.error \in I2CErrors
    /\ c.drv.ignore_tdf \in BOOLEAN
    /\ c.drv.data \in Seq(Bytes) /\ c.drv.size \in 0..2 /\ c.drv.next \in 0..c.drv.size
    /\ c.drv.read_buffer \in Bytes /\ Len(c.drv.data) = c.drv.size
    /\ c.port.fifo \in Seq(Commands) /\ Len(c.port.fifo) <= 4
    /\ c.port.msr \subseteq Flags /\ c.port.tdie \in BOOLEAN
    /\ c.port.rx \in Seq(Bytes) /\ Len(c.port.rx) <= 1

\* What a part of the interrupt routine leaves of the queues.
Shrunk(r, c) ==
    /\ r.drv.size = c.drv.size /\ r.drv.ignore_tdf = c.drv.ignore_tdf
    /\ c.port.rx = << >> => r.port.rx = << >>
    /\ r.port.fifo = c.port.fifo \/ r.port.fifo = <<STOP>> \/ r.port.fifo = << >>

\* A register that is off is a Boolean.
LEMMA Off == \A c : TdieOff(c) => c.port.tdie \in BOOLEAN
BY DEF TdieOff

\* The first group keeps driver and port well formed and adds no byte.
LEMMA ErrorsOk ==
    ASSUME NEW c, CellOk(c), NEW msr, NEW r, r = OnErrors(c, msr)
    PROVE  CellOk(r) /\ Shrunk(r, c)
<1>1. ErrorOf(c, msr) \in I2CErrors
  BY DEF ErrorOf, I2CErrors, CellOk
<1>2. IsCell(c)
  BY DEF CellOk
<1>3. CASE msr \intersect ErrorFlags = {}
  <2>1. r = c
    BY <1>3, NoErrors
  <2> QED BY <2>1 DEF Shrunk
<1>4. CASE msr \intersect ErrorFlags # {} /\ c.drv.state = "stopping"
  <2>1. /\ IsCell(r) /\ SameBuffer(r, c) /\ r.drv.ignore_tdf = c.drv.ignore_tdf
        /\ r.drv.error = ErrorOf(c, msr) /\ r.drv.state = "stopping"
        /\ r.port.msr = c.port.msr \ ErrorFlags
        /\ r.port.fifo = c.port.fifo /\ r.port.rx = c.port.rx /\ r.port.tdie = c.port.tdie
    BY <1>2, <1>4, ErrorStopping
  <2> QED BY <1>1, <2>1 DEF CellOk, Shrunk, SameBuffer, BusyStates
<1>5. CASE msr \intersect ErrorFlags # {} /\ c.drv.state # "stopping"
  <2>1. /\ IsCell(r) /\ SameBuffer(r, c) /\ r.drv.ignore_tdf = c.drv.ignore_tdf
        /\ r.drv.error = ErrorOf(c, msr) /\ r.drv.state = "stopping"
        /\ r.port.msr = c.port.msr \ ErrorFlags
        /\ TdieOff(r) /\ r.port.rx = << >>
        /\ r.port.fifo = <<STOP>> \/ r.port.fifo = << >>
    BY <1>2, <1>5, ErrorAborts
  <2>2. r.port.fifo \in Seq(Commands) /\ Len(r.port.fifo) <= 4
    BY <2>1, StopOnly, Zenon
  <2>3. r.port.tdie \in BOOLEAN /\ r.port.rx \in Seq(Bytes) /\ Len(r.port.rx) <= 1
    BY <2>1, Off
  <2> QED BY <1>1, <2>1, <2>2, <2>3 DEF CellOk, Shrunk, SameBuffer, BusyStates
<1> QED BY <1>3, <1>4, <1>5

\* So does the second.
LEMMA StopOk ==
    ASSUME NEW c, CellOk(c), NEW msr, NEW r, r = OnStop(c, msr)
    PROVE  CellOk(r) /\ Shrunk(r, c)
<1>1. IsCell(c)
  BY DEF CellOk
<1>2. CASE "SDF" \notin msr
  <2>1. r = c
    BY <1>2, NoStop
  <2> QED BY <2>1 DEF Shrunk
<1>3. CASE "SDF" \in msr
  <2>1. /\ IsCell(r) /\ SameBuffer(r, c) /\ r.drv.ignore_tdf = c.drv.ignore_tdf
        /\ r.drv.error = c.drv.error /\ r.port.fifo = c.port.fifo /\ r.port.rx = c.port.rx
        /\ r.drv.state = "stopped" /\ TdieOff(r)
        /\ r.port.msr = c.port.msr \ {"SDF"}
    BY <1>1, <1>3, StopSeen
  <2>2. r.port.tdie \in BOOLEAN
    BY <2>1, Off
  <2> QED BY <2>1, <2>2 DEF CellOk, Shrunk, SameBuffer, FinishedStates
<1> QED BY <1>2, <1>3

\* So does the third, when the buffer is for one byte.
LEMMA ByteOk ==
    ASSUME NEW c, CellOk(c), c.drv.size = 1, NEW r, r = OnByte(c)
    PROVE  CellOk(r) /\ Shrunk(r, c)
<1>1. IsCell(c) /\ c.drv.next \in 0..1
  BY DEF CellOk
<1>2. ByteIn(c) \in Bytes
  BY DEF CellOk, ByteIn, Bytes
<1>3. /\ IsCell(r) /\ r.drv.ignore_tdf = c.drv.ignore_tdf /\ r.drv.size = c.drv.size
      /\ r.port.msr = c.port.msr /\ r.port.rx = << >>
  <2>1. CASE ~Reads(c)
    BY <1>1, <2>1, ByteInWrite DEF SameBuffer
  <2>2. CASE Reads(c)
    BY <1>1, <2>2, ByteInRead
  <2> QED BY <2>1, <2>2
<1>4. CASE ~Reads(c)
  <2>1. /\ SameBuffer(r, c) /\ r.drv.error = c.drv.error /\ r.drv.state = "stopping"
        /\ TdieOff(r)
        /\ r.port.fifo = <<STOP>> \/ r.port.fifo = << >>
    BY <1>1, <1>4, ByteInWrite
  <2>2. r.port.fifo \in Seq(Commands) /\ Len(r.port.fifo) <= 4
    BY <2>1, StopOnly, Zenon
  <2>3. r.port.tdie \in BOOLEAN /\ r.port.rx \in Seq(Bytes) /\ Len(r.port.rx) <= 1
    BY <1>3, <2>1, Off
  <2> QED BY <1>3, <2>1, <2>2, <2>3 DEF CellOk, Shrunk, SameBuffer, BusyStates
<1>5. CASE Reads(c)
  <2>1. /\ r.port.fifo = c.port.fifo /\ r.port.tdie = c.port.tdie
        /\ r.drv.error = IF c.drv.next = 0 THEN "ok" ELSE c.drv.error
        /\ r.drv.state \in {"stopping", "transfer_complete", "transferring", c.drv.state}
    BY <1>1, <1>5, ByteInRead
  <2>2. /\ r.drv.data \in Seq(Bytes) /\ Len(r.drv.data) = 1 /\ r.drv.next \in 0..1
        /\ r.drv.read_buffer \in Bytes
    <3>1. CASE (c.drv.next = 0 \/ c.drv.state = "transferring") /\ c.drv.next # c.drv.size
      <4>1. /\ r.drv.data = <<ByteIn(c)>> /\ r.drv.read_buffer = ByteIn(c)
            /\ r.drv.next = c.drv.next + 1
        BY <1>1, <1>5, <3>1, ByteInRead
      <4> HIDE DEF ByteIn
      <4>2. <<ByteIn(c)>> \in Seq(Bytes) /\ Len(<<ByteIn(c)>>) = 1
        BY <1>2
      <4> QED BY <1>1, <1>2, <3>1, <4>1, <4>2
    <3>2. CASE ~((c.drv.next = 0 \/ c.drv.state = "transferring") /\ c.drv.next # c.drv.size)
      <4>1. SameBuffer(r, c)
        BY <1>1, <1>5, <3>2, ByteInRead
      <4> QED BY <1>1, <4>1 DEF SameBuffer, CellOk
    <3> QED BY <3>1, <3>2
  <2>3. r.drv.error \in I2CErrors
    BY <2>1 DEF CellOk, I2CErrors
  <2>4. r.drv.state \in BusyStates \union FinishedStates
    BY <2>1 DEF CellOk, BusyStates, FinishedStates
  <2>5. r.port.rx \in Seq(Bytes) /\ Len(r.port.rx) <= 1
    BY <1>3
  <2> QED BY <1>3, <2>1, <2>2, <2>3, <2>4, <2>5 DEF CellOk, Shrunk
<1> QED BY <1>4, <1>5

\* The bytes that are left of a buffer, as commands behind those of the queue.
LEMMA QueuedOk ==
    ASSUME NEW c, CellOk(c), Len(c.port.fifo) <= 1, NoReceive(c.port.fifo)
    PROVE  /\ Queued(c) \in Seq(Commands) /\ Len(Queued(c)) <= 3 /\ NoReceive(Queued(c))
<1>1. PICK fifo, rest : fifo = c.port.fifo /\ rest = Rest(c)
  OBVIOUS
<1>2. rest \in Seq(Bytes) /\ Len(rest) \in 0..2
  <2>1. c.drv.data \in Seq(Bytes) /\ Len(c.drv.data) = c.drv.size /\ c.drv.size \in 0..2
        /\ c.drv.next \in 0..c.drv.size
    BY DEF CellOk
  <2>2. PICK d, n, z : d = c.drv.data /\ n = c.drv.next /\ z = c.drv.size
    OBVIOUS
  <2>3. d \in Seq(Bytes) /\ Len(d) = z /\ z \in 0..2 /\ n \in 0..z
    BY <2>1, <2>2
  <2>4. SubSeq(d, n + 1, z) \in Seq(Bytes) /\ Len(SubSeq(d, n + 1, z)) \in 0..2
    BY <2>3
  <2> QED BY <1>1, <2>2, <2>4 DEF Rest
<1>3. PICK more : more = [i \in 1..Len(rest) |-> BYTE(rest[i])]
  OBVIOUS
<1>4. \A i \in 1..Len(rest) : BYTE(rest[i]) \in Commands /\ BYTE(rest[i]) # RECEIVE
  <2>1. TAKE i \in 1..Len(rest)
  <2>2. rest[i] \in Bytes
    BY <1>2
  <2>3. BYTE(rest[i]) \in Commands /\ BYTE(rest[i]).cmd = "BYTE"
    BY <2>2, Names
  <2> QED BY <2>3, Names
<1>5. more \in Seq(Commands) /\ Len(more) = Len(rest)
      /\ \A i \in 1..Len(more) : more[i] # RECEIVE
  BY <1>2, <1>3, <1>4
<1>6. fifo \in Seq(Commands) /\ \A i \in 1..Len(fifo) : fifo[i] # RECEIVE
  BY <1>1 DEF CellOk, NoReceive
<1>7. Len(fifo) \in 0..1
  <2>1. Len(fifo) <= 1
    BY <1>1
  <2>2. Len(fifo) \in Nat
    BY <1>6
  <2>3. PICK n : n = Len(fifo)
    OBVIOUS
  <2> QED BY <2>1, <2>2, <2>3
<1>8. PICK q : q = fifo \o more
  OBVIOUS
<1>9. q \in Seq(Commands) /\ Len(q) = Len(fifo) + Len(more)
  BY <1>5, <1>6, <1>8
<1>10. ASSUME NEW i \in 1..Len(q)
       PROVE  q[i] # RECEIVE
  <2>1. CASE i \in 1..Len(fifo)
    <3>1. q[i] = fifo[i]
      BY <1>5, <1>6, <1>8, <2>1
    <3> QED BY <1>6, <2>1, <3>1, Zenon
  <2>2. CASE i \notin 1..Len(fifo)
    <3>1. q[i] = more[i - Len(fifo)] /\ i - Len(fifo) \in 1..Len(more)
      BY <1>5, <1>6, <1>8, <1>9, <2>2
    <3> QED BY <1>5, <3>1, Zenon
  <2> QED BY <2>1, <2>2
<1>11. Len(q) <= 3
  <2>1. PICK m, n, k : m = Len(fifo) /\ n = Len(more) /\ k = Len(q)
    OBVIOUS
  <2>2. m \in 0..1 /\ n \in 0..2 /\ k = m + n
    BY <1>2, <1>5, <1>7, <1>9, <2>1, Zenon
  <2>3. k <= 3
    BY <2>2
  <2> QED BY <2>1, <2>3, Zenon
<1>12. q = Queued(c)
  BY <1>1, <1>3, <1>8, Zenon DEF Queued
<1> QED BY <1>9, <1>10, <1>11, <1>12 DEF NoReceive

\* The fourth queues at most two bytes and the STOP.
LEMMA SpaceOk ==
    ASSUME NEW c, CellOk(c), Len(c.port.fifo) <= 1, NoReceive(c.port.fifo),
           NEW shifted \in 0..1, NEW r, r = OnSpace(c, shifted)
    PROVE  /\ CellOk(r) /\ Len(r.port.fifo) <= 3 /\ NoReceive(r.port.fifo)
           /\ r.drv.size = c.drv.size /\ r.drv.ignore_tdf = c.drv.ignore_tdf
           /\ r.port.rx = c.port.rx
<1>1. IsCell(c)
  BY DEF CellOk
<1>2. CASE ~(c.drv.next = 0 \/ c.drv.state = "transferring")
  <2>1. r = c
    BY <1>2, SpaceSkips
  <2>2. Len(c.port.fifo) <= 3
    BY DEF CellOk
  <2> QED BY <2>1, <2>2
<1>3. CASE c.drv.next = 0 \/ c.drv.state = "transferring"
  <2> DEFINE fed == Len(Queued(c)) > shifted
  <2>1. FeedFacts(r, c)
    BY <1>1, <1>3, SpaceFeeds, SpaceStops
  <2>2. r.drv.state \in {"transferring", "stopping"} /\ r.port.tdie \in BOOLEAN
    <3>1. CASE fed
      <4>1. r.drv.state = "transferring" /\ r.port.tdie = c.port.tdie
        BY <1>1, <1>3, <3>1, SpaceFeeds
      <4> QED BY <4>1 DEF CellOk
    <3>2. CASE ~fed
      <4>1. r.drv.state = "stopping" /\ TdieOff(r)
        BY <1>1, <1>3, <3>2, SpaceStops
      <4> QED BY <4>1, Off
    <3> QED BY <3>1, <3>2
  <2>3. r.port.fifo \in Seq(Commands) /\ Len(r.port.fifo) <= 3 /\ NoReceive(r.port.fifo)
    <3>1. PICK q : q = Queued(c)
      OBVIOUS
    <3>2. q \in Seq(Commands) /\ Len(q) <= 3 /\ NoReceive(q) /\ Len(q) \in Nat
      BY <3>1, QueuedOk
    <3>3. CASE fed
      <4>1. r.port.fifo = q
        BY <1>1, <1>3, <3>1, <3>3, SpaceFeeds
      <4> QED BY <3>2, <4>1
    <3>4. CASE ~fed
      <4>1. r.port.fifo = Append(q, STOP)
        BY <1>1, <1>3, <3>1, <3>4, SpaceStops
      <4>2. Append(q, STOP) \in Seq(Commands) /\ Len(Append(q, STOP)) = Len(q) + 1
        BY <3>2, Names, AppendOf
      <4>3. NoReceive(Append(q, STOP))
        BY <3>2, Names, NoReceiveAppend
      <4>4. Len(q) <= 1
        BY <3>1, <3>2, <3>4
      <4> QED BY <3>2, <4>1, <4>2, <4>3, <4>4
    <3> QED BY <3>3, <3>4
  <2>4. r.drv.error \in I2CErrors /\ r.drv.next \in 0..r.drv.size
    BY <2>1 DEF CellOk, I2CErrors, FeedFacts
  <2>5. r.drv.state \in BusyStates \union FinishedStates
    BY <2>2 DEF BusyStates
  <2> QED BY <2>1, <2>2, <2>3, <2>4, <2>5 DEF CellOk, FeedFacts
<1> QED BY <1>2, <1>3

\* What the interrupt routine does: its four parts, one after the other.
Routine(c1, c2, c3, shifted, r) ==
    /\ c1 = OnErrors(Both, port.msr) /\ c2 = OnStop(c1, port.msr)
    /\ c3 = OnReceive(c2, port.rx # << >>)
    /\ shifted \in 0..1 /\ (bus.phase # "owned" => shifted = 0)
    /\ r = OnTransmit(c3, port.fifo = << >>, shifted)
    /\ drv' = r.drv /\ port' = r.port
    /\ got' = IF c3.drv.next > drv.next /\ drv.ignore_tdf THEN 1 ELSE got
    /\ UNCHANGED <<bus, pointer, healthy, acked>>

\* An entry of the interrupt routine is its four groups one after the other.
LEMMA RoutineParts ==
    ASSUME interrupt_service_routine
    PROVE  \E c1, c2, c3, shifted, r : Routine(c1, c2, c3, shifted, r)
<1>1. PICK c1 : c1 = OnErrors(Both, port.msr)
  OBVIOUS
<1>2. PICK c2 : c2 = OnStop(c1, port.msr)
  OBVIOUS
<1>3. PICK c3 : c3 = OnReceive(c2, port.rx # << >>)
  OBVIOUS
<1>4. PICK shifted \in 0..(IF bus.phase = "owned" THEN 1 ELSE 0) :
             Store(OnTransmit(c3, port.fifo = << >>, shifted))
  BY <1>1, <1>2, <1>3, Zenon DEF interrupt_service_routine
<1>5. shifted \in 0..1 /\ (bus.phase # "owned" => shifted = 0)
  <2>1. CASE bus.phase = "owned"
    BY <2>1
  <2>2. CASE bus.phase # "owned"
    BY <2>2
  <2> QED BY <2>1, <2>2
<1>6. PICK r : r = OnTransmit(c3, port.fifo = << >>, shifted)
  OBVIOUS
<1>7. drv' = r.drv /\ port' = r.port
  BY <1>4, <1>6, Zenon DEF Store
<1>8. /\ got' = IF c3.drv.next > drv.next /\ drv.ignore_tdf THEN 1 ELSE got
      /\ UNCHANGED <<bus, pointer, healthy, acked>>
  BY <1>1, <1>2, <1>3, Zenon DEF interrupt_service_routine
<1> QED BY <1>1, <1>2, <1>3, <1>5, <1>6, <1>7, <1>8, Zenon DEF Routine

\* What the routine leaves of the queues.
Served(r, c) ==
    /\ r.drv.size = c.drv.size /\ r.drv.ignore_tdf = c.drv.ignore_tdf
    /\ c.port.rx = << >> => r.port.rx = << >>
    /\ r.port.fifo = c.port.fifo \/ (NoReceive(r.port.fifo) /\ Len(r.port.fifo) <= 3)
    /\ Reads(c) => r.port.fifo = c.port.fifo \/ Len(r.port.fifo) <= 1

\* The pair has the variables as its parts.
LEMMA BothIs == Both.drv = drv /\ Both.port = port
BY DEF Both

\* The whole routine keeps driver and port well formed.
LEMMA RoutineOk ==
    ASSUME NEW c1, NEW c2, NEW c3, NEW shifted, NEW r, Routine(c1, c2, c3, shifted, r),
           CellOk(Both), port.rx # << >> => drv.size = 1
    PROVE  CellOk(r) /\ Served(r, Both)
<1>1. CellOk(c1) /\ Shrunk(c1, Both)
  BY ErrorsOk, Zenon DEF Routine
<1>2. CellOk(c2) /\ Shrunk(c2, c1)
  BY <1>1, StopOk, Zenon DEF Routine
<1>3. CellOk(c3) /\ Shrunk(c3, c2)
  <2>1. CASE port.rx # << >>
    <3>1. c2.drv.size = 1
      BY <1>1, <1>2, <2>1, BothIs DEF Shrunk
    <3>2. c3 = OnByte(c2)
      BY <2>1, Zenon DEF Routine, OnReceive
    <3> QED BY <1>2, <3>1, <3>2, ByteOk
  <2>2. CASE port.rx = << >>
    <3>1. c3 = c2
      BY <2>2, Zenon DEF Routine, OnReceive
    <3> QED BY <1>2, <3>1 DEF Shrunk
  <2> QED BY <2>1, <2>2
<1>4. Shrunk(c3, Both)
  BY <1>1, <1>2, <1>3, Zenon DEF Shrunk
<1>5. CASE port.fifo = << >> /\ ~Reads(c3)
  <2>1. r = OnSpace(c3, shifted)
    BY <1>5, Zenon DEF Routine, OnTransmit, Reads
  <2>2. c3.port.fifo = <<STOP>> \/ c3.port.fifo = << >>
    BY <1>4, <1>5, BothIs DEF Shrunk
  <2>3. Len(c3.port.fifo) <= 1 /\ NoReceive(c3.port.fifo)
    <3>1. Len(<< >>) <= 1 /\ Len(<<STOP>>) <= 1
      BY StopOnly
    <3> QED BY <2>2, <3>1, StopOnly, Zenon
  <2>4. shifted \in 0..1
    BY DEF Routine
  <2>5. /\ CellOk(r) /\ Len(r.port.fifo) <= 3 /\ NoReceive(r.port.fifo)
        /\ r.drv.size = c3.drv.size /\ r.drv.ignore_tdf = c3.drv.ignore_tdf
        /\ r.port.rx = c3.port.rx
    BY <1>3, <2>1, <2>3, <2>4, SpaceOk
  <2>6. ~Reads(Both)
    BY <1>4, <1>5, Zenon DEF Shrunk, Reads
  <2> QED BY <1>4, <2>5, <2>6, Zenon DEF Shrunk, Served
<1>6. CASE ~(port.fifo = << >> /\ ~Reads(c3))
  <2>1. r = c3
    BY <1>6, Zenon DEF Routine, OnTransmit, Reads
  <2>2. c3.port.fifo = Both.port.fifo \/ (NoReceive(c3.port.fifo) /\ Len(c3.port.fifo) <= 1
                                           /\ Len(c3.port.fifo) <= 3)
    <3>1. Len(<< >>) <= 1 /\ Len(<<STOP>>) <= 1 /\ Len(<< >>) <= 3 /\ Len(<<STOP>>) <= 3
      BY StopOnly
    <3> QED BY <1>4, <3>1, StopOnly, Zenon DEF Shrunk
  <2> QED BY <1>3, <1>4, <2>1, <2>2, Zenon DEF Shrunk, Served
<1> QED BY <1>5, <1>6

-----------------------------------------------------------------------------
(***************************************************************************)
(* The types are an invariant.                                             *)
(***************************************************************************)
\* What the rest of TypeOK says, without driver and port.
Around ==
    /\ bus.phase \in {"free", "address", "owned", "closing", "stuck"}
    /\ bus.reading \in BOOLEAN /\ bus.bytes \in 0..2
    /\ pointer \in Bytes /\ healthy \in BOOLEAN /\ acked \in 0..3 /\ got \in 0..1
    /\ bus = [phase |-> bus.phase, reading |-> bus.reading, bytes |-> bus.bytes]

CallOk ==
    /\ op \in Ops \union {"none"} /\ reg \in Registers
    /\ pc \in {"ready", "write_async", "arm_write", "finish_write",
               "read_async", "arm_read", "finish_read"}
    /\ (op = "none") <=> (pc = "ready")
    /\ status \in WireResults \union {NoStatus}
    /\ result \in [status : {0, ReadFailed, NoStatus}, value : Bytes]
    /\ switched \in BOOLEAN

OneByte(c) == c.port.rx # << >> \/ ~NoReceive(c.port.fifo) => c.drv.size = 1

Room(c) ==
    /\ pc \in {"arm_write", "arm_read"} => NoReceive(c.port.fifo) /\ c.port.rx = << >>
    /\ pc = "arm_write" => Len(c.port.fifo) <= 3
    /\ pc = "arm_read" => Reads(c) /\ Len(c.port.fifo) <= 2

Parts == CellOk(Both) /\ OneByte(Both) /\ Room(Both) /\ Around /\ CallOk /\ OnBus

\* The invariant in the parts that the proof works with.
LEMMA TInvParts == TInv <=> Parts
<1>1. IsCell(Both) <=> IsDrv(drv) /\ IsPort(port)
  BY DEF IsCell, Both
<1>2. MasterTypeOK /\ Shape <=> CellOk(Both) /\ OneByte(Both) /\ Around
  <2>1. (TRUE /\ MaxTransfer = 2)
    BY DEF MaxTransfer
  <2>2. CellOk(Both) <=>
          /\ IsDrv(drv) /\ IsPort(port)
          /\ drv.state \in BusyStates \union FinishedStates /\ drv.error \in I2CErrors
          /\ drv.ignore_tdf \in BOOLEAN
          /\ drv.data \in Seq(Bytes) /\ drv.size \in 0..2 /\ drv.next \in 0..drv.size
          /\ drv.read_buffer \in Bytes /\ Len(drv.data) = drv.size
          /\ port.fifo \in Seq(Commands) /\ Len(port.fifo) <= 4
          /\ port.msr \subseteq Flags /\ port.tdie \in BOOLEAN
          /\ port.rx \in Seq(Bytes) /\ Len(port.rx) <= 1
    BY <1>1, BothIs, Zenon DEF CellOk
  <2>3. OneByte(Both) <=> (port.rx # << >> \/ ~NoReceive(port.fifo) => drv.size = 1)
    BY BothIs, Zenon DEF OneByte
  <2>4. MaxTransfer + 1 = 3
    BY <2>1
  <2> QED BY <2>1, <2>2, <2>3, <2>4, Zenon DEF MasterTypeOK, Shape, Around
<1>3. RoomLeft <=> Room(Both)
  BY BothIs, Zenon DEF RoomLeft, Room, Reads
<1> QED BY <1>2, <1>3, Zenon DEF TInv, Parts, TypeOK, CallOk

\* The pair after a step has the variables after it as its parts.
LEMMA BothNext == Both'.drv = drv' /\ Both'.port = port'
BY DEF Both

\* A step of the port: it takes a command at most, raises a flag, brings a byte.
LEMMA PortMoves ==
    ASSUME Parts, CallOk', pc' = pc, drv' = drv, IsPort(port'),
           port'.fifo = port.fifo \/ (port.fifo # << >> /\ port'.fifo = Tail(port.fifo)),
           port'.msr \subseteq Flags, port'.tdie = port.tdie,
           \/ port'.rx = port.rx
           \/ port.fifo # << >> /\ port.fifo[1].cmd = "RECEIVE" /\ port'.rx = <<pointer>>,
           Around', OnBus'
    PROVE  Parts'
<1> DEFINE f == port.fifo
           g == port'.fifo
<1>1. f \in Seq(Commands) /\ Len(f) <= 4
  BY BothIs DEF Parts, CellOk
<1>2. Len(f) \in Nat
  BY <1>1
<1>3. g \in Seq(Commands) /\ Len(g) <= Len(f) /\ (NoReceive(f) => NoReceive(g)) /\ Len(g) \in Nat
  <2>1. CASE g = f
    <3>1. Len(f) <= Len(f)
      BY <1>2
    <3> QED BY <1>1, <1>2, <2>1, <3>1, Zenon
  <2>2. CASE f # << >> /\ g = Tail(f)
    <3>1. g \in Seq(Commands) /\ Len(g) = Len(f) - 1
      BY <1>1, <2>2, TailOf
    <3>2. NoReceive(f) => NoReceive(g)
      BY <1>1, <2>2, NoReceiveTail
    <3>3. Len(g) \in Nat
      BY <3>1
    <3> HIDE DEF f, g
    <3>4. Len(g) <= Len(f)
      BY <1>2, <3>1
    <3> QED BY <3>1, <3>2, <3>3, <3>4
  <2> QED BY <2>1, <2>2
<1>4. Len(g) <= 4 /\ (Len(f) <= 3 => Len(g) <= 3) /\ (Len(f) <= 2 => Len(g) <= 2)
  <2> HIDE DEF f, g
  <2> QED BY <1>1, <1>2, <1>3
<1>5. port'.rx = port.rx \/ (~NoReceive(f) /\ port'.rx = <<pointer>>)
  <2>1. CASE f # << >> /\ f[1].cmd = "RECEIVE" /\ port'.rx = <<pointer>>
    BY <1>1, <2>1, NoReceiveTail, Zenon
  <2> QED BY <2>1
<1>6. port'.rx \in Seq(Bytes) /\ Len(port'.rx) <= 1
  <2>1. port.rx \in Seq(Bytes) /\ Len(port.rx) <= 1
    BY BothIs DEF Parts, CellOk
  <2>2. <<pointer>> \in Seq(Bytes) /\ Len(<<pointer>>) <= 1
    BY DEF Parts, Around
  <2> QED BY <1>5, <2>1, <2>2, Zenon
<1>7. CellOk(Both')
  <2>1. IsCell(Both')
    BY BothIs, BothNext, Zenon DEF Parts, CellOk, IsCell, Both
  <2> QED BY <1>3, <1>4, <1>6, <2>1, BothIs, BothNext, Zenon DEF Parts, CellOk
<1>8. OneByte(Both')
  BY <1>3, <1>5, BothIs, BothNext, Zenon DEF Parts, OneByte
<1>9. Room(Both)'
  <2>1. pc \in {"arm_write", "arm_read"} => NoReceive(g) /\ port'.rx = << >>
    BY <1>3, <1>5, BothIs, Zenon DEF Parts, Room
  <2>2. (pc = "arm_write" => Len(g) <= 3) /\ (pc = "arm_read" => Reads(Both) /\ Len(g) <= 2)
    BY <1>4, BothIs, Zenon DEF Parts, Room
  <2> QED BY <2>1, <2>2, BothIs, BothNext, Zenon DEF Room, Reads
<1> QED BY <1>7, <1>8, <1>9, Zenon DEF Parts, CellOk, OneByte

\* A step that is not the thread's keeps the types of the call.
LEMMA MeanwhileOk ==
    ASSUME CallOk, Meanwhile
    PROVE  CallOk' /\ pc' = pc
<1>1. switched' \in BOOLEAN
  BY DEF Meanwhile
<1> QED BY <1>1, Zenon DEF CallOk, Meanwhile

\* The records after a step of the port.
LEMMA PortParts ==
    ASSUME Parts
    PROVE  IsPort(port) /\ port.msr \subseteq Flags
BY BothIs, Zenon DEF Parts, CellOk, IsCell

\* Taking a command leaves the other registers.
LEMMA PopIs ==
    ASSUME IsPort(port), PopCommand
    PROVE  /\ IsPort(port') /\ port'.fifo = Tail(port.fifo) /\ port'.msr = port.msr
           /\ port'.rx = port.rx /\ port'.tdie = port.tdie
BY DEF IsPort, PopCommand

\* Raising a flag leaves the other registers.
LEMMA RaiseIs ==
    ASSUME IsPort(port), NEW flag, Raise(flag)
    PROVE  /\ IsPort(port') /\ port'.fifo = port.fifo /\ port'.msr = port.msr \union {flag}
           /\ port'.rx = port.rx /\ port'.tdie = port.tdie
BY DEF IsPort, Raise

\* Doing both leaves the other registers.
LEMMA PopRaiseIs ==
    ASSUME IsPort(port), NEW flag,
           port' = [port EXCEPT !.fifo = Tail(@), !.msr = @ \union {flag}]
    PROVE  /\ IsPort(port') /\ port'.fifo = Tail(port.fifo) /\ port'.msr = port.msr \union {flag}
           /\ port'.rx = port.rx /\ port'.tdie = port.tdie
BY DEF IsPort

\* So does taking a RECEIVE and storing its byte.
LEMMA PopReceiveIs ==
    ASSUME IsPort(port), port' = [port EXCEPT !.fifo = Tail(@), !.rx = <<pointer>>]
    PROVE  /\ IsPort(port') /\ port'.fifo = Tail(port.fifo) /\ port'.msr = port.msr
           /\ port'.rx = <<pointer>> /\ port'.tdie = port.tdie
BY DEF IsPort

\* The phase of the bus changes, and nothing else of it.
Turns(phase) ==
    /\ bus'.phase = phase /\ bus'.reading = bus.reading /\ bus'.bytes = bus.bytes
    /\ bus' = [phase |-> phase, reading |-> bus.reading, bytes |-> bus.bytes]

\* A step of the bus that changes only its phase.
LEMMA TurnIs ==
    ASSUME bus = [phase |-> bus.phase, reading |-> bus.reading, bytes |-> bus.bytes],
           NEW phase, bus' = [bus EXCEPT !.phase = phase]
    PROVE  Turns(phase)
BY DEF Turns

\* A bus that leaves its transaction keeps its types.
LEMMA TurnsOk ==
    ASSUME Around, OnBus, NEW phase, Turns(phase), phase \in {"free", "closing", "stuck"},
           UNCHANGED <<pointer, healthy, acked, got>>
    PROVE  Around' /\ OnBus'
<1>1. bus'.phase = phase /\ bus'.reading = bus.reading /\ bus'.bytes = bus.bytes
      /\ bus' = [phase |-> phase, reading |-> bus.reading, bytes |-> bus.bytes]
  BY DEF Turns
<1>2. Around'
  BY <1>1 DEF Around
<1>3. OnBus'
  BY <1>1 DEF OnBus
<1> QED BY <1>2, <1>3

\* The flags the port raises are flags.
LEMMA FlagNames == {"NDF", "ALF", "FEF", "PLTF", "SDF"} \subseteq Flags
BY DEF Flags

\* A step of the port or a fault keeps the parts.
LEMMA PortOk ==
    ASSUME Parts, CallOk', pc' = pc, PortStep \/ FaultStep
    PROVE  Parts'
<1> USE PortParts
<1>1. IsPort(port) /\ port.msr \subseteq Flags /\ Around /\ OnBus
  BY DEF Parts
<1>2. bus = [phase |-> bus.phase, reading |-> bus.reading, bytes |-> bus.bytes]
  BY <1>1 DEF Around
<1>3. CASE BusStart
  <2>1. PopCommand /\ drv' = drv /\ UNCHANGED <<pointer, healthy, acked, got>>
        /\ bus' = [phase |-> "address", reading |-> port.fifo[1].reading, bytes |-> 0]
        /\ port.fifo # << >> /\ port.fifo[1].cmd = "START"
    BY <1>3 DEF BusStart, NextCommand
  <2>2. port.fifo[1].reading \in BOOLEAN
    <3>1. port.fifo \in Seq(Commands)
      BY BothIs DEF Parts, CellOk
    <3> QED BY <2>1, <3>1, TailOf, Names
  <2>3. /\ bus'.phase = "address" /\ bus'.reading = port.fifo[1].reading /\ bus'.bytes = 0
        /\ bus' = [phase |-> bus'.phase, reading |-> bus'.reading, bytes |-> bus'.bytes]
    BY <2>1
  <2>4. Around' /\ OnBus'
    BY <1>1, <2>1, <2>2, <2>3 DEF Around, OnBus
  <2>5. /\ IsPort(port') /\ port'.fifo = Tail(port.fifo) /\ port'.msr = port.msr
        /\ port'.rx = port.rx /\ port'.tdie = port.tdie
    BY <1>1, <2>1, PopIs
  <2> QED BY <1>1, <2>1, <2>4, <2>5, PortMoves
<1>4. CASE BusAddressAck
  <2>1. /\ UNCHANGED <<drv, port, pointer, healthy, got>> /\ acked' = 1
        /\ bus.phase = "address" /\ bus' = [bus EXCEPT !.phase = "owned"]
    BY <1>4 DEF BusAddressAck
  <2>2. Turns("owned")
    BY <1>2, <2>1, TurnIs
  <2>3. /\ bus'.phase = "owned" /\ bus'.reading = bus.reading /\ bus'.bytes = bus.bytes
        /\ bus' = [phase |-> bus'.phase, reading |-> bus'.reading, bytes |-> bus'.bytes]
    BY <2>2 DEF Turns
  <2>4. Around' /\ OnBus'
    BY <1>1, <2>1, <2>3 DEF Around, OnBus
  <2> QED BY <1>1, <2>1, <2>4, PortMoves
<1>5. CASE BusAddressNak
  <2>1. /\ drv' = drv /\ UNCHANGED <<pointer, healthy, acked, got>> /\ Raise("NDF")
        /\ bus' = [bus EXCEPT !.phase = "closing"]
    BY <1>5 DEF BusAddressNak
  <2>2. Around' /\ OnBus'
    BY <1>1, <1>2, <2>1, TurnIs, TurnsOk
  <2>3. /\ IsPort(port') /\ port'.fifo = port.fifo /\ port'.msr = port.msr \union {"NDF"}
        /\ port'.rx = port.rx /\ port'.tdie = port.tdie
    BY <1>1, <2>1, RaiseIs
  <2>4. port'.msr \subseteq Flags
    BY <1>1, <2>3, FlagNames
  <2> QED BY <1>1, <2>1, <2>2, <2>3, <2>4, PortMoves
<1>6. CASE BusByteAck
  <2>1. /\ PopCommand /\ drv' = drv /\ UNCHANGED <<healthy, got>>
        /\ port.fifo # << >> /\ port.fifo[1].cmd = "BYTE"
        /\ bus.phase = "owned" /\ bus.bytes < MaxTransfer
        /\ bus' = [bus EXCEPT !.bytes = @ + 1] /\ acked' = acked + 1
        /\ pointer' = pointer \/ pointer' = port.fifo[1].data
    BY <1>6 DEF BusByteAck, NextCommand
  <2>2. port.fifo[1].data \in Bytes
    <3>1. port.fifo \in Seq(Commands)
      BY BothIs DEF Parts, CellOk
    <3> QED BY <2>1, <3>1, TailOf, Names
  <2>3. /\ bus'.phase = bus.phase /\ bus'.reading = bus.reading /\ bus'.bytes = bus.bytes + 1
        /\ bus' = [phase |-> bus'.phase, reading |-> bus'.reading, bytes |-> bus'.bytes]
    BY <1>2, <2>1
  <2>4. bus'.bytes \in 0..2 /\ acked' \in 0..3 /\ acked' <= 1 + bus'.bytes
    BY <1>1, <2>1, <2>3 DEF Around, OnBus, MaxTransfer
  <2>5. pointer' \in Bytes
    BY <1>1, <2>1, <2>2 DEF Around
  <2>6. Around' /\ OnBus'
    BY <1>1, <2>1, <2>3, <2>4, <2>5 DEF Around, OnBus
  <2>7. /\ IsPort(port') /\ port'.fifo = Tail(port.fifo) /\ port'.msr = port.msr
        /\ port'.rx = port.rx /\ port'.tdie = port.tdie
    BY <1>1, <2>1, PopIs
  <2> QED BY <1>1, <2>1, <2>6, <2>7, PortMoves
<1>7. CASE BusByteNak
  <2>1. /\ drv' = drv /\ UNCHANGED <<pointer, healthy, acked, got>> /\ port.fifo # << >>
        /\ bus' = [bus EXCEPT !.phase = "closing"]
        /\ port' = [port EXCEPT !.fifo = Tail(@), !.msr = @ \union {"NDF"}]
    BY <1>7 DEF BusByteNak, NextCommand
  <2>2. Around' /\ OnBus'
    BY <1>1, <1>2, <2>1, TurnIs, TurnsOk
  <2>3. /\ IsPort(port') /\ port'.fifo = Tail(port.fifo) /\ port'.msr = port.msr \union {"NDF"}
        /\ port'.rx = port.rx /\ port'.tdie = port.tdie
    BY <1>1, <2>1, PopRaiseIs
  <2>4. port'.msr \subseteq Flags
    BY <1>1, <2>3, FlagNames
  <2> QED BY <1>1, <2>1, <2>2, <2>3, <2>4, PortMoves
<1>8. CASE BusReceive
  <2>1. /\ UNCHANGED <<drv, bus, pointer, healthy, acked, got>>
        /\ port.fifo # << >> /\ port.fifo[1].cmd = "RECEIVE"
        /\ port' = [port EXCEPT !.fifo = Tail(@), !.rx = <<pointer>>]
    BY <1>8 DEF BusReceive, NextCommand
  <2>2. Around' /\ OnBus'
    BY <1>1, <2>1 DEF Around, OnBus
  <2>3. /\ IsPort(port') /\ port'.fifo = Tail(port.fifo) /\ port'.msr = port.msr
        /\ port'.rx = <<pointer>> /\ port'.tdie = port.tdie
    BY <1>1, <2>1, PopReceiveIs
  <2> QED BY <1>1, <2>1, <2>2, <2>3, PortMoves
<1>9. CASE BusFifoError
  <2>1. /\ drv' = drv /\ UNCHANGED <<pointer, healthy, acked, got>> /\ port.fifo # << >>
        /\ port' = [port EXCEPT !.fifo = Tail(@), !.msr = @ \union {"FEF"}]
        /\ bus' = bus \/ bus' = [bus EXCEPT !.phase = "closing"]
    BY <1>9 DEF BusFifoError, NextCommand
  <2>2. Around' /\ OnBus'
    <3>1. CASE bus' = bus
      BY <1>1, <2>1, <3>1 DEF Around, OnBus
    <3>2. CASE bus' = [bus EXCEPT !.phase = "closing"]
      BY <1>1, <1>2, <2>1, <3>2, TurnIs, TurnsOk
    <3> QED BY <2>1, <3>1, <3>2
  <2>3. /\ IsPort(port') /\ port'.fifo = Tail(port.fifo) /\ port'.msr = port.msr \union {"FEF"}
        /\ port'.rx = port.rx /\ port'.tdie = port.tdie
    BY <1>1, <2>1, PopRaiseIs
  <2>4. port'.msr \subseteq Flags
    BY <1>1, <2>3, FlagNames
  <2> QED BY <1>1, <2>1, <2>2, <2>3, <2>4, PortMoves
<1>10. CASE BusStop
  <2>1. /\ drv' = drv /\ UNCHANGED <<pointer, healthy, acked, got>> /\ port.fifo # << >>
        /\ PopCommand
        /\ bus' = bus \/ bus' = [bus EXCEPT !.phase = "closing"]
    BY <1>10 DEF BusStop, NextCommand
  <2>2. Around' /\ OnBus'
    <3>1. CASE bus' = bus
      BY <1>1, <2>1, <3>1 DEF Around, OnBus
    <3>2. CASE bus' = [bus EXCEPT !.phase = "closing"]
      BY <1>1, <1>2, <2>1, <3>2, TurnIs, TurnsOk
    <3> QED BY <2>1, <3>1, <3>2
  <2>3. /\ IsPort(port') /\ port'.fifo = Tail(port.fifo) /\ port'.msr = port.msr
        /\ port'.rx = port.rx /\ port'.tdie = port.tdie
    BY <1>1, <2>1, PopIs
  <2> QED BY <1>1, <2>1, <2>2, <2>3, PortMoves
<1>11. CASE BusCloses \/ BusArbitrationLost \/ BusSticks
  <2>1. PICK flag, phase :
          /\ drv' = drv /\ UNCHANGED <<pointer, healthy, acked, got>> /\ Raise(flag)
          /\ bus' = [bus EXCEPT !.phase = phase]
          /\ phase \in {"free", "closing", "stuck"} /\ flag \in {"NDF", "ALF", "FEF", "PLTF", "SDF"}
    BY <1>11 DEF BusCloses, BusArbitrationLost, BusSticks
  <2>2. Turns(phase)
    BY <1>2, <2>1, TurnIs
  <2>3. Around' /\ OnBus'
    BY <1>1, <2>1, <2>2, TurnsOk
  <2>4. /\ IsPort(port') /\ port'.fifo = port.fifo /\ port'.msr = port.msr \union {flag}
        /\ port'.rx = port.rx /\ port'.tdie = port.tdie
    BY <1>1, <2>1, RaiseIs
  <2>5. port'.msr \subseteq Flags
    BY <1>1, <2>1, <2>4, FlagNames
  <2> QED BY <1>1, <2>1, <2>3, <2>4, <2>5, PortMoves
<1> QED BY <1>3, <1>4, <1>5, <1>6, <1>7, <1>8, <1>9, <1>10, <1>11, Zenon DEF PortStep, FaultStep

\* So does the end of a fault.
LEMMA ReleaseOk ==
    ASSUME Parts, BusReleased \/ BusHeals, UNCHANGED callVars
    PROVE  Parts'
<1>1. IsPort(port) /\ port.msr \subseteq Flags /\ Around /\ OnBus /\ CallOk
  BY PortParts DEF Parts
<1>2. CallOk' /\ pc' = pc
  BY <1>1 DEF callVars, CallOk
<1>3. UNCHANGED <<drv, port>>
  BY DEF BusReleased, BusHeals
<1>4. Around' /\ OnBus'
  <2>1. CASE BusReleased
    <3>1. bus' = [bus EXCEPT !.phase = "closing"] /\ UNCHANGED <<pointer, healthy, acked, got>>
      BY <2>1 DEF BusReleased
    <3>2. bus = [phase |-> bus.phase, reading |-> bus.reading, bytes |-> bus.bytes]
      BY <1>1 DEF Around
    <3> QED BY <1>1, <3>1, <3>2, TurnIs, TurnsOk
  <2>2. CASE BusHeals
    <3>1. healthy' \in BOOLEAN /\ UNCHANGED <<bus, pointer, acked, got>>
      BY <2>2 DEF BusHeals
    <3> QED BY <1>1, <3>1 DEF Around, OnBus
  <2> QED BY <2>1, <2>2
<1> QED BY <1>1, <1>2, <1>3, <1>4, PortMoves

\* So does an entry of the interrupt routine.
LEMMA InterruptOk ==
    ASSUME Parts, CallOk', pc' = pc, interrupt_service_routine
    PROVE  Parts'
<1>1. PICK c1, c2, c3, shifted, r : Routine(c1, c2, c3, shifted, r)
  BY RoutineParts
<1>2. CellOk(Both) /\ OneByte(Both) /\ Room(Both) /\ Around /\ OnBus
  BY DEF Parts
<1>3. CellOk(r) /\ Served(r, Both)
  <2>1. port.rx # << >> => drv.size = 1
    BY <1>2, BothIs DEF OneByte
  <2> QED BY <1>1, <1>2, <2>1, RoutineOk
<1>4. /\ drv' = r.drv /\ port' = r.port /\ UNCHANGED <<bus, pointer, healthy, acked>>
      /\ got' = IF c3.drv.next > drv.next /\ drv.ignore_tdf THEN 1 ELSE got
  BY <1>1, Zenon DEF Routine
<1>5. r = Both'
  <2>1. r = [drv |-> r.drv, port |-> r.port]
    BY <1>3 DEF CellOk, IsCell
  <2> QED BY <1>4, <2>1, Zenon DEF Both
<1>6. OneByte(r)
  BY <1>2, <1>3, BothIs, Zenon DEF OneByte, Served
<1>7. pc = pc' /\ (pc \in {"arm_write", "arm_read"} => NoReceive(r.port.fifo) /\ r.port.rx = << >>)
  BY <1>2, <1>3, Zenon DEF Room, Served
<1>8. /\ pc = "arm_write" => Len(r.port.fifo) <= 3
      /\ pc = "arm_read" => Reads(r) /\ Len(r.port.fifo) <= 2
  <2>1. pc = "arm_write" => Len(r.port.fifo) <= 3
    BY <1>2, <1>3, Zenon DEF Room, Served
  <2>2. CASE pc = "arm_read"
    <3>1. Reads(Both) /\ Len(Both.port.fifo) <= 2 /\ Reads(r)
      BY <1>2, <1>3, <2>2, Zenon DEF Room, Served, Reads
    <3>2. r.port.fifo = Both.port.fifo \/ Len(r.port.fifo) <= 1
      BY <1>3, <3>1, Zenon DEF Served
    <3>3. Len(r.port.fifo) \in Nat
      <4>1. r.port.fifo \in Seq(Commands)
        BY <1>3 DEF CellOk
      <4> QED BY <4>1
    <3>4. PICK n : n = Len(r.port.fifo)
      OBVIOUS
    <3>5. n <= 1 => n <= 2
      BY <3>3, <3>4
    <3> QED BY <2>2, <3>1, <3>2, <3>4, <3>5, Zenon
  <2> QED BY <2>1, <2>2, Zenon
<1>9. Room(Both)'
  BY <1>5, <1>7, <1>8, Zenon DEF Room
<1>10. got' \in 0..1
  BY <1>2, <1>4 DEF Around
<1>11. Around' /\ OnBus'
  BY <1>2, <1>4, <1>10, Zenon DEF Around, OnBus
<1> QED BY <1>3, <1>5, <1>6, <1>9, <1>11, Zenon DEF Parts

\* A step of the thread leaves the bus alone; the history starts again or goes on.
LEMMA ThreadAround ==
    ASSUME Around, OnBus, UNCHANGED <<bus, pointer, healthy>>,
           (acked' = 0 /\ got' = 0) \/ UNCHANGED <<acked, got>>
    PROVE  Around' /\ OnBus'
<1>1. acked' \in 0..3 /\ got' \in 0..1
  BY DEF Around
<1>2. Around'
  BY <1>1 DEF Around
<1>3. OnBus'
  <2>1. bus.bytes \in 0..2
    BY DEF Around
  <2> QED BY <2>1 DEF OnBus
<1> QED BY <1>2, <1>3

\* The queue that start() leaves.
LEMMA StartQueue ==
    ASSUME NEW reading \in BOOLEAN
    PROVE  /\ <<START(reading)>> \in Seq(Commands) /\ NoReceive(<<START(reading)>>)
           /\ Len(<<START(reading)>>) = 1 /\ Len(<<START(reading)>>) <= 2
           /\ Len(<<START(reading)>>) <= 3 /\ Len(<<START(reading)>>) <= 4
<1>1. PICK x : x = START(reading)
  OBVIOUS
<1>2. x \in Commands /\ x # RECEIVE
  BY <1>1, Names
<1>3. <<x>> \in Seq(Commands) /\ Len(<<x>>) = 1 /\ <<x>>[1] = x
  BY <1>2
<1>4. NoReceive(<<x>>)
  BY <1>2, <1>3 DEF NoReceive
<1> QED BY <1>1, <1>3, <1>4

\* start() went well.
LEMMA StartSucceedsOk ==
    ASSUME Parts, NEW reading \in BOOLEAN, startSucceeds(reading)
    PROVE  /\ CellOk(Both') /\ OneByte(Both') /\ Around' /\ OnBus'
           /\ drv'.ignore_tdf = reading /\ port'.fifo = <<START(reading)>> /\ port'.rx = << >>
<1>1. Store(Started(Both, reading)) /\ UNCHANGED <<bus, pointer, healthy>>
      /\ acked' = 0 /\ got' = 0 /\ port.rx = << >>
  BY DEF startSucceeds, Starts
<1>2. CellOk(Both) /\ Around /\ OnBus
  BY DEF Parts
<1>3. PICK r : r = Started(Both, reading)
  OBVIOUS
<1>4. /\ IsCell(r) /\ r.drv.state = "starting" /\ r.drv.error = "ok"
      /\ r.drv.ignore_tdf = reading /\ SameBuffer(r, Both)
      /\ r.port.msr = {} /\ r.port.tdie = Both.port.tdie /\ r.port.rx = Both.port.rx
      /\ r.port.fifo = <<START(reading)>>
  <2>1. IsCell(Both)
    BY <1>2 DEF CellOk
  <2> QED BY <1>3, <2>1, StartedIs
<1>5. r = Both' /\ drv' = r.drv /\ port' = r.port
  <2>1. r = [drv |-> r.drv, port |-> r.port]
    BY <1>4 DEF IsCell
  <2>2. drv' = r.drv /\ port' = r.port
    BY <1>1, <1>3, Zenon DEF Store
  <2> QED BY <2>1, <2>2, Zenon DEF Both
<1>6. "starting" \in BusyStates \union FinishedStates /\ "ok" \in I2CErrors /\ {} \subseteq Flags
  BY DEF BusyStates, I2CErrors
<1>7. CellOk(r)
  BY <1>2, <1>4, <1>6, StartQueue, Zenon DEF CellOk, SameBuffer
<1>8. OneByte(r)
  BY <1>1, <1>4, BothIs, StartQueue, Zenon DEF OneByte
<1>9. Around' /\ OnBus'
  BY <1>1, <1>2, ThreadAround
<1> QED BY <1>1, <1>4, <1>5, <1>7, <1>8, <1>9, BothIs, Zenon

\* start() refused.
LEMMA StartFailsOk ==
    ASSUME Parts, NEW reading \in BOOLEAN, startFails(reading)
    PROVE  CellOk(Both') /\ OneByte(Both') /\ Around' /\ OnBus'
<1>1. Store(IF finished THEN NotEmpty(Both, reading) ELSE Refused(Both))
      /\ UNCHANGED <<bus, pointer, healthy>> /\ acked' = 0 /\ got' = 0
  BY DEF startFails
<1>2. CellOk(Both) /\ Around /\ OnBus /\ IsCell(Both)
  BY DEF Parts, CellOk
<1>3. PICK r : r = IF finished THEN NotEmpty(Both, reading) ELSE Refused(Both)
  OBVIOUS
<1>4. /\ IsCell(r) /\ SameBuffer(r, Both) /\ r.port.msr = port.msr
      /\ TdieOff(r) /\ r.port.rx = << >>
      /\ r.port.fifo = <<STOP>> \/ r.port.fifo = << >>
  <2>1. CASE finished
    <3>1. PICK x : x = reading
      OBVIOUS
    <3>2. r = NotEmpty(Both, x)
      BY <1>3, <2>1, <3>1, Zenon
    <3>3. /\ IsCell(r) /\ SameBuffer(r, Both)
          /\ r.port.msr = Both.port.msr /\ TdieOff(r) /\ r.port.rx = << >>
          /\ r.port.fifo = IF BusBusy /\ "SDF" \notin Both.port.msr THEN <<STOP>> ELSE << >>
      BY <1>2, <3>2, NotEmptyIs
    <3> QED BY <3>3, BothIs, Zenon
  <2>2. CASE ~finished
    <3>1. r = Refused(Both)
      BY <1>3, <2>2, Zenon
    <3>2. IsCell(r) /\ SameBuffer(r, Both) /\ r.port = abort_transaction_async(Both).port
      BY <1>2, <3>1, RefusedIs
    <3>3. PICK a : a = abort_transaction_async(Both)
      OBVIOUS
    <3>4. /\ a.port.msr = Both.port.msr /\ a.port.tdie = FALSE /\ a.port.rx = << >>
          /\ a.port.fifo = IF BusBusy /\ "SDF" \notin Both.port.msr THEN <<STOP>> ELSE << >>
      BY <1>2, <3>3, AbortIs
    <3> QED BY <3>2, <3>3, <3>4, BothIs, Zenon DEF TdieOff
  <2> QED BY <2>1, <2>2
<1>5. /\ r.drv.state \in BusyStates \union FinishedStates /\ r.drv.error \in I2CErrors
      /\ r.drv.ignore_tdf \in BOOLEAN
  <2>1. "starting" \in BusyStates \union FinishedStates /\ "idle" \in BusyStates \union FinishedStates
        /\ "master_fifos_not_empty" \in I2CErrors /\ "master_not_ready" \in I2CErrors
    BY DEF BusyStates, FinishedStates, I2CErrors
  <2>2. CASE finished
    <3>1. PICK x : x = reading
      OBVIOUS
    <3>2. r = NotEmpty(Both, x)
      BY <1>3, <2>2, <3>1, Zenon
    <3>3. /\ r.drv.state = "starting" /\ r.drv.error = "master_fifos_not_empty"
          /\ r.drv.ignore_tdf = x
      BY <1>2, <3>2, NotEmptyIs
    <3> QED BY <2>1, <3>1, <3>3, Zenon
  <2>3. CASE ~finished
    <3>1. r = Refused(Both)
      BY <1>3, <2>3, Zenon
    <3>2. /\ r.drv.state = "idle" /\ r.drv.error = "master_not_ready"
          /\ r.drv.ignore_tdf = Both.drv.ignore_tdf
      BY <1>2, <3>1, RefusedIs
    <3> QED BY <1>2, <2>1, <3>2, Zenon DEF CellOk
  <2> QED BY <2>2, <2>3
<1>6. r = Both' /\ drv' = r.drv /\ port' = r.port
  <2>1. r = [drv |-> r.drv, port |-> r.port]
    BY <1>4 DEF IsCell
  <2>2. drv' = r.drv /\ port' = r.port
    BY <1>1, <1>3, Zenon DEF Store
  <2> QED BY <2>1, <2>2, Zenon DEF Both
<1>7. CellOk(r)
  <2>1. r.port.tdie \in BOOLEAN
    BY <1>4, Off
  <2>2. r.port.fifo \in Seq(Commands) /\ Len(r.port.fifo) <= 4
    BY <1>4, StopOnly, Zenon
  <2>3. << >> \in Seq(Bytes) /\ Len(<< >>) <= 1
    OBVIOUS
  <2> QED BY <1>2, <1>4, <1>5, <2>1, <2>2, <2>3, BothIs, Zenon DEF CellOk, SameBuffer
<1>8. OneByte(r)
  BY <1>4, StopOnly, Zenon DEF OneByte
<1>9. Around' /\ OnBus'
  BY <1>1, <1>2, ThreadAround
<1> QED BY <1>6, <1>7, <1>8, <1>9, Zenon

\* The rest of a call: what it does to driver and port.
LEMMA ProbeIs ==
    ASSUME IsCell(Both), probeArmed
    PROVE  /\ IsCell(Both') /\ port'.fifo = Append(port.fifo, STOP)
           /\ port'.msr = port.msr /\ port'.rx = port.rx /\ port'.tdie = port.tdie
           /\ SameBuffer(Both', Both) /\ drv'.ignore_tdf = TRUE
           /\ drv'.state = drv.state /\ drv'.error = drv.error
           /\ UNCHANGED <<bus, pointer, healthy, acked, got>>
<1>1. PICK r : r = SetFifo(SetIgnore(Both, TRUE), Append(port.fifo, STOP))
  OBVIOUS
<1>2. PICK a, q, x : x = TRUE /\ a = SetIgnore(Both, x) /\ q = Append(port.fifo, STOP)
  OBVIOUS
<1>3. /\ IsCell(a) /\ a.port = port /\ a.drv.ignore_tdf = x /\ SameBuffer(a, Both)
      /\ a.drv.state = drv.state /\ a.drv.error = drv.error
  <2>1. a = SetIgnore(Both, x)
    BY <1>2
  <2> QED BY <2>1, SetIgnoreIs, BothIs DEF SameBuffer
<1>4. r = SetFifo(a, q)
  BY <1>1, <1>2
<1>5. /\ IsCell(r) /\ r.drv = a.drv /\ r.port.fifo = q /\ r.port.msr = port.msr
      /\ r.port.rx = port.rx /\ r.port.tdie = port.tdie
  <2>1. IsCell(a) /\ a.port = port
    BY <1>3
  <2> QED BY <1>4, <2>1, SetFifoIs
<1>6. Store([Both EXCEPT !.drv.ignore_tdf = TRUE, !.port.fifo = Append(@, STOP)])
      /\ UNCHANGED <<bus, pointer, healthy, acked, got>>
  BY Zenon DEF probeArmed
<1>7. [Both EXCEPT !.drv.ignore_tdf = TRUE, !.port.fifo = Append(@, STOP)] =
        SetFifo(SetIgnore(Both, TRUE), Append(Both.port.fifo, STOP))
  BY DEF SetFifo, SetIgnore
<1>8. drv' = r.drv /\ port' = r.port
  BY <1>1, <1>6, <1>7, BothIs, Zenon DEF Store
<1>9. r = Both'
  <2>1. r = [drv |-> r.drv, port |-> r.port]
    BY <1>5 DEF IsCell
  <2> QED BY <1>8, <2>1, Zenon DEF Both
<1> QED BY <1>2, <1>3, <1>5, <1>6, <1>8, <1>9, Zenon DEF SameBuffer

\* What the rest of write_async leaves.
LEMMA WriteIs ==
    ASSUME IsCell(Both), NEW data, writeArmed(data)
    PROVE  /\ IsCell(Both') /\ port'.fifo = port.fifo
           /\ port'.msr = port.msr /\ port'.rx = port.rx /\ port'.tdie = TRUE
           /\ drv'.data = data /\ drv'.size = Len(data) /\ drv'.next = 0
           /\ drv'.read_buffer = drv.read_buffer /\ drv'.ignore_tdf = drv.ignore_tdf
           /\ drv'.state = drv.state /\ drv'.error = drv.error
           /\ UNCHANGED <<bus, pointer, healthy, acked, got>>
<1>1. IsDrv(drv) /\ IsPort(port)
  BY BothIs, Zenon DEF IsCell
<1>2. PICK n : n = Len(data)
  OBVIOUS
<1>3. drv' = [drv EXCEPT !.data = data, !.size = n, !.next = 0]
      /\ port' = [port EXCEPT !.tdie = TRUE]
  BY <1>2 DEF writeArmed, Store, Both, Initialise
<1>4. /\ IsDrv(drv') /\ drv'.data = data /\ drv'.size = n /\ drv'.next = 0
      /\ drv'.read_buffer = drv.read_buffer /\ drv'.ignore_tdf = drv.ignore_tdf
      /\ drv'.state = drv.state /\ drv'.error = drv.error
  BY <1>1, <1>3 DEF IsDrv
<1>5. /\ IsPort(port') /\ port'.fifo = port.fifo
      /\ port'.msr = port.msr /\ port'.rx = port.rx /\ port'.tdie = TRUE
  BY <1>1, <1>3 DEF IsPort
<1>6. IsCell(Both')
  BY <1>4, <1>5, BothNext, Zenon DEF IsCell, Both
<1>7. UNCHANGED <<bus, pointer, healthy, acked, got>>
  BY Zenon DEF writeArmed
<1> QED BY <1>2, <1>4, <1>5, <1>6, <1>7, Zenon

\* What the rest of read_async leaves.
LEMMA ReadIs ==
    ASSUME IsCell(Both), readArmed
    PROVE  /\ IsCell(Both') /\ port'.fifo = port.fifo \o <<RECEIVE, STOP>>
           /\ port'.msr = port.msr /\ port'.rx = port.rx /\ port'.tdie = port.tdie
           /\ drv'.data = <<drv.read_buffer>> /\ drv'.size = 1 /\ drv'.next = 0
           /\ drv'.read_buffer = drv.read_buffer /\ drv'.ignore_tdf = drv.ignore_tdf
           /\ drv'.state = drv.state /\ drv'.error = drv.error
           /\ UNCHANGED <<bus, pointer, healthy, acked, got>>
<1>1. IsDrv(drv) /\ IsPort(port)
  BY BothIs, Zenon DEF IsCell
<1>2. PICK q, b : q = port.fifo \o <<RECEIVE, STOP>> /\ b = <<drv.read_buffer>>
  OBVIOUS
<1>3. drv' = [drv EXCEPT !.data = b, !.size = 1, !.next = 0]
      /\ port' = [port EXCEPT !.fifo = q]
  BY <1>2 DEF readArmed, Store, Both, Initialise
<1>4. /\ IsDrv(drv') /\ drv'.data = b /\ drv'.size = 1 /\ drv'.next = 0
      /\ drv'.read_buffer = drv.read_buffer /\ drv'.ignore_tdf = drv.ignore_tdf
      /\ drv'.state = drv.state /\ drv'.error = drv.error
  BY <1>1, <1>3 DEF IsDrv
<1>5. /\ IsPort(port') /\ port'.fifo = q
      /\ port'.msr = port.msr /\ port'.rx = port.rx /\ port'.tdie = port.tdie
  BY <1>1, <1>3 DEF IsPort
<1>6. IsCell(Both')
  BY <1>4, <1>5, BothNext, Zenon DEF IsCell, Both
<1>7. UNCHANGED <<bus, pointer, healthy, acked, got>>
  BY Zenon DEF readArmed
<1> QED BY <1>2, <1>4, <1>5, <1>6, <1>7, Zenon

\* The transmit buffer of Wire is empty in a probe and two bytes long at most.
LEMMA TxOk ==
    ASSUME CallOk
    PROVE  /\ TxBuffer \in Seq(Bytes) /\ Len(TxBuffer) \in 0..2
           /\ TxBuffer = << >> <=> op = "probe"
           /\ op # "probe" => Len(TxBuffer) \in 1..2
<1>1. reg \in Bytes
  BY DEF CallOk, Bytes
<1>2. CASE op = "probe"
  <2>1. TxBuffer = << >>
    BY <1>2 DEF TxBuffer
  <2> QED BY <1>2, <2>1
<1>3. CASE op = "write"
  <2>1. TxBuffer = <<reg, reg>>
    BY <1>3 DEF TxBuffer
  <2> QED BY <1>1, <1>3, <2>1
<1>4. CASE op # "probe" /\ op # "write"
  <2>1. TxBuffer = <<reg>>
    BY <1>4 DEF TxBuffer
  <2> QED BY <1>1, <1>4, <2>1
<1> QED BY <1>2, <1>3, <1>4

\* start() keeps the parts, whether it fails or not.
LEMMA StartsOk ==
    ASSUME Parts, WriteAsync \/ ReadAsync
    PROVE  Parts'
<1>1. UNCHANGED <<op, reg, status, result, switched>> /\ pc \in {"write_async", "read_async"}
  BY DEF WriteAsync, ReadAsync
<1>2. op # "none" /\ CallOk
  BY <1>1 DEF Parts, CallOk
<1>3. PICK reading \in BOOLEAN :
        \/ startSucceeds(reading) /\ pc' = IF reading THEN "arm_read" ELSE "arm_write"
        \/ startFails(reading) /\ pc' \in {"finish_write", "finish_read"}
  BY DEF WriteAsync, ReadAsync
<1>4. pc' \in {"finish_write", "finish_read", "arm_write", "arm_read"}
  BY <1>3
<1>5. CallOk'
  <2>1. pc' \in {"ready", "write_async", "arm_write", "finish_write",
               "read_async", "arm_read", "finish_read"} /\ pc' # "ready"
    BY <1>4
  <2> QED BY <1>1, <1>2, <2>1, Zenon DEF CallOk
<1>6. CASE startSucceeds(reading) /\ pc' = IF reading THEN "arm_read" ELSE "arm_write"
  <2>1. /\ CellOk(Both') /\ OneByte(Both') /\ Around' /\ OnBus'
        /\ drv'.ignore_tdf = reading /\ port'.fifo = <<START(reading)>> /\ port'.rx = << >>
    BY <1>6, StartSucceedsOk
  <2>2. pc' = "arm_read" => reading
    BY <1>6
  <2>3. Reads(Both') <=> reading
    BY <2>1, BothNext, Zenon DEF Reads
  <2>4. Room(Both)'
    BY <2>1, <2>2, <2>3, BothNext, StartQueue, Zenon DEF Room
  <2> QED BY <1>5, <2>1, <2>4, Zenon DEF Parts
<1>7. CASE startFails(reading) /\ pc' \in {"finish_write", "finish_read"}
  <2>1. CellOk(Both') /\ OneByte(Both') /\ Around' /\ OnBus'
    BY <1>7, StartFailsOk
  <2>2. Room(Both)'
    BY <1>7 DEF Room
  <2> QED BY <1>5, <2>1, <2>2, Zenon DEF Parts
<1> QED BY <1>3, <1>6, <1>7

\* So does the rest of write_async: start() left room for its commands.
LEMMA ArmWriteOk ==
    ASSUME Parts, ArmWrite
    PROVE  Parts'
<1>1. /\ UNCHANGED <<op, reg, status, result, switched>>
      /\ pc = "arm_write" /\ pc' = "finish_write"
      /\ IF TxBuffer = << >> THEN probeArmed ELSE writeArmed(TxBuffer)
  BY DEF ArmWrite
<1>2. CellOk(Both) /\ OneByte(Both) /\ Room(Both) /\ Around /\ OnBus /\ CallOk /\ IsCell(Both)
  BY DEF Parts, CellOk
<1>3. CallOk'
  BY <1>1, <1>2 DEF CallOk
<1>4. Room(Both)'
  BY <1>1 DEF Room
<1>5. /\ port.fifo \in Seq(Commands) /\ Len(port.fifo) <= 3 /\ NoReceive(port.fifo)
      /\ port.rx = << >> /\ Len(port.fifo) \in Nat
  <2>1. port.fifo \in Seq(Commands)
    BY <1>2, BothIs DEF CellOk
  <2>2. Len(port.fifo) \in Nat
    BY <2>1
  <2> QED BY <1>1, <1>2, <2>1, <2>2, BothIs DEF Room
<1>6. CASE TxBuffer = << >>
  <2>1. /\ IsCell(Both') /\ port'.fifo = Append(port.fifo, STOP)
        /\ port'.msr = port.msr /\ port'.rx = port.rx /\ port'.tdie = port.tdie
        /\ SameBuffer(Both', Both) /\ drv'.ignore_tdf = TRUE
        /\ drv'.state = drv.state /\ drv'.error = drv.error
        /\ UNCHANGED <<bus, pointer, healthy, acked, got>>
    BY <1>1, <1>2, <1>6, ProbeIs, Zenon
  <2>2. PICK q, f : q = Append(f, STOP) /\ f = port.fifo
    OBVIOUS
  <2>3. q \in Seq(Commands) /\ Len(q) = Len(f) + 1 /\ NoReceive(q)
    BY <1>5, <2>2, Names, AppendOf, NoReceiveAppend
  <2>4. Len(q) <= 4
    BY <1>5, <2>2, <2>3
  <2>5. drv'.ignore_tdf \in BOOLEAN
    BY <2>1, Zenon
  <2>6. CellOk(Both')
    BY <1>2, <2>1, <2>2, <2>3, <2>4, <2>5, BothIs, BothNext, Zenon DEF CellOk, SameBuffer
  <2>7. OneByte(Both')
    BY <1>5, <2>1, <2>2, <2>3, BothNext, Zenon DEF OneByte
  <2>8. Around' /\ OnBus'
    BY <1>2, <2>1, ThreadAround
  <2> QED BY <1>3, <1>4, <2>6, <2>7, <2>8, Zenon DEF Parts
<1>7. CASE TxBuffer # << >>
  <2>1. PICK data : data = TxBuffer
    OBVIOUS
  <2>2. /\ IsCell(Both') /\ port'.fifo = port.fifo
        /\ port'.msr = port.msr /\ port'.rx = port.rx /\ port'.tdie = TRUE
        /\ drv'.data = data /\ drv'.size = Len(data) /\ drv'.next = 0
        /\ drv'.read_buffer = drv.read_buffer /\ drv'.ignore_tdf = drv.ignore_tdf
        /\ drv'.state = drv.state /\ drv'.error = drv.error
        /\ UNCHANGED <<bus, pointer, healthy, acked, got>>
    BY <1>1, <1>2, <1>7, <2>1, WriteIs, Zenon
  <2>3. data \in Seq(Bytes) /\ Len(data) \in 0..2
    BY <1>2, <2>1, TxOk
  <2>4. 0 \in 0..Len(data)
    BY <2>3
  <2>5. port'.tdie \in BOOLEAN
    BY <2>2, Zenon
  <2>6. CellOk(Both')
    BY <1>2, <2>2, <2>3, <2>4, <2>5, BothIs, BothNext, Zenon DEF CellOk
  <2>7. OneByte(Both')
    BY <1>5, <2>2, BothNext, Zenon DEF OneByte
  <2>8. Around' /\ OnBus'
    BY <1>2, <2>2, ThreadAround
  <2> QED BY <1>3, <1>4, <2>6, <2>7, <2>8, Zenon DEF Parts
<1> QED BY <1>6, <1>7

\* So does the rest of read_async.
LEMMA ArmReadOk ==
    ASSUME Parts, ArmRead
    PROVE  Parts'
<1>1. /\ UNCHANGED <<op, reg, status, result, switched>>
      /\ pc = "arm_read" /\ pc' = "finish_read" /\ readArmed
  BY DEF ArmRead
<1>2. CellOk(Both) /\ OneByte(Both) /\ Room(Both) /\ Around /\ OnBus /\ CallOk /\ IsCell(Both)
  BY DEF Parts, CellOk
<1>3. CallOk'
  BY <1>1, <1>2 DEF CallOk
<1>4. Room(Both)'
  BY <1>1 DEF Room
<1>5. /\ IsCell(Both') /\ port'.fifo = port.fifo \o <<RECEIVE, STOP>>
      /\ port'.msr = port.msr /\ port'.rx = port.rx /\ port'.tdie = port.tdie
      /\ drv'.data = <<drv.read_buffer>> /\ drv'.size = 1 /\ drv'.next = 0
      /\ drv'.read_buffer = drv.read_buffer /\ drv'.ignore_tdf = drv.ignore_tdf
      /\ drv'.state = drv.state /\ drv'.error = drv.error
      /\ UNCHANGED <<bus, pointer, healthy, acked, got>>
  BY <1>1, <1>2, ReadIs, Zenon
<1>6. PICK f, x, y, q : f = port.fifo /\ x = RECEIVE /\ y = STOP /\ q = f \o <<x, y>>
  OBVIOUS
<1>7. f \in Seq(Commands) /\ Len(f) <= 2 /\ x \in Commands /\ y \in Commands
  BY <1>1, <1>2, <1>6, Names, BothIs, Zenon DEF CellOk, Room
<1>8. q \in Seq(Commands) /\ Len(q) = Len(f) + 2 /\ Len(f) \in Nat
  <2>1. q \in Seq(Commands) /\ Len(q) = Len(f) + 2 /\ Len(f) \in Nat
    <3>1. PICK p : p = <<x, y>>
      OBVIOUS
    <3>2. p \in Seq(Commands) /\ Len(p) = 2
      BY <1>7, <3>1
    <3>3. q = f \o p
      BY <1>6, <3>1
    <3>4. f \in Seq(Commands)
      BY <1>7
    <3>5. q \in Seq(Commands) /\ Len(q) = Len(f) + Len(p) /\ Len(f) \in Nat
      BY <3>2, <3>3, <3>4, ConcatOf
    <3> QED BY <3>2, <3>5
  <2> QED BY <2>1
<1>9. Len(q) <= 4
  <2>1. PICK m, n : m = Len(q) /\ n = Len(f)
    OBVIOUS
  <2>2. m = n + 2 /\ n \in Nat /\ n <= 2
    BY <1>7, <1>8, <2>1
  <2>3. m <= 4
    BY <2>2
  <2> QED BY <2>1, <2>3
<1>10. drv'.data \in Seq(Bytes) /\ Len(drv'.data) = 1
  <2>1. PICK b : b = drv.read_buffer
    OBVIOUS
  <2>2. b \in Bytes
    BY <1>2, <2>1, BothIs, Zenon DEF CellOk
  <2>3. <<b>> \in Seq(Bytes) /\ Len(<<b>>) = 1
    BY <2>2
  <2> QED BY <1>5, <2>1, <2>3, Zenon
<1>11. 1 \in 0..2 /\ 0 \in 0..1
  OBVIOUS
<1>12. CellOk(Both')
  BY <1>2, <1>5, <1>6, <1>8, <1>9, <1>10, <1>11, BothIs, BothNext, Zenon DEF CellOk
<1>13. OneByte(Both')
  BY <1>5, BothNext, Zenon DEF OneByte
<1>14. Around' /\ OnBus'
  BY <1>2, <1>5, ThreadAround
<1> QED BY <1>3, <1>4, <1>12, <1>13, <1>14, Zenon DEF Parts

\* A step that leaves driver, port and bus alone and is not inside a call.
LEMMA CallStepOk ==
    ASSUME Parts, UNCHANGED masterVars, CallOk', pc' \notin {"arm_write", "arm_read"}
    PROVE  Parts'
<1>1. Both' = Both
  BY DEF masterVars, Both
<1>2. Around' /\ OnBus'
  BY DEF Parts, Around, OnBus, masterVars
<1>3. Room(Both)'
  BY DEF Room
<1> QED BY <1>1, <1>2, <1>3, Zenon DEF Parts

\* So do a new call and the returns.
LEMMA CallsOk ==
    ASSUME Parts, NewCall \/ EndTransmission \/ RequestFrom
    PROVE  Parts'
<1>1. CallOk
  BY DEF Parts
<1>2. CASE NewCall
  <2>1. PICK o \in Ops, x \in Registers : Call(o, x)
    BY <1>2 DEF NewCall
  <2>2. CallOk' /\ pc' = "write_async" /\ UNCHANGED masterVars
    <3>1. 0 \in Bytes
      BY DEF Bytes
    <3>2. /\ op' = o /\ reg' = x /\ pc' = "write_async" /\ status' = NoStatus
          /\ result' = NoResult /\ UNCHANGED <<masterVars, switched>>
      BY <2>1 DEF Call
    <3>3. NoResult \in [status : {0, ReadFailed, NoStatus}, value : Bytes]
      BY <3>1 DEF NoResult
    <3>4. o # "none"
      BY DEF Ops
    <3> QED BY <1>1, <3>2, <3>3, <3>4 DEF CallOk
  <2> QED BY <2>2, CallStepOk
<1>3. CASE EndTransmission
  <2>1. /\ pc = "finish_write" /\ status' = toWireResult(drv.error)
        /\ UNCHANGED <<masterVars, reg, result, switched>>
        /\ \/ pc' = "read_async" /\ UNCHANGED op
           \/ pc' = "ready" /\ op' = "none"
    BY <1>3 DEF EndTransmission
  <2>2. status' \in WireResults
    BY <2>1 DEF WireResults, toWireResult
  <2>3. CallOk'
    <3>1. op # "none"
      BY <1>1, <2>1 DEF CallOk
    <3> QED BY <1>1, <2>1, <2>2, <3>1 DEF CallOk
  <2>4. pc' \notin {"arm_write", "arm_read"}
    BY <2>1
  <2> QED BY <2>1, <2>3, <2>4, CallStepOk
<1>4. CASE RequestFrom
  <2>1. /\ pc' = "ready" /\ op' = "none" /\ UNCHANGED <<masterVars, reg, status, switched>>
        /\ \/ result' = [status |-> 0, value |-> drv.read_buffer]
           \/ result' = [status |-> ReadFailed, value |-> 0]
    BY <1>4 DEF RequestFrom
  <2>2. drv.read_buffer \in Bytes /\ 0 \in Bytes
    BY BothIs DEF Parts, CellOk, Bytes
  <2>3. CallOk'
    BY <1>1, <2>1, <2>2 DEF CallOk
  <2> QED BY <2>1, <2>3, CallStepOk
<1> QED BY <1>2, <1>3, <1>4

\* Every step keeps the parts.
LEMMA StepOk ==
    ASSUME Parts, [Next]_vars
    PROVE  Parts'
<1>1. CallOk
  BY DEF Parts
<1>2. CASE NewCall
  BY <1>2, CallsOk
<1>3. CASE Thread
  BY <1>3, StartsOk, ArmWriteOk, ArmReadOk, CallsOk DEF Thread
<1>4. CASE Interrupt
  BY <1>1, <1>4, MeanwhileOk, InterruptOk DEF Interrupt
<1>5. CASE Port
  BY <1>1, <1>5, MeanwhileOk, PortOk DEF Port
<1>6. CASE Fault
  BY <1>1, <1>6, MeanwhileOk, PortOk DEF Fault
<1>7. CASE Release \/ Heal
  BY <1>7, ReleaseOk DEF Release, Heal
<1>8. CASE UNCHANGED vars
  <2>1. UNCHANGED masterVars /\ UNCHANGED callVars
    BY <1>8 DEF vars
  <2>2. Both' = Both
    BY <2>1 DEF masterVars, Both
  <2>3. Around' /\ OnBus'
    BY <2>1 DEF Parts, Around, OnBus, masterVars
  <2>4. CallOk' /\ pc' = pc
    BY <1>1, <2>1 DEF CallOk, callVars
  <2>5. Room(Both)'
    BY <2>2, <2>4 DEF Parts, Room
  <2> QED BY <2>2, <2>3, <2>4, <2>5, Zenon DEF Parts
<1> QED BY <1>2, <1>3, <1>4, <1>5, <1>6, <1>7, <1>8 DEF Next

\* They hold after begin().
LEMMA InitOk ==
    ASSUME Init
    PROVE  Parts
<1>1. /\ drv = [state |-> "idle", error |-> "ok", ignore_tdf |-> FALSE,
                data |-> << >>, size |-> 0, next |-> 0, read_buffer |-> 0]
      /\ port = [fifo |-> << >>, msr |-> {}, rx |-> << >>, tdie |-> FALSE]
      /\ bus = [phase |-> "free", reading |-> FALSE, bytes |-> 0]
      /\ pointer \in Registers /\ healthy = FALSE /\ acked = 0 /\ got = 0
      /\ op = "none" /\ reg \in Registers /\ pc = "ready"
      /\ status = NoStatus /\ result = NoResult /\ switched = FALSE
  BY DEF Init, MasterInit
<1>2. /\ drv.state = "idle" /\ drv.error = "ok" /\ drv.ignore_tdf = FALSE /\ drv.data = << >>
      /\ drv.size = 0 /\ drv.next = 0 /\ drv.read_buffer = 0 /\ IsDrv(drv)
  BY <1>1 DEF IsDrv
<1>3. port.fifo = << >> /\ port.msr = {} /\ port.rx = << >> /\ port.tdie = FALSE /\ IsPort(port)
  BY <1>1 DEF IsPort
<1>4. IsCell(Both)
  BY <1>2, <1>3 DEF IsCell, Both
<1>5. /\ "idle" \in BusyStates \union FinishedStates /\ "ok" \in I2CErrors /\ 0 \in Bytes
      /\ {} \subseteq Flags /\ << >> \in Seq(Bytes) /\ 0 \in 0..2 /\ 0 \in 0..0
      /\ Len(<< >>) = 0 /\ Len(<< >>) <= 1
  BY DEF FinishedStates, I2CErrors, Bytes
<1>6. CellOk(Both)
  <2>1. drv.ignore_tdf \in BOOLEAN /\ port.tdie \in BOOLEAN
    BY <1>2, <1>3, Zenon
  <2> QED BY <1>2, <1>3, <1>4, <1>5, <2>1, BothIs, StopOnly, Zenon DEF CellOk
<1>7. OneByte(Both)
  BY <1>3, BothIs, StopOnly, Zenon DEF OneByte
<1>8. Room(Both) /\ CallOk
  BY <1>1, <1>5 DEF Room, CallOk, NoResult
<1>9. Around /\ OnBus
  <2>1. bus.phase = "free" /\ bus.reading = FALSE /\ bus.bytes = 0
        /\ bus = [phase |-> bus.phase, reading |-> bus.reading, bytes |-> bus.bytes]
    BY <1>1
  <2>2. pointer \in Bytes /\ healthy \in BOOLEAN
    BY <1>1 DEF Bytes
  <2> QED BY <1>1, <2>1, <2>2 DEF Around, OnBus
<1> QED BY <1>6, <1>7, <1>8, <1>9 DEF Parts

\* Nothing the driver, the bus and the callers do, preempted anywhere, leaves the
\* ranges of their variables; the transmit FIFO never holds more than its four
\* commands and the receive FIFO never more than a byte.
THEOREM TypeCorrect == Spec => []TypeOK
<1>1. Init => Parts
  BY InitOk
<1>2. Parts /\ [Next]_vars => Parts'
  BY StepOk
<1>3. Parts => TypeOK
  BY TInvParts DEF TInv
<1> QED BY <1>1, <1>2, <1>3, PTL DEF Spec

-----------------------------------------------------------------------------
(***************************************************************************)
(* What a call is told, as long as the thread is not switched away inside  *)
(* it.  First the port: its steps by what they change.                     *)
(***************************************************************************)
Command == port.fifo[1]
Takes(name) == port.fifo # << >> /\ Command.cmd = name /\ port'.fifo = Tail(port.fifo)
Phase(p) == bus'.phase = p /\ (BusReads' <=> BusReads) /\ bus'.bytes = bus.bytes
Kept == UNCHANGED <<pointer, acked>>

MStart ==
    /\ Takes("START") /\ bus.phase \in {"free", "owned"} /\ Kept /\ port'.msr = {} /\ port'.rx = << >>
    /\ bus'.phase = "address" /\ bus'.bytes = 0 /\ (BusReads' <=> Command.reading)
MAck ==
    /\ bus.phase = "address" /\ port'.fifo = port.fifo /\ Phase("owned")
    /\ port'.msr = {} /\ port'.rx = << >> /\ acked' = 1 /\ pointer' = pointer
MByte ==
    /\ Takes("BYTE") /\ bus.phase = "owned" /\ ~BusReads
    /\ bus'.phase = "owned" /\ (BusReads' <=> BusReads) /\ bus'.bytes = bus.bytes + 1
    /\ port'.msr = {} /\ port'.rx = << >> /\ acked' = acked + 1
    /\ pointer' = IF bus.bytes = 0 THEN Command.data ELSE pointer
MReceive ==
    /\ Takes("RECEIVE") /\ bus.phase = "owned" /\ BusReads /\ Phase("owned")
    /\ port'.msr = {} /\ port'.rx = <<pointer>> /\ Kept
MFifoError ==
    /\ port.fifo # << >>
    /\ \/ Command.cmd = "BYTE" /\ bus.phase = "owned" /\ BusReads
       \/ Command.cmd = "RECEIVE" /\ bus.phase = "owned" /\ ~BusReads
       \/ Command.cmd \in {"BYTE", "RECEIVE"} /\ bus.phase = "free"
MStop ==
    /\ Takes("STOP") /\ port'.msr = {} /\ port'.rx = << >> /\ Kept
    /\ \/ bus.phase = "owned" /\ Phase("closing")
       \/ bus.phase = "free" /\ Phase("free")
MCloses ==
    /\ bus.phase = "closing" /\ Phase("free") /\ Kept
    /\ port'.fifo = port.fifo /\ port'.msr = {"SDF"} /\ port'.rx = << >>
MFails ==
    /\ Kept /\ port'.rx = << >>
    /\ \/ bus.phase = "address" /\ Phase("closing") /\ port'.msr = {"NDF"} /\ port'.fifo = port.fifo
       \/ Takes("BYTE") /\ bus.phase = "owned" /\ Phase("closing") /\ port'.msr = {"NDF"}
       \/ bus.phase \in {"address", "owned"} /\ Phase("free") /\ port'.msr = {"ALF"} /\ port'.fifo = port.fifo
       \/ /\ bus.phase \in {"address", "owned", "stuck"} /\ Phase("stuck") /\ port'.msr = {"PLTF"}
          /\ port'.fifo = port.fifo

\* The port and the bus do nothing while an interrupt is pending.
Idle == port.msr = {} /\ port.rx = << >> /\ (Asks => port.fifo # << >>)

\* The port works when there is nothing for the interrupt routine.
LEMMA PromptIs == Prompt <=> Idle
BY Zenon DEF Prompt, InterruptPending, Idle, Asks

\* Changing the phase leaves the rest of the bus.
LEMMA PhaseIs ==
    ASSUME Around, NEW p, bus' = [bus EXCEPT !.phase = p]
    PROVE  Phase(p)
<1>1. bus = [phase |-> bus.phase, reading |-> bus.reading, bytes |-> bus.bytes]
  BY DEF Around
<1>2. Turns(p)
  BY <1>1, TurnIs
<1> QED BY <1>2, Zenon DEF Turns, Phase, BusReads

\* Every step of the port or of a fault is one of eight moves, told by fields.
LEMMA PortFields ==
    ASSUME Parts, PortStep \/ FaultStep
    PROVE  /\ Idle /\ drv' = drv /\ got' = got /\ (Asks' <=> Asks)
           /\ \/ MStart \/ MAck \/ MByte \/ MReceive \/ MFifoError \/ MStop \/ MCloses \/ MFails
<1>1. IsPort(port) /\ Around
  BY PortParts DEF Parts
<1>2. CASE BusStart
  <2>1. /\ PopCommand /\ drv' = drv /\ got' = got /\ UNCHANGED <<pointer, acked>> /\ Prompt
        /\ bus' = [phase |-> "address", reading |-> port.fifo[1].reading, bytes |-> 0]
        /\ port.fifo # << >> /\ port.fifo[1].cmd = "START" /\ bus.phase \in {"free", "owned"}
    BY <1>2 DEF BusStart, NextCommand
  <2>2. /\ port'.fifo = Tail(port.fifo) /\ port'.msr = port.msr
        /\ port'.rx = port.rx /\ port'.tdie = port.tdie
    BY <1>1, <2>1, PopIs
  <2>3. bus'.phase = "address" /\ bus'.reading = port.fifo[1].reading /\ bus'.bytes = 0
    BY <2>1
  <2> QED BY <2>1, <2>2, <2>3, PromptIs, Zenon DEF Idle, MStart, Takes, Command, Kept, Asks, BusReads
<1>3. CASE BusAddressAck
  <2>1. /\ UNCHANGED <<drv, port, pointer, got>> /\ acked' = 1 /\ Prompt
        /\ bus.phase = "address" /\ bus' = [bus EXCEPT !.phase = "owned"]
    BY <1>3 DEF BusAddressAck
  <2>2. Phase("owned")
    BY <1>1, <2>1, PhaseIs
  <2> QED BY <2>1, <2>2, PromptIs, Zenon DEF Idle, MAck, Asks
<1>4. CASE BusAddressNak
  <2>1. /\ drv' = drv /\ got' = got /\ UNCHANGED <<pointer, acked>> /\ Raise("NDF") /\ Prompt
        /\ bus' = [bus EXCEPT !.phase = "closing"] /\ bus.phase = "address"
    BY <1>4 DEF BusAddressNak, FaultsNow
  <2>2. Phase("closing")
    BY <1>1, <2>1, PhaseIs
  <2>3. /\ port'.fifo = port.fifo /\ port'.msr = port.msr \union {"NDF"}
        /\ port'.rx = port.rx /\ port'.tdie = port.tdie
    BY <1>1, <2>1, RaiseIs
  <2>4. port'.msr = {"NDF"}
    BY <2>1, <2>3, PromptIs DEF Idle
  <2> QED BY <2>1, <2>2, <2>3, <2>4, PromptIs, Zenon DEF Idle, MFails, Kept, Asks
<1>5. CASE BusByteAck
  <2>1. /\ PopCommand /\ drv' = drv /\ got' = got /\ Prompt
        /\ port.fifo # << >> /\ port.fifo[1].cmd = "BYTE"
        /\ bus.phase = "owned" /\ ~bus.reading
        /\ bus' = [bus EXCEPT !.bytes = @ + 1] /\ acked' = acked + 1
        /\ pointer' = IF bus.bytes = 0 THEN port.fifo[1].data ELSE pointer
    BY <1>5 DEF BusByteAck, NextCommand
  <2>2. bus'.phase = bus.phase /\ bus'.reading = bus.reading /\ bus'.bytes = bus.bytes + 1
    <3>1. bus = [phase |-> bus.phase, reading |-> bus.reading, bytes |-> bus.bytes]
      BY <1>1 DEF Around
    <3> QED BY <2>1, <3>1
  <2>3. /\ port'.fifo = Tail(port.fifo) /\ port'.msr = port.msr
        /\ port'.rx = port.rx /\ port'.tdie = port.tdie
    BY <1>1, <2>1, PopIs
  <2> QED BY <2>1, <2>2, <2>3, PromptIs, Zenon DEF Idle, MByte, Takes, Command, Asks, BusReads
<1>6. CASE BusByteNak
  <2>1. /\ drv' = drv /\ got' = got /\ UNCHANGED <<pointer, acked>> /\ Prompt
        /\ port.fifo # << >> /\ port.fifo[1].cmd = "BYTE" /\ bus.phase = "owned"
        /\ bus' = [bus EXCEPT !.phase = "closing"]
        /\ port' = [port EXCEPT !.fifo = Tail(@), !.msr = @ \union {"NDF"}]
    BY <1>6 DEF BusByteNak, NextCommand
  <2>2. Phase("closing")
    BY <1>1, <2>1, PhaseIs
  <2>3. /\ port'.fifo = Tail(port.fifo) /\ port'.msr = port.msr \union {"NDF"}
        /\ port'.rx = port.rx /\ port'.tdie = port.tdie
    BY <1>1, <2>1, PopRaiseIs
  <2>4. port'.msr = {"NDF"}
    BY <2>1, <2>3, PromptIs DEF Idle
  <2> QED BY <2>1, <2>2, <2>3, <2>4, PromptIs, Zenon DEF Idle, MFails, Takes, Command, Kept, Asks
<1>7. CASE BusReceive
  <2>1. /\ UNCHANGED <<drv, bus, pointer, acked, got>> /\ Prompt
        /\ port.fifo # << >> /\ port.fifo[1].cmd = "RECEIVE"
        /\ bus.phase = "owned" /\ bus.reading
        /\ port' = [port EXCEPT !.fifo = Tail(@), !.rx = <<pointer>>]
    BY <1>7 DEF BusReceive, NextCommand
  <2>2. /\ port'.fifo = Tail(port.fifo) /\ port'.msr = port.msr
        /\ port'.rx = <<pointer>> /\ port'.tdie = port.tdie
    BY <1>1, <2>1, PopReceiveIs
  <2> QED BY <2>1, <2>2, PromptIs, Zenon DEF Idle, MReceive, Takes, Command, Phase, Kept, Asks, BusReads
<1>8. CASE BusFifoError
  <2>1. /\ drv' = drv /\ got' = got /\ Prompt /\ MFifoError
        /\ port' = [port EXCEPT !.fifo = Tail(@), !.msr = @ \union {"FEF"}]
    BY <1>8, Zenon DEF BusFifoError, NextCommand, MFifoError, Command, BusReads
  <2>2. port'.tdie = port.tdie
    BY <1>1, <2>1, PopRaiseIs
  <2> QED BY <2>1, <2>2, PromptIs, Zenon DEF Asks
<1>9. CASE BusStop
  <2>1. /\ PopCommand /\ drv' = drv /\ got' = got /\ UNCHANGED <<pointer, acked>> /\ Prompt
        /\ port.fifo # << >> /\ port.fifo[1].cmd = "STOP"
        /\ \/ bus.phase = "owned" /\ bus' = [bus EXCEPT !.phase = "closing"]
           \/ bus.phase = "free" /\ bus' = bus
    BY <1>9 DEF BusStop, NextCommand, BusBusy
  <2>2. \/ bus.phase = "owned" /\ Phase("closing")
        \/ bus.phase = "free" /\ Phase("free")
    <3>1. CASE bus.phase = "owned" /\ bus' = [bus EXCEPT !.phase = "closing"]
      BY <1>1, <3>1, PhaseIs
    <3>2. CASE bus.phase = "free" /\ bus' = bus
      BY <3>2, Zenon DEF Phase, BusReads
    <3> QED BY <2>1, <3>1, <3>2
  <2>3. /\ port'.fifo = Tail(port.fifo) /\ port'.msr = port.msr
        /\ port'.rx = port.rx /\ port'.tdie = port.tdie
    BY <1>1, <2>1, PopIs
  <2> QED BY <2>1, <2>2, <2>3, PromptIs, Zenon DEF Idle, MStop, Takes, Command, Kept, Asks
<1>10. CASE BusCloses
  <2>1. /\ drv' = drv /\ got' = got /\ UNCHANGED <<pointer, acked>> /\ Raise("SDF") /\ Prompt
        /\ bus' = [bus EXCEPT !.phase = "free"] /\ bus.phase = "closing"
    BY <1>10 DEF BusCloses
  <2>2. Phase("free")
    BY <1>1, <2>1, PhaseIs
  <2>3. /\ port'.fifo = port.fifo /\ port'.msr = port.msr \union {"SDF"}
        /\ port'.rx = port.rx /\ port'.tdie = port.tdie
    BY <1>1, <2>1, RaiseIs
  <2>4. port'.msr = {"SDF"}
    BY <2>1, <2>3, PromptIs DEF Idle
  <2> QED BY <2>1, <2>2, <2>3, <2>4, PromptIs, Zenon DEF Idle, MCloses, Kept, Asks
<1>11. CASE BusArbitrationLost
  <2>1. /\ drv' = drv /\ got' = got /\ UNCHANGED <<pointer, acked>> /\ Raise("ALF") /\ Prompt
        /\ bus' = [bus EXCEPT !.phase = "free"] /\ bus.phase \in {"address", "owned"}
    BY <1>11 DEF BusArbitrationLost, FaultsNow
  <2>2. Phase("free")
    BY <1>1, <2>1, PhaseIs
  <2>3. /\ port'.fifo = port.fifo /\ port'.msr = port.msr \union {"ALF"}
        /\ port'.rx = port.rx /\ port'.tdie = port.tdie
    BY <1>1, <2>1, RaiseIs
  <2>4. port'.msr = {"ALF"}
    BY <2>1, <2>3, PromptIs DEF Idle
  <2> QED BY <2>1, <2>2, <2>3, <2>4, PromptIs, Zenon DEF Idle, MFails, Kept, Asks
<1>12. CASE BusSticks
  <2>1. /\ drv' = drv /\ got' = got /\ UNCHANGED <<pointer, acked>> /\ Raise("PLTF") /\ Prompt
        /\ bus' = [bus EXCEPT !.phase = "stuck"] /\ bus.phase \in {"address", "owned", "stuck"}
    BY <1>12 DEF BusSticks, FaultsNow
  <2>2. Phase("stuck")
    BY <1>1, <2>1, PhaseIs
  <2>3. /\ port'.fifo = port.fifo /\ port'.msr = port.msr \union {"PLTF"}
        /\ port'.rx = port.rx /\ port'.tdie = port.tdie
    BY <1>1, <2>1, RaiseIs
  <2>4. port'.msr = {"PLTF"}
    BY <2>1, <2>3, PromptIs DEF Idle
  <2> QED BY <2>1, <2>2, <2>3, <2>4, PromptIs, Zenon DEF Idle, MFails, Kept, Asks
<1> QED BY <1>2, <1>3, <1>4, <1>5, <1>6, <1>7, <1>8, <1>9, <1>10, <1>11, <1>12, Zenon
        DEF PortStep, FaultStep

\* The queues of a transaction.
LEMMA Queues ==
    /\ <<STOP>> # << >> /\ Tail(<<STOP>>) = << >> /\ <<STOP>>[1].cmd = "STOP"
    /\ \A r : /\ <<START(r)>> # << >> /\ Tail(<<START(r)>>) = << >>
              /\ <<START(r)>>[1].cmd = "START" /\ <<START(r)>>[1].reading = r
              /\ <<START(r), STOP>> # << >> /\ Tail(<<START(r), STOP>>) = <<STOP>>
              /\ <<START(r), STOP>>[1].cmd = "START" /\ <<START(r), STOP>>[1].reading = r
              /\ <<START(r), RECEIVE, STOP>> # << >>
              /\ Tail(<<START(r), RECEIVE, STOP>>) = <<RECEIVE, STOP>>
              /\ <<START(r), RECEIVE, STOP>>[1].cmd = "START"
              /\ <<START(r), RECEIVE, STOP>>[1].reading = r
    /\ <<RECEIVE, STOP>> # << >> /\ Tail(<<RECEIVE, STOP>>) = <<STOP>>
    /\ <<RECEIVE, STOP>>[1].cmd = "RECEIVE"
    /\ \A d : /\ <<BYTE(d)>> # << >> /\ Tail(<<BYTE(d)>>) = << >>
              /\ <<BYTE(d)>>[1].cmd = "BYTE" /\ <<BYTE(d)>>[1].data = d
              /\ <<BYTE(d), BYTE(d)>> # << >> /\ Tail(<<BYTE(d), BYTE(d)>>) = <<BYTE(d)>>
              /\ <<BYTE(d), BYTE(d)>>[1].cmd = "BYTE" /\ <<BYTE(d), BYTE(d)>>[1].data = d
<1>1. ASSUME NEW x, NEW y, NEW z
      PROVE  /\ <<x>> # << >> /\ Tail(<<x>>) = << >> /\ <<x>>[1] = x
             /\ <<x, y>> # << >> /\ Tail(<<x, y>>) = <<y>> /\ <<x, y>>[1] = x
             /\ <<x, y, z>> # << >> /\ Tail(<<x, y, z>>) = <<y, z>> /\ <<x, y, z>>[1] = x
  OBVIOUS
<1>2. ASSUME NEW r
      PROVE  /\ <<START(r)>> # << >> /\ Tail(<<START(r)>>) = << >>
             /\ <<START(r)>>[1] = START(r)
             /\ <<START(r), STOP>> # << >> /\ Tail(<<START(r), STOP>>) = <<STOP>>
             /\ <<START(r), STOP>>[1] = START(r)
             /\ <<START(r), RECEIVE, STOP>> # << >>
             /\ Tail(<<START(r), RECEIVE, STOP>>) = <<RECEIVE, STOP>>
             /\ <<START(r), RECEIVE, STOP>>[1] = START(r)
  <2>1. PICK x, y, z : x = START(r) /\ y = RECEIVE /\ z = STOP
    OBVIOUS
  <2>2. <<x>> # << >> /\ Tail(<<x>>) = << >> /\ <<x>>[1] = x
    BY <1>1, Zenon
  <2>3. <<x, z>> # << >> /\ Tail(<<x, z>>) = <<z>> /\ <<x, z>>[1] = x
    BY <1>1, Zenon
  <2>4. <<x, y, z>> # << >> /\ Tail(<<x, y, z>>) = <<y, z>> /\ <<x, y, z>>[1] = x
    OBVIOUS
  <2> QED BY <2>1, <2>2, <2>3, <2>4, Zenon
<1>3. \A r : START(r).cmd = "START" /\ START(r).reading = r
  BY Names
<1>4. ASSUME NEW d
      PROVE  /\ <<BYTE(d)>> # << >> /\ Tail(<<BYTE(d)>>) = << >> /\ <<BYTE(d)>>[1] = BYTE(d)
             /\ <<BYTE(d), BYTE(d)>> # << >> /\ Tail(<<BYTE(d), BYTE(d)>>) = <<BYTE(d)>>
             /\ <<BYTE(d), BYTE(d)>>[1] = BYTE(d)
  <2>1. PICK x : x = BYTE(d)
    OBVIOUS
  <2>2. <<x>> # << >> /\ Tail(<<x>>) = << >> /\ <<x>>[1] = x
    BY <1>1, Zenon
  <2>3. <<x, x>> # << >> /\ Tail(<<x, x>>) = <<x>> /\ <<x, x>>[1] = x
    BY <1>1, Zenon
  <2> QED BY <2>1, <2>2, <2>3, Zenon
<1>5. \A d : BYTE(d).cmd = "BYTE" /\ BYTE(d).data = d
  BY Names
<1>6. /\ <<STOP>> # << >> /\ Tail(<<STOP>>) = << >> /\ <<STOP>>[1] = STOP
      /\ <<RECEIVE, STOP>> # << >> /\ Tail(<<RECEIVE, STOP>>) = <<STOP>>
      /\ <<RECEIVE, STOP>>[1] = RECEIVE
  BY <1>1, Zenon
<1>7. STOP.cmd = "STOP" /\ RECEIVE.cmd = "RECEIVE"
  BY Names
<1>8. ASSUME NEW r
      PROVE  /\ <<START(r)>>[1].cmd = "START" /\ <<START(r)>>[1].reading = r
             /\ <<START(r), STOP>>[1].cmd = "START" /\ <<START(r), STOP>>[1].reading = r
             /\ <<START(r), RECEIVE, STOP>>[1].cmd = "START"
             /\ <<START(r), RECEIVE, STOP>>[1].reading = r
  BY <1>2, <1>3, Zenon
<1>9. ASSUME NEW d
      PROVE  /\ <<BYTE(d)>>[1].cmd = "BYTE" /\ <<BYTE(d)>>[1].data = d
             /\ <<BYTE(d), BYTE(d)>>[1].cmd = "BYTE" /\ <<BYTE(d), BYTE(d)>>[1].data = d
  BY <1>4, <1>5, Zenon
<1>10. <<STOP>>[1].cmd = "STOP" /\ <<RECEIVE, STOP>>[1].cmd = "RECEIVE"
  BY <1>6, <1>7, Zenon
<1>11. \A r : /\ <<START(r)>> # << >> /\ Tail(<<START(r)>>) = << >>
              /\ <<START(r)>>[1].cmd = "START" /\ <<START(r)>>[1].reading = r
              /\ <<START(r), STOP>> # << >> /\ Tail(<<START(r), STOP>>) = <<STOP>>
              /\ <<START(r), STOP>>[1].cmd = "START" /\ <<START(r), STOP>>[1].reading = r
              /\ <<START(r), RECEIVE, STOP>> # << >>
              /\ Tail(<<START(r), RECEIVE, STOP>>) = <<RECEIVE, STOP>>
              /\ <<START(r), RECEIVE, STOP>>[1].cmd = "START"
              /\ <<START(r), RECEIVE, STOP>>[1].reading = r
  BY <1>2, <1>8, ZenonT(60)
<1>12. \A d : /\ <<BYTE(d)>> # << >> /\ Tail(<<BYTE(d)>>) = << >>
              /\ <<BYTE(d)>>[1].cmd = "BYTE" /\ <<BYTE(d)>>[1].data = d
              /\ <<BYTE(d), BYTE(d)>> # << >> /\ Tail(<<BYTE(d), BYTE(d)>>) = <<BYTE(d)>>
              /\ <<BYTE(d), BYTE(d)>>[1].cmd = "BYTE" /\ <<BYTE(d), BYTE(d)>>[1].data = d
  BY <1>4, <1>9, ZenonT(60)
<1> QED BY <1>6, <1>10, <1>11, <1>12, ZenonT(60)

\* The queue that is left, and what cannot come from it.
LEMMA NoQueue ==
    ASSUME MStart \/ MByte \/ MReceive \/ MFifoError \/ MStop
    PROVE  port.fifo # << >>
BY Zenon DEF MStart, MByte, MReceive, MFifoError, MStop, Takes

\* With a STOP in the queue only four of them can be made.
LEMMA StopMoves ==
    ASSUME port.fifo = <<STOP>>,
           MStart \/ MAck \/ MByte \/ MReceive \/ MFifoError \/ MStop \/ MCloses \/ MFails
    PROVE  /\ MAck \/ MStop \/ MCloses \/ MFails
           /\ MStop => port'.fifo = << >>
<1>1. Command.cmd = "STOP" /\ Tail(port.fifo) = << >>
  BY Queues, Zenon DEF Command
<1>2. ~MStart /\ ~MByte /\ ~MReceive /\ ~MFifoError
  BY <1>1 DEF MStart, MByte, MReceive, MFifoError, Takes
<1>3. MStop => port'.fifo = << >>
  BY <1>1, Zenon DEF MStop, Takes
<1> QED BY <1>2, <1>3, Zenon

\* After a transaction that went well the port does nothing.
LEMMA CleanStill ==
    ASSUME Parts, Clean, PortStep \/ FaultStep
    PROVE  FALSE
<1>1. MStart \/ MAck \/ MByte \/ MReceive \/ MFifoError \/ MStop \/ MCloses \/ MFails
  BY PortFields, Zenon
<1>2. port.fifo = << >> /\ bus.phase = "free"
  BY Zenon DEF Clean, Quiet
<1>3. MAck \/ MCloses \/ MFails
  BY <1>1, <1>2, NoQueue, Zenon
<1>4. MFails => bus.phase \in {"address", "owned", "stuck"}
  BY DEF MFails
<1> QED BY <1>2, <1>3, <1>4 DEF MAck, MCloses

\* After one that failed it takes the STOP, and the failure stays.
LEMMA FailedMoves ==
    ASSUME Parts, Failed, PortStep \/ FaultStep
    PROVE  Failed' /\ UNCHANGED <<drv, got, pointer, acked>>
<1>1. /\ Idle /\ drv' = drv /\ got' = got /\ (Asks' <=> Asks)
      /\ MStart \/ MAck \/ MByte \/ MReceive \/ MFifoError \/ MStop \/ MCloses \/ MFails
  BY PortFields, Zenon
<1>2. drv.error # "ok" /\ ~Asks /\ port.msr = {}
  BY <1>1, Zenon DEF Failed, Idle
<1>3. CASE Quiet
  <2>1. port.fifo = << >> /\ bus.phase = "free"
    BY <1>3, Zenon DEF Quiet
  <2>2. MAck \/ MCloses \/ MFails
    BY <1>1, <2>1, NoQueue, Zenon
  <2>3. MFails => bus.phase \in {"address", "owned", "stuck"}
    BY DEF MFails
  <2> QED BY <2>1, <2>2, <2>3 DEF MAck, MCloses
<1>4. CASE ~Quiet
  <2>1. port.fifo = <<STOP>> /\ bus.phase \in {"free", "closing", "stuck"}
    BY <1>4, Zenon DEF Failed
  <2>2. MAck \/ MStop \/ MCloses \/ MFails
    BY <1>1, <2>1, StopMoves, Zenon
  <2>3. ~MAck
    BY <2>1 DEF MAck
  <2>4. CASE MStop
    <3>1. /\ port'.fifo = << >> /\ port'.msr = {} /\ port'.rx = << >> /\ Kept
          /\ bus'.phase = "free"
      BY <1>1, <2>1, <2>4, StopMoves DEF MStop, Phase
    <3> QED BY <1>1, <1>2, <3>1, Zenon DEF Failed, Quiet, Kept
  <2>5. CASE MCloses
    <3>1. /\ port'.fifo = <<STOP>> /\ port'.msr = {"SDF"} /\ port'.rx = << >> /\ Kept
          /\ bus'.phase = "free"
      BY <2>1, <2>5, Zenon DEF MCloses, Phase
    <3> QED BY <1>1, <1>2, <3>1, Zenon DEF Failed, Kept
  <2>6. CASE MFails
    <3>1. /\ port'.fifo = <<STOP>> /\ port'.msr = {"PLTF"} /\ port'.rx = << >> /\ Kept
          /\ bus'.phase = "stuck"
      BY <2>1, <2>6 DEF MFails, Phase
    <3>2. bus'.phase \in {"closing", "stuck"}
      BY <3>1
    <3> QED BY <1>1, <1>2, <3>1, <3>2, Zenon DEF Failed, Kept
  <2> QED BY <2>2, <2>3, <2>4, <2>5, <2>6, Zenon
<1> QED BY <1>3, <1>4, Zenon

\* While an error flag is up it waits for the interrupt routine.
LEMMA FailingStill ==
    ASSUME Parts, Failing, PortStep \/ FaultStep
    PROVE  FALSE
<1>1. port.msr = {}
  BY PortFields, Zenon DEF Idle
<1>2. port.msr = {"NDF"} \/ port.msr = {"ALF"} \/ port.msr = {"PLTF"}
  BY Zenon DEF Failing
<1> QED BY <1>1, <1>2

\* A failure of the port leaves the transaction failing.
LEMMA FailsFailing ==
    ASSUME MFails, drv.error = "ok", drv' = drv, Asks' <=> Asks, drv.state \in BusyStates,
           drv.state = "stopping" => port.fifo = <<STOP>> /\ ~Asks,
           drv.state = "starting" /\ bus.phase = "address" => acked = 0,
           drv.state = "starting" => ~(port.fifo # << >> /\ Command.cmd = "BYTE"),
           Skips \/ (port.fifo # << >> /\ bus.phase = "address") \/ drv.next # 0
    PROVE  Failing' /\ Kept
<1>1. Kept /\ port'.rx = << >> /\ acked' = acked
  BY Zenon DEF MFails, Kept
<1>2. \/ port'.msr = {"NDF"} /\ bus'.phase = "closing"
      \/ port'.msr = {"ALF"} /\ bus'.phase = "free"
      \/ port'.msr = {"PLTF"} /\ bus'.phase \in {"closing", "stuck"}
  BY DEF MFails, Phase
<1>3. drv.state = "stopping" => port'.fifo = <<STOP>> /\ ~Asks'
  <2>1. drv.state = "stopping" => ~(port.fifo # << >> /\ Command.cmd = "BYTE")
    BY Queues DEF Command
  <2> QED BY <2>1, Zenon DEF MFails, Takes
<1>4. port'.msr = {"NDF"} /\ drv.state = "starting" => acked' = 0
  <2>1. port'.msr = {"NDF"} => bus.phase = "address" \/ (port.fifo # << >> /\ Command.cmd = "BYTE")
    BY DEF MFails, Takes
  <2> QED BY <1>1, <2>1, Zenon
<1>5. (Skips' <=> Skips) /\ drv'.error = "ok" /\ drv'.state = drv.state /\ drv'.next = drv.next
  BY Zenon DEF Skips
<1>6. Skips' \/ port'.fifo # << >> \/ drv'.next # 0
  <2>1. bus.phase = "address" => port'.fifo = port.fifo
    BY DEF MFails
  <2> QED BY <1>5, <2>1, Zenon
<1>7. Failing'
  BY <1>1, <1>2, <1>3, <1>4, <1>5, <1>6, Zenon DEF Failing
<1> QED BY <1>1, <1>7

\* The end of a transaction.
LEMMA EndsMoves ==
    ASSUME NEW count, NEW state, Ends(state, count), state \in BusyStates, drv.error = "ok",
           port.rx = << >>, ~Asks, Idle, drv' = drv, Asks' <=> Asks,
           state = "starting" => Skips, Skips \/ drv.next # 0,
           MStart \/ MAck \/ MByte \/ MReceive \/ MFifoError \/ MStop \/ MCloses \/ MFails
    PROVE  /\ Failing' \/ (/\ \/ At(state, << >>, "closing", count)' /\ port'.msr = {}
                              \/ At(state, << >>, "free", count)' /\ port'.msr = {"SDF"}
                           /\ port'.rx = << >>)
           /\ Kept
<1>1. CASE At(state, <<STOP>>, "owned", count)
  <2>1. drv.state = state /\ port.fifo = <<STOP>> /\ bus.phase = "owned" /\ acked = count
    BY <1>1, Zenon DEF At
  <2>2. MAck \/ MStop \/ MCloses \/ MFails
    BY <2>1, StopMoves, Zenon
  <2>3. ~MAck /\ ~MCloses
    BY <2>1 DEF MAck, MCloses
  <2>4. CASE MStop
    <3>1. /\ port'.fifo = << >> /\ port'.msr = {} /\ port'.rx = << >> /\ Kept
          /\ bus'.phase = "closing"
      BY <2>1, <2>4, StopMoves DEF MStop, Phase
    <3> QED BY <2>1, <3>1, Zenon DEF At, Kept
  <2>5. CASE MFails
    <3>1. Command.cmd # "BYTE" /\ bus.phase # "address"
      BY <2>1, Queues DEF Command
    <3> QED BY <2>1, <2>5, <3>1, FailsFailing, Zenon
  <2> QED BY <2>2, <2>3, <2>4, <2>5, Zenon
<1>2. CASE At(state, << >>, "closing", count)
  <2>1. drv.state = state /\ port.fifo = << >> /\ bus.phase = "closing" /\ acked = count
    BY <1>2, Zenon DEF At
  <2>2. MAck \/ MCloses \/ MFails
    BY <2>1, NoQueue, Zenon
  <2>3. ~MAck /\ ~MFails
    BY <2>1 DEF MAck, MFails, Takes
  <2>4. /\ port'.fifo = << >> /\ port'.msr = {"SDF"} /\ port'.rx = << >> /\ Kept
        /\ bus'.phase = "free"
    BY <2>1, <2>2, <2>3, Zenon DEF MCloses, Phase
  <2> QED BY <2>1, <2>4, Zenon DEF At, Kept
<1>3. CASE At(state, << >>, "free", count) /\ port.msr = {"SDF"}
  BY <1>3 DEF Idle
<1>4. CASE At("stopped", << >>, "free", count)
  <2>1. port.fifo = << >> /\ bus.phase = "free"
    BY <1>4, Zenon DEF At
  <2>2. MAck \/ MCloses \/ MFails
    BY <2>1, NoQueue, Zenon
  <2> QED BY <2>1, <2>2 DEF MAck, MCloses, MFails, Takes
<1> QED BY <1>1, <1>2, <1>3, <1>4, Zenon DEF Ends

\* What the port may do next, by the phase of the bus and the command at the head.
LEMMA StartMoves ==
    ASSUME Command.cmd = "START", bus.phase = "free",
           MStart \/ MAck \/ MByte \/ MReceive \/ MFifoError \/ MStop \/ MCloses \/ MFails
    PROVE  MStart
BY DEF MAck, MByte, MReceive, MFifoError, MStop, MCloses, MFails, Takes

\* While the address is sent it is acknowledged or fails.
LEMMA AddressMoves ==
    ASSUME bus.phase = "address",
           MStart \/ MAck \/ MByte \/ MReceive \/ MFifoError \/ MStop \/ MCloses \/ MFails
    PROVE  MAck \/ MFails
BY DEF MStart, MByte, MReceive, MFifoError, MStop, MCloses, MFails, Takes

\* A byte is then acknowledged or fails.
LEMMA ByteMoves ==
    ASSUME bus.phase = "owned", Command.cmd = "BYTE", ~BusReads,
           MStart \/ MAck \/ MByte \/ MReceive \/ MFifoError \/ MStop \/ MCloses \/ MFails
    PROVE  MByte \/ MFails
<1>1. ~MFifoError
  BY DEF MFifoError
<1>2. ~MStart /\ ~MAck /\ ~MReceive /\ ~MStop /\ ~MCloses
  BY DEF MStart, MAck, MReceive, MStop, MCloses, Takes
<1> QED BY <1>1, <1>2, Zenon

\* A RECEIVE is then served or fails.
LEMMA ReceiveMoves ==
    ASSUME bus.phase = "owned", Command.cmd = "RECEIVE", BusReads,
           MStart \/ MAck \/ MByte \/ MReceive \/ MFifoError \/ MStop \/ MCloses \/ MFails
    PROVE  MReceive \/ MFails
<1>1. ~MFifoError
  BY DEF MFifoError
<1>2. ~MStart /\ ~MAck /\ ~MByte /\ ~MStop /\ ~MCloses
  BY DEF MStart, MAck, MByte, MStop, MCloses, Takes
<1> QED BY <1>1, <1>2, Zenon

\* A probe goes on or fails.
LEMMA ProbingMoves ==
    ASSUME Parts, Probing, PortStep \/ FaultStep
    PROVE  /\ Probing' \/ Failing'
           /\ UNCHANGED <<drv, got, pointer>>
<1>1. /\ Idle /\ drv' = drv /\ got' = got /\ (Asks' <=> Asks)
      /\ MStart \/ MAck \/ MByte \/ MReceive \/ MFifoError \/ MStop \/ MCloses \/ MFails
  BY PortFields, Zenon
<1>2. drv.error = "ok" /\ Skips /\ port.rx = << >> /\ ~Asks /\ (Skips' <=> Skips)
  BY <1>1, Zenon DEF Probing, Skips
<1>b. "starting" \in BusyStates /\ "starting" # "stopping"
  BY DEF BusyStates
<1>3. CASE At("starting", <<START(FALSE), STOP>>, "free", 0)
  <2>1. drv.state = "starting" /\ port.fifo = <<START(FALSE), STOP>> /\ bus.phase = "free" /\ acked = 0
    BY <1>3, Zenon DEF At
  <2>2. Command.cmd = "START" /\ Command.reading = FALSE /\ Tail(port.fifo) = <<STOP>>
    <3>1. PICK x : x = START(FALSE)
      OBVIOUS
    <3>2. x.cmd = "START" /\ x.reading = FALSE
      BY <3>1 DEF START
    <3>3. port.fifo = <<x, STOP>>
      BY <2>1, <3>1, Zenon
    <3>4. Command = x /\ Tail(port.fifo) = <<STOP>>
      BY <3>3 DEF Command
    <3> QED BY <3>2, <3>4, Zenon
  <2>3. MStart
    BY <1>1, <2>1, <2>2, StartMoves, Zenon
  <2>4. /\ port'.fifo = <<STOP>> /\ Kept /\ port'.msr = {} /\ port'.rx = << >>
        /\ bus'.phase = "address" /\ (BusReads' <=> Command.reading)
    BY <2>2, <2>3, Zenon DEF MStart, Takes
  <2>5. ~BusReads'
    BY <2>2, <2>4, Zenon
  <2> QED BY <1>1, <1>2, <2>1, <2>4, <2>5, Zenon DEF Probing, At, Kept
<1>4. CASE At("starting", <<STOP>>, "address", 0) /\ ~BusReads
  <2>1. drv.state = "starting" /\ port.fifo = <<STOP>> /\ bus.phase = "address" /\ acked = 0
    BY <1>4, Zenon DEF At
  <2>2. MAck \/ MFails
    BY <1>1, <2>1, AddressMoves, Zenon
  <2>3. CASE MAck
    <3>1. /\ port'.fifo = <<STOP>> /\ port'.msr = {} /\ port'.rx = << >> /\ acked' = 1
          /\ pointer' = pointer /\ bus'.phase = "owned"
      BY <2>1, <2>3, Zenon DEF MAck, Phase
    <3> QED BY <1>1, <1>2, <2>1, <3>1, Zenon DEF Probing, At, Ends
  <2>4. CASE MFails
    <3>1. Command.cmd # "BYTE"
      BY <2>1, Queues DEF Command
    <3>2. Failing' /\ Kept
      BY <1>1, <1>2, <1>b, <2>1, <2>4, <3>1, FailsFailing, Zenon
    <3> QED BY <1>1, <3>2, Zenon DEF Kept
  <2> QED BY <2>2, <2>3, <2>4, Zenon
<1>5. CASE Ends("starting", 1)
  <2>1. /\ Failing' \/ (/\ \/ At("starting", << >>, "closing", 1)' /\ port'.msr = {}
                           \/ At("starting", << >>, "free", 1)' /\ port'.msr = {"SDF"}
                        /\ port'.rx = << >>)
        /\ Kept
    BY <1>1, <1>2, <1>5, <1>b, EndsMoves, Zenon
  <2> QED BY <1>1, <1>2, <2>1, Zenon DEF Probing, Ends, Kept
<1> QED BY <1>3, <1>4, <1>5, Zenon DEF Probing

\* A read goes on or fails.
LEMMA ReceivingMoves ==
    ASSUME Parts, Receiving, PortStep \/ FaultStep
    PROVE  /\ Receiving' \/ Failing'
           /\ UNCHANGED <<drv, got, pointer>>
<1>1. /\ Idle /\ drv' = drv /\ got' = got /\ (Asks' <=> Asks)
      /\ MStart \/ MAck \/ MByte \/ MReceive \/ MFifoError \/ MStop \/ MCloses \/ MFails
  BY PortFields, Zenon
<1>2. /\ drv.error = "ok" /\ Skips /\ ~Asks /\ (Skips' <=> Skips) /\ drv.size = 1
      /\ port.rx = << >>
  BY <1>1, Zenon DEF Receiving, Skips, Idle
<1>b. "starting" \in BusyStates /\ "starting" # "stopping" /\ "stopping" \in BusyStates
  BY DEF BusyStates
<1> DEFINE Start == /\ port.fifo = <<START(TRUE), RECEIVE, STOP>> /\ bus.phase = "free" /\ acked = 0
                    /\ port.msr = {} /\ port.rx = << >>
           Address == /\ port.fifo = <<RECEIVE, STOP>> /\ bus.phase = "address" /\ BusReads
                      /\ acked = 0 /\ port.msr = {} /\ port.rx = << >>
           Owned == /\ port.fifo = <<RECEIVE, STOP>> /\ bus.phase = "owned" /\ BusReads
                    /\ port.msr = {} /\ port.rx = << >>
           Came == /\ port.fifo = <<STOP>> /\ bus.phase = "owned" /\ port.msr = {}
                   /\ port.rx = <<pointer>>
<1>c. \/ drv.next = 0 /\ drv.state = "starting" /\ (Start \/ Address \/ Owned \/ Came)
      \/ drv.next = 1 /\ Ends("stopping", acked)
  BY Zenon DEF Receiving
<1>d. /\ Start' <=> /\ port'.fifo = <<START(TRUE), RECEIVE, STOP>> /\ bus'.phase = "free" /\ acked' = 0
                    /\ port'.msr = {} /\ port'.rx = << >>
      /\ Address' <=> /\ port'.fifo = <<RECEIVE, STOP>> /\ bus'.phase = "address" /\ BusReads'
                      /\ acked' = 0 /\ port'.msr = {} /\ port'.rx = << >>
      /\ Owned' <=> /\ port'.fifo = <<RECEIVE, STOP>> /\ bus'.phase = "owned" /\ BusReads'
                    /\ port'.msr = {} /\ port'.rx = << >>
      /\ Came' <=> /\ port'.fifo = <<STOP>> /\ bus'.phase = "owned" /\ port'.msr = {}
                   /\ port'.rx = <<pointer'>>
  BY Zenon
<1>e. drv.next = 0 /\ drv.state = "starting" /\ (Start' \/ Address' \/ Owned' \/ Came') => Receiving'
  BY <1>1, <1>2, <1>d, Zenon DEF Receiving
<1>f. ~Came
  BY <1>2 DEF Came
<1>3. CASE drv.next = 0 /\ drv.state = "starting" /\ Start
  <2>1. drv.state = "starting" /\ port.fifo = <<START(TRUE), RECEIVE, STOP>> /\ bus.phase = "free" /\ acked = 0
    BY <1>3, Zenon
  <2>2. Command.cmd = "START" /\ Command.reading = TRUE /\ Tail(port.fifo) = <<RECEIVE, STOP>>
    <3>1. PICK x : x = START(TRUE)
      OBVIOUS
    <3>2. x.cmd = "START" /\ x.reading = TRUE
      BY <3>1 DEF START
    <3>3. port.fifo = <<x, RECEIVE, STOP>>
      BY <2>1, <3>1, Zenon
    <3>4. Command = x /\ Tail(port.fifo) = <<RECEIVE, STOP>>
      BY <3>3 DEF Command
    <3> QED BY <3>2, <3>4, Zenon
  <2>3. MStart
    BY <1>1, <2>1, <2>2, StartMoves, Zenon
  <2>4. /\ port'.fifo = <<RECEIVE, STOP>> /\ Kept /\ port'.msr = {} /\ port'.rx = << >>
        /\ bus'.phase = "address" /\ (BusReads' <=> Command.reading)
    BY <2>2, <2>3, Zenon DEF MStart, Takes
  <2>5. BusReads'
    BY <2>2, <2>4, Zenon
  <2>6. acked' = 0 /\ pointer' = pointer
    BY <2>1, <2>4, Zenon DEF Kept
  <2> QED BY <1>1, <1>3, <1>d, <1>e, <2>4, <2>5, <2>6, Zenon
<1>4. CASE drv.next = 0 /\ drv.state = "starting" /\ Address
  <2>1. drv.state = "starting" /\ port.fifo = <<RECEIVE, STOP>> /\ bus.phase = "address" /\ acked = 0
        /\ BusReads
    BY <1>4, Zenon
  <2>2. MAck \/ MFails
    BY <1>1, <2>1, AddressMoves, Zenon
  <2>3. CASE MAck
    <3>1. /\ port'.fifo = <<RECEIVE, STOP>> /\ port'.msr = {} /\ port'.rx = << >>
          /\ pointer' = pointer /\ bus'.phase = "owned" /\ BusReads'
      BY <2>1, <2>3, Zenon DEF MAck, Phase
    <3> QED BY <1>1, <1>4, <1>d, <1>e, <3>1, Zenon
  <2>4. CASE MFails
    <3>1. Command.cmd # "BYTE"
      BY <2>1, Queues DEF Command
    <3>2. Failing' /\ Kept
      BY <1>1, <1>2, <1>b, <2>1, <2>4, <3>1, FailsFailing, Zenon
    <3> QED BY <1>1, <3>2, Zenon DEF Kept
  <2> QED BY <2>2, <2>3, <2>4, Zenon
<1>5. CASE drv.next = 0 /\ drv.state = "starting" /\ Owned
  <2>1. drv.state = "starting" /\ port.fifo = <<RECEIVE, STOP>> /\ bus.phase = "owned" /\ BusReads
    BY <1>5, Zenon
  <2>2. Command.cmd = "RECEIVE" /\ Tail(port.fifo) = <<STOP>>
    BY <2>1, Queues, Zenon DEF Command
  <2>3. MReceive \/ MFails
    BY <1>1, <2>1, <2>2, ReceiveMoves, Zenon
  <2>4. CASE MReceive
    <3>1. /\ port'.fifo = <<STOP>> /\ port'.msr = {} /\ port'.rx = <<pointer>> /\ pointer' = pointer
          /\ bus'.phase = "owned"
      BY <2>2, <2>4, Zenon DEF MReceive, Takes, Phase, Kept
    <3>2. port'.rx = <<pointer'>>
      BY <3>1, Zenon
    <3> QED BY <1>1, <1>5, <1>d, <1>e, <3>1, <3>2, Zenon
  <2>5. CASE MFails
    <3>1. Command.cmd # "BYTE" /\ bus.phase # "address"
      BY <2>1, <2>2
    <3>2. Failing' /\ Kept
      BY <1>1, <1>2, <1>b, <2>1, <2>5, <3>1, FailsFailing, Zenon
    <3> QED BY <1>1, <3>2, Zenon DEF Kept
  <2> QED BY <2>3, <2>4, <2>5, Zenon
<1>6. CASE drv.next = 1 /\ Ends("stopping", acked)
  <2>n. drv.next # 0 /\ "stopping" # "starting"
    BY <1>6
  <2>1. PICK n : n = acked
    OBVIOUS
  <2>2. Ends("stopping", n)
    BY <1>6, <2>1, Zenon
  <2>3. /\ Failing' \/ (/\ \/ At("stopping", << >>, "closing", n)' /\ port'.msr = {}
                           \/ At("stopping", << >>, "free", n)' /\ port'.msr = {"SDF"}
                        /\ port'.rx = << >>)
        /\ Kept
    BY <1>1, <1>2, <1>b, <2>n, <2>2, EndsMoves, Zenon
  <2>4. acked' = acked /\ pointer' = pointer
    BY <2>3, Zenon DEF Kept
  <2> QED BY <1>1, <1>2, <1>6, <2>1, <2>3, <2>4, Zenon DEF Receiving, Ends, At
<1> HIDE DEF Start, Address, Owned, Came
<1> QED BY <1>c, <1>f, <1>3, <1>4, <1>5, <1>6, Zenon

\* How many bytes of the buffer are left, while one after the other is taken.
LEMMA LeftIs ==
    ASSUME NEW size \in 0..2, NEW bytes \in 0..2, NEW r
    PROVE  /\ bytes + 2 = size => /\ LeftOf(size, bytes, r) = <<BYTE(r), BYTE(r)>>
                                  /\ LeftOf(size, bytes + 1, r) = <<BYTE(r)>>
           /\ bytes + 1 = size => /\ LeftOf(size, bytes, r) = <<BYTE(r)>>
                                  /\ LeftOf(size, bytes + 1, r) = << >>
           /\ bytes = size => LeftOf(size, bytes, r) = << >>
           /\ bytes <= size => bytes + 2 = size \/ bytes + 1 = size \/ bytes = size
<1>1. bytes + 2 = size => ~(size = bytes + 1) /\ size = (bytes + 1) + 1 /\ ~(size = (bytes + 1) + 2)
  OBVIOUS
<1>2. bytes + 1 = size => ~(size = bytes + 2) /\ ~(size = (bytes + 1) + 1) /\ ~(size = (bytes + 1) + 2)
  OBVIOUS
<1>3. bytes = size => ~(size = bytes + 2) /\ ~(size = bytes + 1)
  OBVIOUS
<1>4. bytes <= size => bytes + 2 = size \/ bytes + 1 = size \/ bytes = size
  OBVIOUS
<1> QED BY <1>1, <1>2, <1>3, <1>4, Zenon DEF LeftOf

\* A byte is taken from what is left, if there is one.
LEMMA LeftTakes ==
    ASSUME NEW size \in 0..2, NEW bytes \in 0..2, bytes <= size, NEW r,
           LeftOf(size, bytes, r) # << >>
    PROVE  /\ Tail(LeftOf(size, bytes, r)) = LeftOf(size, bytes + 1, r)
           /\ LeftOf(size, bytes, r)[1].cmd = "BYTE" /\ LeftOf(size, bytes, r)[1].data = r
           /\ bytes + 1 <= size
<1>1. CASE bytes + 2 = size
  <2>1. bytes + 1 <= size
    BY <1>1
  <2>2. /\ LeftOf(size, bytes, r) = <<BYTE(r), BYTE(r)>>
        /\ LeftOf(size, bytes + 1, r) = <<BYTE(r)>>
    BY <1>1, LeftIs, Zenon
  <2>3. /\ Tail(<<BYTE(r), BYTE(r)>>) = <<BYTE(r)>>
        /\ <<BYTE(r), BYTE(r)>>[1].cmd = "BYTE" /\ <<BYTE(r), BYTE(r)>>[1].data = r
    BY Queues, Zenon
  <2> QED BY <2>1, <2>2, <2>3, Zenon
<1>2. CASE bytes + 1 = size
  <2>1. bytes + 1 <= size
    BY <1>2
  <2>2. /\ LeftOf(size, bytes, r) = <<BYTE(r)>>
        /\ LeftOf(size, bytes + 1, r) = << >>
    BY <1>2, LeftIs, Zenon
  <2>3. /\ Tail(<<BYTE(r)>>) = << >>
        /\ <<BYTE(r)>>[1].cmd = "BYTE" /\ <<BYTE(r)>>[1].data = r
    BY Queues, Zenon
  <2> QED BY <2>1, <2>2, <2>3, Zenon
<1>3. CASE bytes = size
  BY <1>3, LeftIs, Zenon
<1> QED BY <1>1, <1>2, <1>3, LeftIs, Zenon

\* The bytes of the buffer are on their way.
Going(phase, count) ==
    /\ port.msr = {} /\ Asks /\ drv.next = drv.size /\ ~BusReads
    /\ At("transferring", Left, phase, count)
    /\ bus.bytes <= drv.size /\ (bus.bytes > 0 => pointer = reg)
Begin == 
    /\ port.msr = {} /\ Asks /\ drv.next = 0 /\ drv.state = "starting" /\ acked = 0
    /\ \/ port.fifo = <<START(FALSE)>> /\ bus.phase = "free"
       \/ port.fifo = << >> /\ bus.phase = "address" /\ ~BusReads
Last == ~Asks /\ drv.next = drv.size /\ Ends("stopping", drv.size + 1) /\ pointer = reg
Sends == drv.error = "ok" /\ ~Skips /\ port.rx = << >> /\ drv.data = TxBuffer

\* The three stages of a write.
LEMMA SendingIs ==
    Sending <=> Sends /\ (Begin \/ Going("address", 0) \/ Going("owned", bus.bytes + 1) \/ Last)
BY Zenon DEF Sending, Sends, Begin, Going, Last

\* A write whose queue holds what is left of the buffer is going.
LEMMA GoingOn ==
    ASSUME port'.msr = {}, Asks' <=> Asks, drv' = drv, BusReads' <=> BusReads, reg' = reg,
           Asks, drv.next = drv.size, ~BusReads, drv.state = "transferring",
           NEW phase, NEW count, bus'.phase = phase, acked' = count,
           port'.fifo = LeftOf(drv.size, bus'.bytes, reg), bus'.bytes <= drv.size,
           bus'.bytes > 0 => pointer' = reg
    PROVE  Going(phase, count)'
BY Zenon DEF Going, At, Left

\* A write goes on or fails.
LEMMA SendingMoves ==
    ASSUME Parts, Sending, op # "probe", UNCHANGED <<op, reg>>, PortStep \/ FaultStep
    PROVE  /\ Sending' \/ Failing'
           /\ UNCHANGED <<drv, got>>
<1>1. /\ Idle /\ drv' = drv /\ got' = got /\ (Asks' <=> Asks)
      /\ MStart \/ MAck \/ MByte \/ MReceive \/ MFifoError \/ MStop \/ MCloses \/ MFails
  BY PortFields, Zenon
<1>2. Sends /\ (Begin \/ Going("address", 0) \/ Going("owned", bus.bytes + 1) \/ Last)
  BY SendingIs, Zenon
<1>3. drv.error = "ok" /\ ~Skips /\ port.rx = << >> /\ drv.data = TxBuffer /\ (Skips' <=> Skips)
  BY <1>1, <1>2, Zenon DEF Sends, Skips
<1>4. TxBuffer' = TxBuffer
  BY DEF TxBuffer
<1>s. Sending' <=> /\ Sends'
                   /\ Begin' \/ Going("address", 0)' \/ Going("owned", bus.bytes + 1)' \/ Last'
  BY Zenon DEF Sending, Sends, Begin, Going, Last
<1>5. port'.rx = << >> => Sends'
  BY <1>1, <1>3, <1>4, Zenon DEF Sends
<1>6. "starting" \in BusyStates /\ "stopping" \in BusyStates /\ "transferring" \in BusyStates
      /\ "starting" # "stopping" /\ "transferring" # "stopping" /\ "transferring" # "starting"
  BY DEF BusyStates
<1>7. drv.size \in 1..2 /\ drv.size # 0 /\ drv.size \in 0..2
  <2>1. Len(TxBuffer) \in 1..2
    BY TxOk, Zenon DEF Parts
  <2>2. Len(drv.data) = drv.size
    BY BothIs, Zenon DEF Parts, CellOk
  <2>3. drv.size \in 1..2
    BY <1>3, <2>1, <2>2, Zenon
  <2> QED BY <2>3
<1>8. bus.bytes \in 0..2 /\ (bus.phase = "address" => bus.bytes = 0)
  BY Zenon DEF Parts, Around, OnBus
<1>9. CASE Begin
  <2>1. drv.state = "starting" /\ acked = 0 /\ Asks /\ drv.next = 0
    BY <1>9, Zenon DEF Begin
  <2>2. port.fifo # << >>
    BY <1>1, <2>1, Zenon DEF Idle
  <2>3. port.fifo = <<START(FALSE)>> /\ bus.phase = "free"
    BY <1>9, <2>2, Zenon DEF Begin
  <2>4. Command.cmd = "START" /\ Command.reading = FALSE /\ Tail(port.fifo) = << >>
    <3>1. PICK x : x = START(FALSE)
      OBVIOUS
    <3>2. x.cmd = "START" /\ x.reading = FALSE
      BY <3>1 DEF START
    <3>3. port.fifo = <<x>>
      BY <2>3, <3>1, Zenon
    <3>4. Command = x /\ Tail(port.fifo) = << >>
      BY <3>3 DEF Command
    <3> QED BY <3>2, <3>4, Zenon
  <2>5. MStart
    BY <1>1, <2>3, <2>4, StartMoves, Zenon
  <2>6. /\ port'.fifo = << >> /\ Kept /\ port'.msr = {} /\ port'.rx = << >>
        /\ bus'.phase = "address" /\ (BusReads' <=> Command.reading)
    BY <2>4, <2>5, Zenon DEF MStart, Takes
  <2>7. ~BusReads' /\ acked' = 0
    BY <2>1, <2>4, <2>6, Zenon DEF Kept
  <2>8. Begin'
    BY <1>1, <2>1, <2>6, <2>7, Zenon DEF Begin
  <2> QED BY <1>1, <1>5, <2>6, <2>8, <1>s, Zenon
<1>10. CASE Going("address", 0)
  <2>1. /\ Asks /\ drv.next = drv.size /\ ~BusReads /\ drv.state = "transferring"
        /\ port.fifo = Left /\ bus.phase = "address" /\ acked = 0
        /\ bus.bytes <= drv.size /\ (bus.bytes > 0 => pointer = reg)
    BY <1>10, Zenon DEF Going, At
  <2>2. MAck \/ MFails
    BY <1>1, <2>1, AddressMoves, Zenon
  <2>3. CASE MAck
    <3>1. /\ port'.fifo = port.fifo /\ port'.msr = {} /\ port'.rx = << >> /\ acked' = 1
          /\ pointer' = pointer /\ bus'.phase = "owned" /\ (BusReads' <=> BusReads)
          /\ bus'.bytes = bus.bytes
      BY <2>3, Zenon DEF MAck, Phase
    <3>2. acked' = bus'.bytes + 1
      BY <1>8, <2>1, <3>1
    <3>3. port'.fifo = LeftOf(drv.size, bus'.bytes, reg)
      BY <2>1, <3>1, Zenon DEF Left
    <3>4. PICK n : n = bus'.bytes + 1
      OBVIOUS
    <3>5. acked' = n /\ bus'.bytes <= drv.size /\ (bus'.bytes > 0 => pointer' = reg)
      BY <2>1, <3>1, <3>2, <3>4, Zenon
    <3>6. Going("owned", n)'
      BY <1>1, <2>1, <3>1, <3>3, <3>5, GoingOn, Zenon
    <3>7. Going("owned", bus.bytes + 1)'
      BY <3>4, <3>6, Zenon
    <3> QED BY <1>1, <1>5, <3>1, <3>7, <1>s, Zenon
  <2>4. CASE MFails
    <3>1. Failing' /\ Kept
      BY <1>1, <1>3, <1>6, <1>7, <2>1, <2>4, FailsFailing, Zenon
    <3> QED BY <1>1, <3>1, Zenon
  <2> QED BY <2>2, <2>3, <2>4, Zenon
<1>11. CASE Going("owned", bus.bytes + 1)
  <2>1. /\ Asks /\ drv.next = drv.size /\ ~BusReads /\ drv.state = "transferring"
        /\ port.fifo = Left /\ bus.phase = "owned" /\ acked = bus.bytes + 1
        /\ bus.bytes <= drv.size /\ (bus.bytes > 0 => pointer = reg)
    BY <1>11, Zenon DEF Going, At
  <2>2. port.fifo = LeftOf(drv.size, bus.bytes, reg) /\ port.fifo # << >>
    BY <1>1, <2>1, Zenon DEF Left, Idle
  <2>3. /\ Tail(port.fifo) = LeftOf(drv.size, bus.bytes + 1, reg)
        /\ Command.cmd = "BYTE" /\ Command.data = reg
        /\ bus.bytes + 1 <= drv.size
    <3>1. PICK l : l = LeftOf(drv.size, bus.bytes, reg)
      OBVIOUS
    <3>2. LeftOf(drv.size, bus.bytes, reg) # << >>
      BY <2>2, Zenon
    <3>3. /\ Tail(l) = LeftOf(drv.size, bus.bytes + 1, reg)
          /\ l[1].cmd = "BYTE" /\ l[1].data = reg /\ bus.bytes + 1 <= drv.size
      <4>1. drv.size \in 0..2 /\ bus.bytes \in 0..2 /\ bus.bytes <= drv.size
        BY <1>7, <1>8, <2>1, Zenon
      <4>2. /\ Tail(LeftOf(drv.size, bus.bytes, reg)) = LeftOf(drv.size, bus.bytes + 1, reg)
            /\ LeftOf(drv.size, bus.bytes, reg)[1].cmd = "BYTE"
            /\ LeftOf(drv.size, bus.bytes, reg)[1].data = reg
            /\ bus.bytes + 1 <= drv.size
        BY <3>2, <4>1, LeftTakes
      <4> QED BY <3>1, <4>2, Zenon
    <3> QED BY <2>2, <3>1, <3>3, Zenon DEF Command
  <2>4. MByte \/ MFails
    BY <1>1, <2>1, <2>3, ByteMoves, Zenon
  <2>5. CASE MByte
    <3>1. /\ port'.fifo = Tail(port.fifo) /\ port'.msr = {} /\ port'.rx = << >>
          /\ acked' = acked + 1 /\ bus'.phase = "owned" /\ (BusReads' <=> BusReads)
          /\ bus'.bytes = bus.bytes + 1
          /\ pointer' = IF bus.bytes = 0 THEN Command.data ELSE pointer
      BY <2>5, Zenon DEF MByte, Takes
    <3>2. acked' = bus'.bytes + 1
      BY <2>1, <3>1, Zenon
    <3>3. port'.fifo = LeftOf(drv.size, bus'.bytes, reg) /\ bus'.bytes <= drv.size
      BY <2>3, <3>1, Zenon
    <3>4. bus.bytes = 0 \/ bus.bytes > 0
      BY <1>8
    <3>5. pointer' = reg
      BY <2>1, <2>3, <3>1, <3>4, Zenon
    <3>6. PICK n : n = bus'.bytes + 1
      OBVIOUS
    <3>7. acked' = n
      BY <3>2, <3>6, Zenon
    <3>8. Going("owned", n)'
      BY <1>1, <2>1, <3>1, <3>3, <3>5, <3>7, GoingOn, Zenon
    <3>9. Going("owned", bus.bytes + 1)'
      BY <3>6, <3>8, Zenon
    <3> QED BY <1>1, <1>5, <3>1, <3>9, <1>s, Zenon
  <2>6. CASE MFails
    <3>1. Failing' /\ Kept
      BY <1>1, <1>3, <1>6, <1>7, <2>1, <2>6, FailsFailing, Zenon
    <3> QED BY <1>1, <3>1, Zenon
  <2> QED BY <2>4, <2>5, <2>6, Zenon
<1>12. CASE Last
  <2>1. ~Asks /\ drv.next = drv.size /\ Ends("stopping", drv.size + 1) /\ pointer = reg
    BY <1>12, Zenon DEF Last
  <2>2. PICK n : n = drv.size + 1
    OBVIOUS
  <2>3. Ends("stopping", n) /\ drv.next # 0
    BY <1>7, <2>1, <2>2, Zenon
  <2>4. /\ Failing' \/ (/\ \/ At("stopping", << >>, "closing", n)' /\ port'.msr = {}
                           \/ At("stopping", << >>, "free", n)' /\ port'.msr = {"SDF"}
                        /\ port'.rx = << >>)
        /\ Kept
    BY <1>1, <1>3, <1>6, <2>1, <2>3, EndsMoves, Zenon
  <2>5. CASE Failing'
    BY <1>1, <2>5, Zenon
  <2>6. CASE /\ \/ At("stopping", << >>, "closing", n)' /\ port'.msr = {}
                \/ At("stopping", << >>, "free", n)' /\ port'.msr = {"SDF"}
             /\ port'.rx = << >>
    <3>1. /\ Ends("stopping", drv.size + 1)' /\ pointer' = reg'
      BY <1>1, <2>1, <2>2, <2>4, <2>6, Zenon DEF Ends, Kept
    <3>2. Last'
      BY <1>1, <2>1, <3>1, Zenon DEF Last
    <3>3. port'.rx = << >>
      BY <2>6
    <3> QED BY <1>1, <1>5, <3>2, <3>3, <1>s, Zenon
  <2> QED BY <2>4, <2>5, <2>6, Zenon
<1> QED BY <1>2, <1>9, <1>10, <1>11, <1>12, Zenon

-----------------------------------------------------------------------------
(***************************************************************************)
(* The interrupt routine, by what the driver was in.                       *)
(***************************************************************************)
After(r) == drv' = r.drv /\ port' = r.port /\ UNCHANGED <<bus, pointer, acked>>

\* What an entry of the routine stores, group by group.
LEMMA AfterIs ==
    ASSUME NEW c1, NEW c2, NEW c3, NEW shifted, NEW r, Routine(c1, c2, c3, shifted, r)
    PROVE  /\ After(r) /\ c1 = OnErrors(Both, port.msr) /\ c2 = OnStop(c1, port.msr)
           /\ shifted \in 0..1 /\ (bus.phase # "owned" => shifted = 0)
BY Zenon DEF Routine, After

\* The interrupt enable after an entry that turned it off.
LEMMA OffAfter ==
    ASSUME NEW r, TdieOff(r), port' = r.port
    PROVE  ~Asks'
<1>1. PICK t : t = r.port.tdie
  OBVIOUS
<1>2. t = FALSE
  BY <1>1 DEF TdieOff
<1>3. Asks' <=> t
  BY <1>1, Zenon DEF Asks
<1> QED BY <1>2, <1>3

\* ignore_tdf after an entry that left it.
LEMMA SkipsAfter ==
    ASSUME NEW r, r.drv.ignore_tdf = drv.ignore_tdf
    PROVE  /\ Reads(r) <=> Skips
           /\ drv' = r.drv => (Skips' <=> Skips)
BY Zenon DEF Reads, Skips

\* An entry without a byte skips the third group.
LEMMA NoByte ==
    ASSUME NEW c1, NEW c2, NEW c3, NEW shifted, NEW r, Routine(c1, c2, c3, shifted, r),
           port.rx = << >>, c2.drv.next = drv.next, drv.next \in Nat
    PROVE  c3 = c2 /\ got' = got
<1>1. c3 = c2
  BY Zenon DEF Routine, OnReceive
<1>2. PICK n : n = drv.next
  OBVIOUS
<1>3. ~(n > n)
  BY <1>2
<1>4. ~(c3.drv.next > drv.next)
  BY <1>1, <1>2, <1>3, Zenon
<1> QED BY <1>1, <1>4, Zenon DEF Routine

\* An entry without room, or in a read, skips the fourth.
LEMMA NoSpace ==
    ASSUME NEW c1, NEW c2, NEW c3, NEW shifted, NEW r, Routine(c1, c2, c3, shifted, r),
           port.fifo # << >> \/ Reads(c3)
    PROVE  r = c3
BY Zenon DEF Routine, OnTransmit, Reads

\* Any other entry runs the fourth.
LEMMA Space ==
    ASSUME NEW c1, NEW c2, NEW c3, NEW shifted, NEW r, Routine(c1, c2, c3, shifted, r),
           port.fifo = << >>, ~Reads(c3)
    PROVE  r = OnSpace(c3, shifted)
BY Zenon DEF Routine, OnTransmit, Reads

\* Fields of a well formed driver.
LEMMA BothOk ==
    ASSUME CellOk(Both)
    PROVE  /\ IsCell(Both) /\ drv.next \in Nat /\ drv.size \in 0..2 /\ drv.next \in 0..drv.size
           /\ Len(drv.data) = drv.size /\ drv.data \in Seq(Bytes)
<1>1. /\ IsCell(Both) /\ drv.size \in 0..2 /\ drv.next \in 0..drv.size
      /\ Len(drv.data) = drv.size /\ drv.data \in Seq(Bytes)
  BY BothIs, Zenon DEF CellOk
<1>2. PICK n, s : n = drv.next /\ s = drv.size
  OBVIOUS
<1>3. s \in 0..2 /\ n \in 0..s
  BY <1>1, <1>2, Zenon
<1>4. n \in Nat
  BY <1>3
<1> QED BY <1>1, <1>2, <1>4, Zenon

\* The routine is not entered without a reason.
LEMMA IdleStays ==
    ASSUME Idle
    PROVE  ~interrupt_service_routine
BY PromptIs, Zenon DEF Prompt, interrupt_service_routine

\* The flag of a STOP is not an error flag.
LEMMA SdfOnly == {"SDF"} \intersect ErrorFlags = {} /\ "SDF" \in {"SDF"} /\ {"SDF"} \ {"SDF"} = {}
BY DEF ErrorFlags

\* The end of a transaction: the flag is seen and nothing else is to do.
LEMMA EndsServed ==
    ASSUME CellOk(Both), port.msr = {"SDF"}, port.rx = << >>,
           Skips \/ port.fifo # << >> \/ drv.next # 0, interrupt_service_routine
    PROVE  /\ UNCHANGED <<bus, pointer, acked, got>> /\ ~Asks' /\ (Skips' <=> Skips)
           /\ drv'.state = "stopped" /\ drv'.error = drv.error /\ SameBuffer(Both', Both)
           /\ port'.msr = {} /\ port'.fifo = port.fifo /\ port'.rx = << >>
<1>1. PICK c1, c2, c3, shifted, r : Routine(c1, c2, c3, shifted, r)
  BY RoutineParts
<1>2. After(r) /\ c1 = OnErrors(Both, port.msr) /\ c2 = OnStop(c1, port.msr)
  BY <1>1, AfterIs
<1>3. IsCell(Both) /\ drv.next \in Nat
  BY BothOk
<1>4. c1 = Both
  BY <1>2, NoErrors, SdfOnly
<1>5. "SDF" \in port.msr
  OBVIOUS
<1>6. /\ IsCell(c2) /\ SameBuffer(c2, Both) /\ c2.drv.ignore_tdf = Both.drv.ignore_tdf
      /\ c2.drv.error = Both.drv.error /\ c2.port.fifo = Both.port.fifo /\ c2.port.rx = Both.port.rx
      /\ c2.drv.state = "stopped" /\ TdieOff(c2)
      /\ c2.port.msr = Both.port.msr \ {"SDF"}
  BY <1>2, <1>3, <1>4, <1>5, StopSeen
<1>7. /\ c2.drv.next = drv.next /\ c2.drv.ignore_tdf = drv.ignore_tdf /\ c2.drv.error = drv.error
      /\ c2.port.fifo = port.fifo /\ c2.port.rx = port.rx
  BY <1>6, BothIs, Zenon DEF SameBuffer
<1>8. c2.port.msr = {}
  BY <1>6, BothIs, SdfOnly, Zenon
<1>9. c3 = c2 /\ got' = got
  BY <1>1, <1>3, <1>7, NoByte
<1>10. Reads(c2) <=> Skips
  BY <1>7, SkipsAfter
<1>11. r = c2
  <2>1. CASE port.fifo # << >> \/ Reads(c3)
    BY <1>1, <1>9, <2>1, NoSpace
  <2>2. CASE port.fifo = << >> /\ ~Reads(c3)
    <3>1. r = OnSpace(c2, shifted)
      BY <1>1, <1>9, <2>2, Space
    <3>2. c2.drv.next # 0 /\ c2.drv.state # "transferring"
      BY <1>6, <1>7, <1>9, <1>10, <2>2
    <3> QED BY <3>1, <3>2, SpaceSkips
  <2> QED BY <2>1, <2>2
<1>12. drv' = c2.drv /\ port' = c2.port /\ UNCHANGED <<bus, pointer, acked>>
  BY <1>2, <1>11, Zenon DEF After
<1>13. ~Asks' /\ (Skips' <=> Skips)
  BY <1>6, <1>7, <1>12, OffAfter, SkipsAfter
<1>14. SameBuffer(Both', Both)
  BY <1>6, <1>12, BothNext, Zenon DEF SameBuffer
<1> QED BY <1>6, <1>7, <1>8, <1>9, <1>12, <1>13, <1>14, Zenon

\* An error: the transaction is given up.
LEMMA ErrorServed ==
    ASSUME CellOk(Both), NEW flag \in {"NDF", "ALF", "PLTF"}, port.msr = {flag}, port.rx = << >>,
           drv.state = "stopping" => port.fifo = <<STOP>> /\ ~Asks,
           Skips \/ port.fifo # << >> \/ drv.next # 0, interrupt_service_routine
    PROVE  /\ UNCHANGED <<bus, pointer, acked, got>> /\ ~Asks' /\ (Skips' <=> Skips)
           /\ drv'.error = ErrorOf(Both, {flag}) /\ SameBuffer(Both', Both)
           /\ port'.msr = {} /\ port'.rx = << >>
           /\ drv'.state = "stopping"
           /\ \/ port'.fifo = <<STOP>> /\ (bus.phase # "free" \/ port'.fifo = port.fifo)
              \/ port'.fifo = << >> /\ bus.phase = "free"
<1>1. PICK c1, c2, c3, shifted, r : Routine(c1, c2, c3, shifted, r)
  BY RoutineParts
<1>2. After(r) /\ c1 = OnErrors(Both, port.msr) /\ c2 = OnStop(c1, port.msr)
  BY <1>1, AfterIs
<1>3. IsCell(Both) /\ drv.next \in Nat
  BY BothOk
<1>4. /\ port.msr \intersect ErrorFlags # {} /\ port.msr \ ErrorFlags = {} /\ "SDF" \notin port.msr
  BY DEF ErrorFlags
<1>5. c2 = c1
  BY <1>2, <1>4, NoStop
<1>6. /\ SameBuffer(c1, Both) /\ c1.drv.ignore_tdf = Both.drv.ignore_tdf
      /\ c1.drv.error = ErrorOf(Both, port.msr) /\ c1.drv.state = "stopping"
      /\ c1.port.msr = {} /\ c1.port.rx = << >> /\ (port' = c1.port => ~Asks')
      /\ \/ c1.port.fifo = <<STOP>> /\ (bus.phase # "free" \/ c1.port.fifo = port.fifo)
         \/ c1.port.fifo = << >> /\ bus.phase = "free"
  <2>1. CASE drv.state = "stopping"
    <3>1. /\ IsCell(c1) /\ SameBuffer(c1, Both) /\ c1.drv.ignore_tdf = Both.drv.ignore_tdf
          /\ c1.drv.error = ErrorOf(Both, port.msr) /\ c1.drv.state = "stopping"
          /\ c1.port.msr = Both.port.msr \ ErrorFlags
          /\ c1.port.fifo = Both.port.fifo /\ c1.port.rx = Both.port.rx
          /\ c1.port.tdie = Both.port.tdie
      <4>1. Both.drv.state = "stopping"
        BY <2>1, BothIs, Zenon
      <4> QED BY <1>2, <1>3, <1>4, <4>1, ErrorStopping
    <3>2. /\ c1.port.fifo = port.fifo /\ c1.port.rx = << >> /\ c1.port.msr = {}
          /\ c1.port.tdie = port.tdie
      BY <1>4, <3>1, BothIs, Zenon
    <3>3. port' = c1.port => (Asks' <=> Asks)
      BY <3>2, Zenon DEF Asks
    <3> QED BY <2>1, <3>1, <3>2, <3>3, Zenon
  <2>2. CASE drv.state # "stopping"
    <3>1. /\ IsCell(c1) /\ SameBuffer(c1, Both) /\ c1.drv.ignore_tdf = Both.drv.ignore_tdf
          /\ c1.drv.error = ErrorOf(Both, port.msr) /\ c1.drv.state = "stopping"
          /\ c1.port.msr = Both.port.msr \ ErrorFlags
          /\ TdieOff(c1) /\ c1.port.rx = << >>
          /\ c1.port.fifo = IF BusBusy /\ "SDF" \notin c1.port.msr THEN <<STOP>> ELSE << >>
      <4>1. Both.drv.state # "stopping"
        BY <2>2, BothIs, Zenon
      <4> QED BY <1>2, <1>3, <1>4, <4>1, ErrorAborts
    <3>2. c1.port.msr = {}
      BY <1>4, <3>1, BothIs, Zenon
    <3>3. \/ c1.port.fifo = <<STOP>> /\ bus.phase # "free"
          \/ c1.port.fifo = << >> /\ bus.phase = "free"
      <4>1. "SDF" \notin c1.port.msr
        BY <3>2
      <4> QED BY <3>1, <4>1, Zenon DEF BusBusy
    <3>4. port' = c1.port => ~Asks'
      BY <3>1, OffAfter
    <3> QED BY <3>1, <3>2, <3>3, <3>4, Zenon
  <2> QED BY <2>1, <2>2, Zenon
<1>7. c1.drv.next = drv.next /\ c1.drv.ignore_tdf = drv.ignore_tdf
  BY <1>6, BothIs, Zenon DEF SameBuffer
<1>9. c3 = c1 /\ got' = got
  BY <1>1, <1>3, <1>5, <1>7, NoByte
<1>10. Reads(c1) <=> Skips
  BY <1>7, SkipsAfter
<1>11. r = c1
  <2>1. CASE port.fifo # << >> \/ Reads(c3)
    BY <1>1, <1>9, <2>1, NoSpace
  <2>2. CASE port.fifo = << >> /\ ~Reads(c3)
    <3>1. r = OnSpace(c1, shifted)
      BY <1>1, <1>9, <2>2, Space
    <3>2. c1.drv.next # 0 /\ c1.drv.state # "transferring"
      BY <1>6, <1>7, <1>9, <1>10, <2>2
    <3> QED BY <3>1, <3>2, SpaceSkips
  <2> QED BY <2>1, <2>2
<1>12. drv' = c1.drv /\ port' = c1.port /\ UNCHANGED <<bus, pointer, acked>>
  BY <1>2, <1>11, Zenon DEF After
<1>13. Skips' <=> Skips
  BY <1>7, <1>12, SkipsAfter
<1>14. SameBuffer(Both', Both)
  BY <1>6, <1>12, BothNext, Zenon DEF SameBuffer
<1>15. drv'.error = ErrorOf(Both, {flag})
  BY <1>6, <1>12, Zenon
<1>16. \/ port'.fifo = <<STOP>> /\ (bus.phase # "free" \/ port'.fifo = port.fifo)
       \/ port'.fifo = << >> /\ bus.phase = "free"
  BY <1>6, <1>12, Zenon
<1> QED BY <1>6, <1>9, <1>12, <1>13, <1>14, <1>15, <1>16, Zenon

\* The error that is told.
LEMMA ErrorName ==
    ASSUME NEW flag \in {"NDF", "ALF", "PLTF"}
    PROVE  /\ ErrorOf(Both, {flag}) # "ok"
           /\ ErrorOf(Both, {flag}) = "address_nak" => flag = "NDF" /\ drv.state = "starting"
<1>1. Both.drv.state = drv.state
  BY BothIs, Zenon
<1> QED BY <1>1 DEF ErrorOf

\* After a transaction that went well the routine is not entered.
LEMMA CleanServed ==
    ASSUME Clean, interrupt_service_routine
    PROVE  FALSE
<1>1. Idle
  BY Zenon DEF Clean, Quiet, Idle
<1> QED BY <1>1, IdleStays

\* What the calls remember of the buffer.
Remembered == SameBuffer(Both', Both) /\ UNCHANGED <<bus, pointer, acked, got>>

\* After one that failed it changes neither the buffer nor the kind of error.
LEMMA FailedServed ==
    ASSUME CellOk(Both), Failed, interrupt_service_routine
    PROVE  /\ Failed' /\ Remembered
           /\ drv'.error = "address_nak" => drv.error = "address_nak"
<1>1. drv.error # "ok" /\ port.rx = << >> /\ ~Asks
  BY Zenon DEF Failed
<1>2. port.msr # {}
  BY <1>1, IdleStays, Zenon DEF Idle
<1>3. port.fifo = <<STOP>> /\ port.fifo # << >>
  <2>1. port.fifo = <<STOP>>
    BY <1>2, Zenon DEF Failed, Quiet
  <2> QED BY <2>1
<1>4. CASE port.msr = {"PLTF"}
  <2>1. bus.phase \in {"closing", "stuck"} /\ bus.phase # "free"
    <3>1. bus.phase \in {"closing", "stuck"}
      BY <1>2, <1>4 DEF Failed, Quiet
    <3> QED BY <3>1
  <2>2. PICK flag : flag = "PLTF"
    OBVIOUS
  <2>3. flag \in {"NDF", "ALF", "PLTF"} /\ port.msr = {flag}
    BY <1>4, <2>2
  <2>4. /\ UNCHANGED <<bus, pointer, acked, got>> /\ ~Asks'
        /\ drv'.error = ErrorOf(Both, {flag}) /\ SameBuffer(Both', Both)
        /\ port'.msr = {} /\ port'.rx = << >>
        /\ \/ port'.fifo = <<STOP>> /\ (bus.phase # "free" \/ port'.fifo = port.fifo)
           \/ port'.fifo = << >> /\ bus.phase = "free"
    BY <1>1, <1>3, <2>3, ErrorServed, Zenon
  <2>5. drv'.error # "ok" /\ drv'.error # "address_nak"
    BY <2>2, <2>3, <2>4, ErrorName
  <2>6. bus'.phase \in {"free", "closing", "stuck"}
    <3>1. bus'.phase = bus.phase
      BY <2>4, Zenon
    <3> QED BY <2>1, <3>1
  <2> QED BY <2>1, <2>4, <2>5, <2>6, Zenon DEF Failed, Remembered
<1>5. CASE port.msr = {"SDF"}
  <2>1. bus.phase = "free"
    BY <1>2, <1>5 DEF Failed, Quiet
  <2>2. /\ UNCHANGED <<bus, pointer, acked, got>> /\ ~Asks'
        /\ drv'.error = drv.error /\ SameBuffer(Both', Both)
        /\ port'.msr = {} /\ port'.fifo = port.fifo /\ port'.rx = << >>
    BY <1>1, <1>3, <1>5, EndsServed, Zenon
  <2>3. bus'.phase \in {"free", "closing", "stuck"}
    <3>1. bus'.phase = bus.phase
      BY <2>2, Zenon
    <3> QED BY <2>1, <3>1
  <2> QED BY <1>1, <1>3, <2>2, <2>3, Zenon DEF Failed, Remembered
<1> QED BY <1>2, <1>4, <1>5, Zenon DEF Failed, Quiet

\* It stores the error: an address_nak only when nothing was acknowledged.
LEMMA FailingServed ==
    ASSUME CellOk(Both), Failing, interrupt_service_routine
    PROVE  /\ Failed' /\ Remembered
           /\ drv'.error = "address_nak" => acked' = 0
<1>1. PICK flag \in {"NDF", "ALF", "PLTF"} : port.msr = {flag}
  BY DEF Failing
<1>2. /\ port.rx = << >>
      /\ drv.state = "stopping" => port.fifo = <<STOP>> /\ ~Asks
      /\ Skips \/ port.fifo # << >> \/ drv.next # 0
  BY Zenon DEF Failing
<1>3. /\ UNCHANGED <<bus, pointer, acked, got>> /\ ~Asks'
      /\ drv'.error = ErrorOf(Both, {flag}) /\ SameBuffer(Both', Both)
      /\ port'.msr = {} /\ port'.rx = << >>
      /\ \/ port'.fifo = <<STOP>> /\ (bus.phase # "free" \/ port'.fifo = port.fifo)
         \/ port'.fifo = << >> /\ bus.phase = "free"
  BY <1>1, <1>2, ErrorServed, Zenon
<1>4. /\ drv'.error # "ok"
      /\ drv'.error = "address_nak" => flag = "NDF" /\ drv.state = "starting"
  BY <1>1, <1>3, ErrorName, Zenon
<1>5. drv'.error = "address_nak" => acked' = 0
  <2>1. HAVE drv'.error = "address_nak"
  <2>2. port.msr = {"NDF"} /\ drv.state = "starting"
    BY <1>1, <1>4, <2>1, Zenon
  <2> QED BY <1>3, <2>2, Zenon DEF Failing
<1>6. bus'.phase \in {"free", "closing", "stuck"} /\ bus'.phase = bus.phase
  <2>1. bus.phase \in {"free", "closing", "stuck"}
    BY DEF Failing
  <2> QED BY <1>3, <2>1
<1>7. Failed'
  BY <1>3, <1>4, <1>6, Zenon DEF Failed, Quiet
<1> QED BY <1>3, <1>5, <1>7, Zenon DEF Remembered

\* The end of a transaction that went well.
LEMMA EndServed ==
    ASSUME CellOk(Both), NEW state, NEW count, Ends(state, count), port.rx = << >>, ~Asks,
           Skips \/ drv.next # 0, interrupt_service_routine
    PROVE  /\ At("stopped", << >>, "free", count)' /\ port'.msr = {} /\ port'.rx = << >>
           /\ ~Asks' /\ (Skips' <=> Skips) /\ drv'.error = drv.error /\ Remembered
<1>1. port.msr # {}
  BY IdleStays, Zenon DEF Idle
<1>2. /\ port.msr = {"SDF"} /\ port.fifo = << >> /\ bus.phase = "free" /\ acked = count
  BY <1>1, Zenon DEF Ends, At
<1>3. /\ UNCHANGED <<bus, pointer, acked, got>> /\ ~Asks' /\ (Skips' <=> Skips)
      /\ drv'.state = "stopped" /\ drv'.error = drv.error /\ SameBuffer(Both', Both)
      /\ port'.msr = {} /\ port'.fifo = port.fifo /\ port'.rx = << >>
  BY <1>2, EndsServed, Zenon
<1> QED BY <1>2, <1>3, Zenon DEF At, Remembered

\* In a probe it sees the STOP.
LEMMA ProbingServed ==
    ASSUME CellOk(Both), Probing, interrupt_service_routine
    PROVE  Probing' /\ Remembered /\ drv'.error = "ok"
<1>1. drv.error = "ok" /\ Skips /\ port.rx = << >> /\ ~Asks
  BY Zenon DEF Probing
<1>2. port.msr # {}
  BY <1>1, IdleStays, Zenon DEF Idle
<1>3. Ends("starting", 1)
  BY <1>2, Zenon DEF Probing
<1>4. /\ At("stopped", << >>, "free", 1)' /\ port'.msr = {} /\ port'.rx = << >>
      /\ ~Asks' /\ (Skips' <=> Skips) /\ drv'.error = drv.error /\ Remembered
  BY <1>1, <1>3, EndServed, Zenon
<1> QED BY <1>1, <1>4, Zenon DEF Probing, Ends

\* What remembering the buffer says of its fields.
LEMMA RememberedIs ==
    ASSUME Remembered
    PROVE  drv'.data = drv.data /\ drv'.size = drv.size /\ drv'.next = drv.next
           /\ drv'.read_buffer = drv.read_buffer
BY BothIs, BothNext, Zenon DEF Remembered, SameBuffer

\* In a read it sees the STOP or takes the byte the device sent.
LEMMA ReceivingServed ==
    ASSUME CellOk(Both), Receiving, interrupt_service_routine
    PROVE  /\ Receiving' /\ UNCHANGED <<bus, pointer, acked>> /\ drv'.error = "ok"
           /\ Remembered \/ (got' = 1 /\ drv'.read_buffer = pointer)
<1>1. drv.error = "ok" /\ Skips /\ ~Asks /\ drv.size = 1
  BY Zenon DEF Receiving
<1>2. \/ port.rx = << >> /\ drv.next = 1 /\ Ends("stopping", acked)
      \/ /\ drv.next = 0 /\ drv.state = "starting" /\ port.fifo = <<STOP>>
         /\ bus.phase = "owned" /\ port.msr = {} /\ port.rx = <<pointer>>
  BY <1>1, IdleStays, Zenon DEF Receiving, Idle
<1>3. CASE port.rx = << >> /\ drv.next = 1 /\ Ends("stopping", acked)
  <2>1. PICK n : n = acked
    OBVIOUS
  <2>2. Ends("stopping", n)
    BY <1>3, <2>1, Zenon
  <2>3. /\ At("stopped", << >>, "free", n)' /\ port'.msr = {} /\ port'.rx = << >>
        /\ ~Asks' /\ (Skips' <=> Skips) /\ drv'.error = drv.error /\ Remembered
    BY <1>1, <1>3, <2>2, EndServed, Zenon
  <2>4. UNCHANGED <<bus, pointer, acked>>
    BY <2>3, Zenon DEF Remembered
  <2>5. drv'.next = 1 /\ drv'.size = 1
    BY <1>1, <1>3, <2>3, RememberedIs, Zenon
  <2>6. Ends("stopping", acked)'
    BY <2>1, <2>3, <2>4, Zenon DEF Ends, At
  <2> QED BY <1>1, <2>3, <2>4, <2>5, <2>6, Zenon DEF Receiving
<1>4. CASE /\ drv.next = 0 /\ drv.state = "starting" /\ port.fifo = <<STOP>>
           /\ bus.phase = "owned" /\ port.msr = {} /\ port.rx = <<pointer>>
  <2>1. PICK c1, c2, c3, shifted, r : Routine(c1, c2, c3, shifted, r)
    BY RoutineParts
  <2>2. After(r) /\ c1 = OnErrors(Both, port.msr) /\ c2 = OnStop(c1, port.msr)
    BY <2>1, AfterIs
  <2>3. IsCell(Both) /\ drv.next \in Nat
    BY BothOk
  <2>4. c1 = Both
    BY <1>4, <2>2, NoErrors
  <2>5. c2 = Both
    BY <1>4, <2>2, <2>4, NoStop
  <2>6. c3 = OnByte(Both)
    <3>1. port.rx # << >>
      BY <1>4
    <3> QED BY <2>1, <2>5, <3>1, Zenon DEF Routine, OnReceive
  <2>7. Both.drv.next = 0 /\ Both.drv.size = 1 /\ Both.port.fifo = <<STOP>>
        /\ Both.port.rx = <<pointer>> /\ Both.port.msr = {}
    BY <1>1, <1>4, BothIs, Zenon
  <2>8. Reads(Both) /\ Both.drv.next \in Nat
    <3>1. Reads(Both)
      BY <1>1, BothIs, Zenon DEF Reads, Skips
    <3> QED BY <2>7, <3>1
  <2>9. ByteIn(Both) = pointer
    BY <2>7 DEF ByteIn
  <2>10. /\ IsCell(c3) /\ c3.drv.ignore_tdf = Both.drv.ignore_tdf /\ c3.drv.size = Both.drv.size
         /\ c3.port.msr = Both.port.msr /\ c3.port.rx = << >>
         /\ c3.port.fifo = Both.port.fifo /\ c3.port.tdie = Both.port.tdie
         /\ IF (Both.drv.next = 0 \/ Both.drv.state = "transferring") /\ Both.drv.next # Both.drv.size
            THEN /\ c3.drv.data = <<ByteIn(Both)>> /\ c3.drv.read_buffer = ByteIn(Both)
                 /\ c3.drv.next = Both.drv.next + 1
            ELSE SameBuffer(c3, Both)
         /\ c3.drv.error = IF Both.drv.next = 0 THEN "ok" ELSE Both.drv.error
         /\ c3.drv.state = IF c3.drv.next = c3.drv.size
                           THEN IF Len(Both.port.fifo) = 1 THEN "stopping" ELSE "transfer_complete"
                           ELSE IF Both.drv.next = 0 THEN "transferring" ELSE Both.drv.state
    BY <2>3, <2>6, <2>8, ByteInRead
  <2>11. /\ c3.drv.read_buffer = pointer /\ c3.drv.next = 1 /\ c3.drv.size = 1
         /\ c3.drv.error = "ok" /\ c3.drv.state = "stopping"
    <3>1. Both.drv.next # Both.drv.size
      BY <2>7
    <3>2. c3.drv.read_buffer = pointer /\ c3.drv.next = Both.drv.next + 1
      BY <2>7, <2>9, <2>10, <3>1, Zenon
    <3>3. c3.drv.next = 1
      BY <2>7, <3>2
    <3>4. Len(Both.port.fifo) = 1
      BY <2>7
    <3> QED BY <2>7, <2>10, <3>2, <3>3, <3>4, Zenon
  <2>12. c3.drv.ignore_tdf = drv.ignore_tdf /\ c3.port.tdie = port.tdie
    BY <2>10, BothIs, Zenon
  <2>13. r = c3
    <3>1. Reads(c3)
      BY <1>1, <2>12, SkipsAfter
    <3> QED BY <2>1, <3>1, NoSpace
  <2>14. got' = 1
    <3>1. c3.drv.next > drv.next
      BY <1>4, <2>11
    <3>2. drv.ignore_tdf
      BY <1>1, Zenon DEF Skips
    <3> QED BY <2>1, <3>1, <3>2, Zenon DEF Routine
  <2>15. drv' = c3.drv /\ port' = c3.port /\ UNCHANGED <<bus, pointer, acked>>
    BY <2>2, <2>13, Zenon DEF After
  <2>16. (Skips' <=> Skips) /\ (Asks' <=> Asks)
    <3>1. Asks' <=> Asks
      BY <2>12, <2>15, Zenon DEF Asks
    <3> QED BY <2>12, <2>15, <3>1, SkipsAfter
  <2>17. /\ drv'.read_buffer = pointer /\ drv'.next = 1 /\ drv'.size = 1
         /\ drv'.error = "ok" /\ drv'.state = "stopping"
         /\ port'.msr = {} /\ port'.rx = << >> /\ port'.fifo = <<STOP>>
    BY <2>7, <2>10, <2>11, <2>15, Zenon
  <2>18. Ends("stopping", acked)'
    BY <1>4, <2>15, <2>17, Zenon DEF Ends, At
  <2> QED BY <1>1, <2>14, <2>15, <2>16, <2>17, <2>18, Zenon DEF Receiving
<1> QED BY <1>2, <1>3, <1>4, Zenon

\* A sequence is the part of it from first to last.
LEMMA Whole ==
    ASSUME NEW S, NEW d \in Seq(S), NEW n, Len(d) = n
    PROVE  SubSeq(d, 1, n) = d
<1>1. Len(d) \in Nat
  OBVIOUS
<1>2. SubSeq(d, 1, Len(d)) \in Seq(S) /\ Len(SubSeq(d, 1, Len(d))) = Len(d)
  BY <1>1
<1>3. \A i \in 1..Len(d) : SubSeq(d, 1, Len(d))[i] = d[i]
  BY <1>1
<1> QED BY <1>2, <1>3

\* What the transmit branch queues: the whole buffer at first, nothing in the end.
LEMMA QueuesAll ==
    ASSUME NEW c, c.port.fifo = << >>, c.drv.next = 0, NEW r,
           \/ c.drv.data = <<r>> /\ c.drv.size = 1
           \/ c.drv.data = <<r, r>> /\ c.drv.size = 2
    PROVE  Queued(c) = LeftOf(c.drv.size, 0, r) /\ Len(Queued(c)) > 0
<1>1. CASE c.drv.data = <<r>> /\ c.drv.size = 1
  <2>1. Rest(c) = <<r>>
    <3>1. PICK d : d = <<r>>
      OBVIOUS
    <3>2. SubSeq(d, 1, 1) = d
      <4>1. d \in Seq({r}) /\ Len(d) = 1
        BY <3>1
      <4> QED BY <4>1, Whole
    <3>3. c.drv.data = d /\ c.drv.size = 1 /\ c.drv.next + 1 = 1
      BY <1>1, <3>1
    <3> QED BY <3>1, <3>2, <3>3, Zenon DEF Rest
  <2>2. PICK x : x = BYTE(r)
    OBVIOUS
  <2>3. PICK s : s = <<r>>
    OBVIOUS
  <2>4. Len(s) = 1 /\ s[1] = r
    BY <2>3
  <2>5. [i \in 1..Len(s) |-> BYTE(s[i])] = <<x>>
    <3>1. \A i \in 1..Len(s) : BYTE(s[i]) = x
      <4>1. TAKE i \in 1..Len(s)
      <4>2. i = 1
        BY <2>4
      <4> QED BY <2>2, <2>4, <4>2, Zenon
    <3>2. [i \in 1..Len(s) |-> BYTE(s[i])] = [i \in 1..1 |-> x]
      BY <2>4, <3>1
    <3>3. [i \in 1..1 |-> x] = <<x>>
      OBVIOUS
    <3> QED BY <3>2, <3>3, Zenon
  <2>6. Queued(c) = << >> \o <<x>>
    BY <2>1, <2>3, <2>5, Zenon DEF Queued
  <2>7. << >> \o <<x>> = <<x>> /\ Len(<<x>>) > 0
    OBVIOUS
  <2>8. LeftOf(1, 0, r) = <<BYTE(r)>>
    BY LeftIs
  <2> QED BY <1>1, <2>2, <2>6, <2>7, <2>8, Zenon
<1>2. CASE c.drv.data = <<r, r>> /\ c.drv.size = 2
  <2>1. Rest(c) = <<r, r>>
    <3>1. PICK d : d = <<r, r>>
      OBVIOUS
    <3>2. SubSeq(d, 1, 2) = d
      <4>1. d \in Seq({r}) /\ Len(d) = 2
        BY <3>1
      <4> QED BY <4>1, Whole
    <3>3. c.drv.data = d /\ c.drv.size = 2 /\ c.drv.next + 1 = 1
      BY <1>2, <3>1
    <3> QED BY <3>1, <3>2, <3>3, Zenon DEF Rest
  <2>2. PICK x : x = BYTE(r)
    OBVIOUS
  <2>3. PICK s : s = <<r, r>>
    OBVIOUS
  <2>4. Len(s) = 2 /\ s[1] = r /\ s[2] = r
    BY <2>3
  <2>5. [i \in 1..Len(s) |-> BYTE(s[i])] = <<x, x>>
    <3>1. \A i \in 1..Len(s) : BYTE(s[i]) = x
      <4>1. TAKE i \in 1..Len(s)
      <4>2. i = 1 \/ i = 2
        BY <2>4
      <4> QED BY <2>2, <2>4, <4>2, Zenon
    <3>2. [i \in 1..Len(s) |-> BYTE(s[i])] = [i \in 1..2 |-> x]
      BY <2>4, <3>1
    <3>3. [i \in 1..2 |-> x] = <<x, x>>
      OBVIOUS
    <3> QED BY <3>2, <3>3, Zenon
  <2>6. Queued(c) = << >> \o <<x, x>>
    BY <2>1, <2>3, <2>5, Zenon DEF Queued
  <2>7. << >> \o <<x, x>> = <<x, x>> /\ Len(<<x, x>>) > 0
    OBVIOUS
  <2>8. LeftOf(2, 0, r) = <<BYTE(r), BYTE(r)>>
    BY LeftIs
  <2> QED BY <1>2, <2>2, <2>6, <2>7, <2>8, Zenon
<1> QED BY <1>1, <1>2

\* A buffer that is all out queues nothing.
LEMMA QueuesNone ==
    ASSUME NEW c, c.port.fifo = << >>, c.drv.next = c.drv.size, c.drv.size \in 0..2,
           c.drv.data \in Seq(Bytes), Len(c.drv.data) = c.drv.size
    PROVE  Queued(c) = << >> /\ Append(Queued(c), STOP) = <<STOP>>
<1>1. PICK d, n : d = c.drv.data /\ n = c.drv.size
  OBVIOUS
<1>2. d \in Seq(Bytes) /\ Len(d) = n /\ n \in 0..2
  BY <1>1, Zenon
<1>3. SubSeq(d, n + 1, n) = << >>
  BY <1>2
<1>4. Rest(c) = << >>
  BY <1>1, <1>3, Zenon DEF Rest
<1>5. PICK s : s = Rest(c)
  OBVIOUS
<1>6. Len(s) = 0
  BY <1>4, <1>5
<1>7. [i \in 1..Len(s) |-> BYTE(s[i])] = << >>
  BY <1>6
<1>8. Queued(c) = << >> \o << >>
  BY <1>5, <1>7, Zenon DEF Queued
<1>9. << >> \o << >> = << >>
  OBVIOUS
<1>10. PICK x : x = STOP
  OBVIOUS
<1>11. Append(<< >>, x) = <<x>>
  OBVIOUS
<1> QED BY <1>8, <1>9, <1>10, <1>11, Zenon

\* The bytes go into the queue.
LEMMA BeginServed ==
    ASSUME CellOk(Both), Sends, Begin, op \in {"write", "read"}, interrupt_service_routine,
           bus.phase = "address" => bus.bytes = 0, reg' = reg
    PROVE  Going("address", 0)' /\ (Skips' <=> Skips) /\ port'.rx = << >> /\ drv'.error = "ok"
           /\ drv'.data = drv.data /\ UNCHANGED <<bus, pointer, acked>>
<1>1. /\ port.msr = {} /\ Asks /\ drv.next = 0 /\ acked = 0 /\ drv.error = "ok" /\ ~Skips
      /\ port.rx = << >> /\ drv.data = TxBuffer
  BY Zenon DEF Sends, Begin
<1>2. port.fifo = << >>
  BY <1>1, IdleStays, Zenon DEF Idle
<1>3. bus.phase = "address" /\ ~BusReads /\ bus.bytes = 0
  <2>1. <<START(FALSE)>> # << >>
    OBVIOUS
  <2> QED BY <1>2, <2>1, Zenon DEF Begin
<1>4. PICK c1, c2, c3, shifted, r : Routine(c1, c2, c3, shifted, r)
  BY RoutineParts
<1>5. After(r) /\ c1 = OnErrors(Both, port.msr) /\ c2 = OnStop(c1, port.msr) /\ shifted = 0
  <2>1. bus.phase # "owned"
    BY <1>3
  <2> QED BY <1>4, <2>1, AfterIs
<1>6. IsCell(Both) /\ drv.next \in Nat /\ Len(drv.data) = drv.size /\ drv.size \in 0..2
  BY BothOk
<1>7. c1 = Both
  BY <1>1, <1>5, NoErrors
<1>8. c2 = Both
  BY <1>1, <1>5, <1>7, NoStop
<1>9. c3 = Both
  <2>1. c2.drv.next = drv.next
    BY <1>8, BothIs, Zenon
  <2> QED BY <1>1, <1>4, <1>6, <1>8, <2>1, NoByte
<1>10. r = OnSpace(Both, 0)
  <2>1. ~Reads(c3)
    BY <1>1, <1>9, BothIs, Zenon DEF Reads, Skips
  <2> QED BY <1>2, <1>4, <1>5, <1>9, <2>1, Space
<1>11. \/ drv.data = <<reg>> /\ drv.size = 1
       \/ drv.data = <<reg, reg>> /\ drv.size = 2
  <2>1. TxBuffer = <<reg>> \/ TxBuffer = <<reg, reg>>
    BY DEF TxBuffer
  <2>2. Len(<<reg>>) = 1 /\ Len(<<reg, reg>>) = 2
    OBVIOUS
  <2> QED BY <1>1, <1>6, <2>1, <2>2, Zenon
<1>12. Queued(Both) = LeftOf(drv.size, 0, reg) /\ Len(Queued(Both)) > 0
  <2>1. /\ Both.port.fifo = << >> /\ Both.drv.next = 0 /\ Both.drv.size = drv.size
        /\ \/ Both.drv.data = <<reg>> /\ Both.drv.size = 1
           \/ Both.drv.data = <<reg, reg>> /\ Both.drv.size = 2
    BY <1>1, <1>2, <1>11, BothIs, Zenon
  <2>2. Queued(Both) = LeftOf(Both.drv.size, 0, reg) /\ Len(Queued(Both)) > 0
    BY <2>1, QueuesAll
  <2> QED BY <2>1, <2>2, Zenon
<1>13. /\ FeedFacts(r, Both) /\ r.drv.state = "transferring"
       /\ r.port.fifo = Queued(Both) /\ r.port.tdie = Both.port.tdie
  <2>1. Both.drv.next = 0
    BY <1>1, BothIs, Zenon
  <2> QED BY <1>6, <1>10, <1>12, <2>1, SpaceFeeds
<1>14. /\ r.drv.ignore_tdf = drv.ignore_tdf /\ r.drv.data = drv.data /\ r.drv.size = drv.size
       /\ r.drv.next = drv.size /\ r.drv.error = "ok" /\ r.port.msr = {} /\ r.port.rx = << >>
       /\ r.port.tdie = port.tdie
  <2>1. Both.drv.next = 0
    BY <1>1, BothIs, Zenon
  <2> QED BY <1>1, <1>13, <2>1, BothIs, Zenon DEF FeedFacts
<1>15. drv' = r.drv /\ port' = r.port /\ UNCHANGED <<bus, pointer, acked>>
  BY <1>5, Zenon DEF After
<1>16. (Skips' <=> Skips) /\ (Asks' <=> Asks)
  <2>1. Asks' <=> Asks
    BY <1>14, <1>15, Zenon DEF Asks
  <2> QED BY <1>14, <1>15, <2>1, SkipsAfter
<1>17. /\ drv'.state = "transferring" /\ drv'.next = drv'.size /\ drv'.size = drv.size
       /\ port'.fifo = LeftOf(drv.size, 0, reg) /\ port'.msr = {}
  BY <1>12, <1>13, <1>14, <1>15, Zenon
<1>18. bus'.phase = "address" /\ bus'.bytes = 0 /\ ~BusReads' /\ acked' = 0
  BY <1>1, <1>3, <1>15, Zenon DEF BusReads
<1>19. port'.fifo = Left'
  BY <1>17, <1>18, Zenon DEF Left
<1>20. bus'.bytes <= drv'.size /\ ~(bus'.bytes > 0)
  BY <1>6, <1>17, <1>18
<1>21. Going("address", 0)'
  BY <1>1, <1>16, <1>17, <1>18, <1>19, <1>20, Zenon DEF Going, At
<1> QED BY <1>14, <1>15, <1>16, <1>21, Zenon

\* All of them have gone out: the STOP follows.
LEMMA AllServed ==
    ASSUME CellOk(Both), Sends, Going("owned", bus.bytes + 1), drv.size \in 1..2,
           bus.bytes \in 0..2, reg' = reg, interrupt_service_routine
    PROVE  Last' /\ (Skips' <=> Skips) /\ port'.rx = << >> /\ drv'.error = "ok"
           /\ drv'.data = drv.data /\ UNCHANGED <<bus, pointer, acked>>
<1>1. /\ port.msr = {} /\ Asks /\ drv.next = drv.size /\ drv.error = "ok" /\ ~Skips
      /\ port.rx = << >> /\ drv.state = "transferring" /\ bus.phase = "owned"
      /\ acked = bus.bytes + 1 /\ port.fifo = LeftOf(drv.size, bus.bytes, reg)
      /\ bus.bytes <= drv.size /\ (bus.bytes > 0 => pointer = reg)
  BY Zenon DEF Sends, Going, At, Left
<1>2. port.fifo = << >>
  BY <1>1, IdleStays, Zenon DEF Idle
<1>3. bus.bytes = drv.size /\ pointer = reg
  <2>1. bus.bytes + 2 = drv.size \/ bus.bytes + 1 = drv.size \/ bus.bytes = drv.size
    BY <1>1
  <2>2. drv.size \in 0..2
    OBVIOUS
  <2>3. PICK a, b : a = <<BYTE(reg)>> /\ b = <<BYTE(reg), BYTE(reg)>>
    OBVIOUS
  <2>4. a # << >> /\ b # << >>
    BY <2>3
  <2>5. /\ bus.bytes + 2 = drv.size => LeftOf(drv.size, bus.bytes, reg) = b
        /\ bus.bytes + 1 = drv.size => LeftOf(drv.size, bus.bytes, reg) = a
    BY <2>2, <2>3, LeftIs, Zenon
  <2>6. bus.bytes = drv.size
    BY <1>1, <1>2, <2>1, <2>4, <2>5, Zenon
  <2>7. bus.bytes > 0
    BY <2>6
  <2> QED BY <1>1, <2>6, <2>7, Zenon
<1>4. PICK c1, c2, c3, shifted, r : Routine(c1, c2, c3, shifted, r)
  BY RoutineParts
<1>5. After(r) /\ c1 = OnErrors(Both, port.msr) /\ c2 = OnStop(c1, port.msr) /\ shifted \in 0..1
  BY <1>4, AfterIs
<1>6. IsCell(Both) /\ drv.next \in Nat /\ Len(drv.data) = drv.size /\ drv.data \in Seq(Bytes)
  BY BothOk
<1>7. c1 = Both
  BY <1>1, <1>5, NoErrors
<1>8. c2 = Both
  BY <1>1, <1>5, <1>7, NoStop
<1>9. c3 = Both
  <2>1. c2.drv.next = drv.next
    BY <1>8, BothIs, Zenon
  <2> QED BY <1>1, <1>4, <1>6, <1>8, <2>1, NoByte
<1>10. r = OnSpace(Both, shifted)
  <2>1. ~Reads(c3)
    BY <1>1, <1>9, BothIs, Zenon DEF Reads, Skips
  <2> QED BY <1>2, <1>4, <1>9, <2>1, Space
<1>11. Queued(Both) = << >> /\ Append(Queued(Both), STOP) = <<STOP>>
  <2>1. /\ Both.port.fifo = << >> /\ Both.drv.next = Both.drv.size /\ Both.drv.size \in 0..2
        /\ Both.drv.data \in Seq(Bytes) /\ Len(Both.drv.data) = Both.drv.size
    <3>1. drv.size \in 0..2
      OBVIOUS
    <3> QED BY <1>1, <1>2, <1>6, <3>1, BothIs, Zenon
  <2> QED BY <2>1, QueuesNone
<1>12. ~(Len(Queued(Both)) > shifted)
  <2>1. Len(Queued(Both)) = 0
    BY <1>11
  <2> QED BY <1>5, <2>1
<1>13. /\ FeedFacts(r, Both) /\ r.drv.state = "stopping"
       /\ r.port.fifo = Append(Queued(Both), STOP) /\ TdieOff(r)
  <2>1. Both.drv.state = "transferring"
    BY <1>1, BothIs, Zenon
  <2> QED BY <1>6, <1>10, <1>12, <2>1, SpaceStops
<1>14. /\ r.drv.ignore_tdf = drv.ignore_tdf /\ r.drv.data = drv.data /\ r.drv.size = drv.size
       /\ r.drv.next = drv.size /\ r.drv.error = "ok" /\ r.port.msr = {} /\ r.port.rx = << >>
  BY <1>1, <1>13, BothIs, Zenon DEF FeedFacts
<1>15. drv' = r.drv /\ port' = r.port /\ UNCHANGED <<bus, pointer, acked>>
  BY <1>5, Zenon DEF After
<1>16. (Skips' <=> Skips) /\ ~Asks'
  BY <1>13, <1>14, <1>15, SkipsAfter, OffAfter
<1>17. /\ drv'.state = "stopping" /\ drv'.next = drv'.size /\ drv'.size = drv.size
       /\ port'.fifo = <<STOP>> /\ port'.msr = {}
  BY <1>11, <1>13, <1>14, <1>15, Zenon
<1>18. bus'.phase = "owned" /\ acked' = drv'.size + 1 /\ pointer' = reg'
  BY <1>1, <1>3, <1>15, <1>17, Zenon
<1>19. Last'
  BY <1>16, <1>17, <1>18, Zenon DEF Last, Ends, At
<1> QED BY <1>14, <1>15, <1>16, <1>19, Zenon

\* In a write it queues the bytes, then the STOP, and sees it go out.
LEMMA SendingServed ==
    ASSUME Parts, Sending, op \in {"write", "read"}, UNCHANGED <<op, reg>>,
           interrupt_service_routine
    PROVE  Sending' /\ drv'.error = "ok"
<1>1. Sends /\ (Begin \/ Going("address", 0) \/ Going("owned", bus.bytes + 1) \/ Last)
  BY SendingIs, Zenon
<1>2. drv.error = "ok" /\ ~Skips /\ port.rx = << >> /\ drv.data = TxBuffer
  BY <1>1, Zenon DEF Sends
<1>3. TxBuffer' = TxBuffer
  BY DEF TxBuffer
<1>4. CellOk(Both) /\ bus.bytes \in 0..2 /\ (bus.phase = "address" => bus.bytes = 0)
  BY Zenon DEF Parts, Around, OnBus
<1>5. drv.size \in 1..2 /\ drv.size # 0 /\ drv.size \in 0..2
  <2>1. Len(TxBuffer) \in 1..2
    <3>1. op # "probe"
      OBVIOUS
    <3> QED BY <3>1, TxOk, Zenon DEF Parts
  <2>2. Len(drv.data) = drv.size
    BY BothOk, <1>4
  <2>3. drv.size \in 1..2
    BY <1>2, <2>1, <2>2, Zenon
  <2> QED BY <2>3
<1>s. Sending' <=> /\ Sends'
                   /\ Begin' \/ Going("address", 0)' \/ Going("owned", bus.bytes + 1)' \/ Last'
  BY Zenon DEF Sending, Sends, Begin, Going, Last
<1>6. (Skips' <=> Skips) /\ port'.rx = << >> /\ drv'.error = "ok" /\ drv'.data = drv.data => Sends'
  BY <1>2, <1>3, Zenon DEF Sends
<1>7. CASE Begin
  BY <1>1, <1>4, <1>6, <1>7, <1>s, BeginServed, Zenon
<1>8. CASE Going("address", 0)
  <2>1. /\ port.msr = {} /\ Asks /\ drv.next = drv.size /\ bus.phase = "address"
        /\ port.fifo = LeftOf(drv.size, bus.bytes, reg)
    BY <1>8, Zenon DEF Going, At, Left
  <2>2. port.fifo = << >>
    BY <1>2, <2>1, IdleStays, Zenon DEF Idle
  <2>3. bus.bytes = 0
    BY <1>4, <2>1
  <2>4. LeftOf(drv.size, 0, reg) # << >>
    <3>1. PICK a, b : a = <<BYTE(reg)>> /\ b = <<BYTE(reg), BYTE(reg)>>
      OBVIOUS
    <3>2. a # << >> /\ b # << >>
      BY <3>1
    <3>3. drv.size = 1 \/ drv.size = 2
      BY <1>5
    <3>4. LeftOf(1, 0, reg) = a /\ LeftOf(2, 0, reg) = b
      BY <3>1, LeftIs
    <3> QED BY <3>2, <3>3, <3>4, Zenon
  <2> QED BY <2>1, <2>2, <2>3, <2>4, Zenon
<1>9. CASE Going("owned", bus.bytes + 1)
  BY <1>1, <1>4, <1>5, <1>6, <1>9, <1>s, AllServed, Zenon
<1>10. CASE Last
  <2>1. ~Asks /\ drv.next = drv.size /\ Ends("stopping", drv.size + 1) /\ pointer = reg
    BY <1>10, Zenon DEF Last
  <2>2. PICK n : n = drv.size + 1
    OBVIOUS
  <2>3. Ends("stopping", n) /\ drv.next # 0
    BY <1>5, <2>1, <2>2, Zenon
  <2>4. /\ At("stopped", << >>, "free", n)' /\ port'.msr = {} /\ port'.rx = << >>
        /\ ~Asks' /\ (Skips' <=> Skips) /\ drv'.error = drv.error /\ Remembered
    BY <1>2, <1>4, <2>1, <2>3, EndServed, Zenon
  <2>5. drv'.data = drv.data /\ drv'.size = drv.size /\ drv'.next = drv.next
    BY <2>4, RememberedIs, Zenon
  <2>6. pointer' = pointer
    BY <2>4, Zenon DEF Remembered
  <2>7. Ends("stopping", drv.size + 1)'
    BY <2>2, <2>4, <2>5, Zenon DEF Ends, At
  <2>8. Last'
    BY <2>1, <2>4, <2>5, <2>6, <2>7, Zenon DEF Last
  <2> QED BY <1>2, <1>6, <1>s, <2>4, <2>5, <2>8, Zenon
<1> QED BY <1>1, <1>7, <1>8, <1>9, <1>10, Zenon

\* Elements of a concatenation.
LEMMA ConcatAt ==
    ASSUME NEW S, NEW s \in Seq(S), NEW t \in Seq(S)
    PROVE  /\ \A i \in 1..Len(s) : (s \o t)[i] = s[i]
           /\ \A i \in 1..Len(t) : (s \o t)[Len(s) + i] = t[i]
OBVIOUS

\* A command behind the START, and two.
LEMMA Behind ==
    ASSUME NEW x, NEW y, NEW z
    PROVE  Append(<<x>>, y) = <<x, y>> /\ <<x>> \o <<y, z>> = <<x, y, z>>
<1>1. Append(<<x>>, y) = <<x, y>>
  <2>1. <<x>> \in Seq({x, y}) /\ Len(<<x>>) = 1 /\ <<x>>[1] = x
    OBVIOUS
  <2>2. PICK s : s = Append(<<x>>, y)
    OBVIOUS
  <2>3. s \in Seq({x, y}) /\ Len(s) = 2 /\ s[1] = x /\ s[2] = y
    BY <2>1, <2>2
  <2>4. s = <<x, y>>
    BY <2>3
  <2> QED BY <2>2, <2>4, Zenon
<1>2. <<x>> \o <<y, z>> = <<x, y, z>>
  <2>1. /\ <<x>> \in Seq({x, y, z}) /\ Len(<<x>>) = 1 /\ <<x>>[1] = x
        /\ <<y, z>> \in Seq({x, y, z}) /\ Len(<<y, z>>) = 2 /\ <<y, z>>[1] = y /\ <<y, z>>[2] = z
    OBVIOUS
  <2>2. PICK s, a, b : s = <<x>> \o <<y, z>> /\ a = <<x>> /\ b = <<y, z>>
    OBVIOUS
  <2>3. s = a \o b /\ a \in Seq({x, y, z}) /\ Len(a) = 1 /\ b \in Seq({x, y, z}) /\ Len(b) = 2
        /\ a[1] = x /\ b[1] = y /\ b[2] = z
    BY <2>1, <2>2, Zenon
  <2>a. PICK T : T = {x, y, z}
    OBVIOUS
  <2>b. a \in Seq(T) /\ b \in Seq(T)
    BY <2>3, <2>a
  <2>e. s = a \o b /\ Len(a) = 1 /\ Len(b) = 2
    BY <2>3, Zenon
  <2>c. s \in Seq(T) /\ Len(s) = 3
    <3>1. a \o b \in Seq(T) /\ Len(a \o b) = Len(a) + Len(b)
      BY <2>b, ConcatOf, Zenon
    <3>2. Len(a) + Len(b) = 3
      BY <2>e
    <3> QED BY <2>e, <3>1, <3>2, Zenon
  <2>d. s[1] = a[1] /\ s[2] = b[1] /\ s[3] = b[2]
    <3>1. 1 \in 1..Len(a) /\ 1 \in 1..Len(b) /\ 2 \in 1..Len(b)
          /\ Len(a) + 1 = 2 /\ Len(a) + 2 = 3
      BY <2>e
    <3>2. (a \o b)[1] = a[1] /\ (a \o b)[Len(a) + 1] = b[1] /\ (a \o b)[Len(a) + 2] = b[2]
      BY <2>b, <3>1, ConcatAt
    <3> QED BY <2>e, <3>1, <3>2, Zenon
  <2>4. s \in Seq({x, y, z}) /\ Len(s) = 3 /\ s[1] = x /\ s[2] = y /\ s[3] = z
    BY <2>3, <2>a, <2>c, <2>d, Zenon
  <2>5. s = <<x, y, z>>
    BY <2>4
  <2> QED BY <2>2, <2>5, Zenon
<1> QED BY <1>1, <1>2

-----------------------------------------------------------------------------
(***************************************************************************)
(* The steps of the thread.                                                *)
(***************************************************************************)
LEMMA ThreadIdle == Prompt => port.msr = {} /\ port.rx = << >> /\ (Asks => port.fifo # << >>)
BY PromptIs, Zenon DEF Idle

\* A clean or failed driver that starts has a free bus.
LEMMA StartArms ==
    ASSUME CellOk(Both), Clean \/ Failed, NEW reading \in BOOLEAN, startSucceeds(reading)
    PROVE  Armed(reading)' /\ pointer' = pointer /\ drv'.error = "ok"
<1>1. /\ Starts /\ drv' = Started(Both, reading).drv /\ port' = Started(Both, reading).port
      /\ acked' = 0 /\ got' = 0 /\ bus' = bus /\ pointer' = pointer
  BY Zenon DEF startSucceeds, Store
<1>2. port.fifo = << >> /\ port.rx = << >>
  BY <1>1, Zenon DEF Starts
<1>3. <<STOP>> # << >>
  OBVIOUS
<1>4. bus.phase = "free" /\ ~Asks
  BY <1>2, <1>3, Zenon DEF Clean, Failed, Quiet
<1>5. PICK r : r = Started(Both, reading)
  OBVIOUS
<1>6. /\ IsCell(r) /\ r.drv.state = "starting" /\ r.drv.error = "ok"
      /\ r.drv.ignore_tdf = reading /\ SameBuffer(r, Both)
      /\ r.port.msr = {} /\ r.port.tdie = Both.port.tdie /\ r.port.rx = Both.port.rx
      /\ r.port.fifo = <<START(reading)>>
  BY <1>5, BothOk, StartedIs
<1>7. /\ drv'.state = "starting" /\ drv'.error = "ok" /\ drv'.ignore_tdf = reading
      /\ port'.msr = {} /\ port'.tdie = port.tdie /\ port'.rx = << >>
      /\ port'.fifo = <<START(reading)>>
  BY <1>1, <1>2, <1>5, <1>6, BothIs, Zenon
<1>8. ~Asks' /\ (Skips' <=> reading)
  BY <1>4, <1>7, Zenon DEF Asks, Skips
<1> QED BY <1>1, <1>4, <1>7, <1>8, Zenon DEF Armed

\* One that does not start had failed before, and has failed now.
LEMMA StartRefused ==
    ASSUME CellOk(Both), Clean \/ Failed, Prompt, NEW reading \in BOOLEAN, startFails(reading)
    PROVE  ~Clean /\ Failed' /\ acked' = 0
<1>1. /\ ~Starts /\ acked' = 0 /\ bus' = bus
      /\ Store(IF finished THEN NotEmpty(Both, reading) ELSE Refused(Both))
  BY Zenon DEF startFails
<1>2. ~Clean
  <2>1. drv.state \in {"idle", "stopped"} => finished
    BY DEF finished, FinishedStates
  <2> QED BY <1>1, <2>1, Zenon DEF Clean, Quiet, Starts
<1>3. Failed /\ port.msr = {}
  BY <1>2, ThreadIdle, Zenon
<1>4. bus.phase \in {"free", "closing", "stuck"} /\ "SDF" \notin port.msr
  BY <1>3 DEF Failed, Quiet
<1>5. IsCell(Both)
  BY BothOk
<1>6. PICK r : r = IF finished THEN NotEmpty(Both, reading) ELSE Refused(Both)
  OBVIOUS
<1>7. /\ r.drv.error # "ok" /\ r.port.msr = Both.port.msr /\ TdieOff(r) /\ r.port.rx = << >>
      /\ r.port.fifo = IF BusBusy /\ "SDF" \notin Both.port.msr THEN <<STOP>> ELSE << >>
  <2>1. CASE finished
    <3>1. r = NotEmpty(Both, reading)
      BY <1>6, <2>1, Zenon
    <3>2. /\ r.drv.error = "master_fifos_not_empty"
          /\ r.port.msr = Both.port.msr /\ TdieOff(r) /\ r.port.rx = << >>
          /\ r.port.fifo = IF BusBusy /\ "SDF" \notin Both.port.msr THEN <<STOP>> ELSE << >>
      BY <1>5, <3>1, NotEmptyIs
    <3> QED BY <3>2
  <2>2. CASE ~finished
    <3>1. r = Refused(Both)
      BY <1>6, <2>2, Zenon
    <3>2. r.drv.error = "master_not_ready" /\ r.port = abort_transaction_async(Both).port
      BY <1>5, <3>1, RefusedIs
    <3>3. PICK a : a = abort_transaction_async(Both)
      OBVIOUS
    <3>4. /\ a.port.msr = Both.port.msr /\ a.port.tdie = FALSE /\ a.port.rx = << >>
          /\ a.port.fifo = IF BusBusy /\ "SDF" \notin Both.port.msr THEN <<STOP>> ELSE << >>
      BY <1>5, <3>3, AbortIs
    <3>5. TdieOff(r)
      BY <3>2, <3>3, <3>4, Zenon DEF TdieOff
    <3>6. "master_not_ready" # "ok"
      OBVIOUS
    <3> QED BY <3>2, <3>3, <3>4, <3>5, <3>6, Zenon
  <2> QED BY <2>1, <2>2
<1>8. drv' = r.drv /\ port' = r.port
  BY <1>1, <1>6, Zenon DEF Store
<1>9. ~Asks'
  BY <1>7, <1>8, OffAfter
<1>10. /\ drv'.error # "ok" /\ port'.msr = {} /\ port'.rx = << >>
       /\ port'.fifo = IF bus.phase # "free" THEN <<STOP>> ELSE << >>
  BY <1>3, <1>4, <1>7, <1>8, BothIs, Zenon DEF BusBusy
<1>11. bus'.phase = bus.phase /\ bus'.phase \in {"free", "closing", "stuck"}
  BY <1>1, <1>4
<1>12. Failed'
  BY <1>9, <1>10, <1>11, Zenon DEF Failed, Quiet
<1> QED BY <1>1, <1>2, <1>12

\* The rest of a write.
LEMMA WriteArmed ==
    ASSUME CellOk(Both), Armed(FALSE), ArmWrite
    PROVE  /\ op' = op /\ status' = status
           /\ IF op = "probe" THEN Probing' ELSE Sending'
           /\ drv'.error = "ok"
<1>1. /\ op' = op /\ reg' = reg /\ status' = status
      /\ IF TxBuffer = << >> THEN probeArmed ELSE writeArmed(TxBuffer)
  BY Zenon DEF ArmWrite
<1>2. IsCell(Both)
  BY BothOk
<1>3. /\ drv.state = "starting" /\ drv.error = "ok" /\ ~Skips
      /\ port.fifo = <<START(FALSE)>> /\ port.msr = {} /\ port.rx = << >> /\ ~Asks
      /\ bus.phase = "free" /\ acked = 0
  <2>1. PICK f : f = FALSE
    OBVIOUS
  <2>2. Armed(FALSE) => ~Skips
    BY DEF Armed
  <2> QED BY <2>2, Zenon DEF Armed
<1>4. TxBuffer = << >> <=> op = "probe"
  BY DEF TxBuffer
<1>5. CASE op = "probe"
  <2>1. /\ port'.fifo = Append(port.fifo, STOP)
        /\ port'.msr = port.msr /\ port'.rx = port.rx /\ port'.tdie = port.tdie
        /\ drv'.ignore_tdf = TRUE /\ drv'.state = drv.state /\ drv'.error = drv.error
        /\ UNCHANGED <<bus, pointer, acked>>
    BY <1>1, <1>2, <1>4, <1>5, ProbeIs
  <2>2. Skips' /\ (Asks' <=> Asks)
    <3>1. Skips'
      BY <2>1 DEF Skips
    <3>2. Asks' <=> Asks
      BY <2>1, Zenon DEF Asks
    <3> QED BY <3>1, <3>2
  <2>3. port'.fifo = <<START(FALSE), STOP>>
    <3>1. PICK x, y : x = START(FALSE) /\ y = STOP
      OBVIOUS
    <3>2. Append(<<x>>, y) = <<x, y>>
      BY Behind
    <3> QED BY <1>3, <2>1, <3>1, <3>2, Zenon
  <2>4. bus'.phase = "free" /\ acked' = 0
    BY <1>3, <2>1, Zenon
  <2>5. Probing'
    BY <1>3, <2>1, <2>2, <2>3, <2>4, Zenon DEF Probing, At
  <2> QED BY <1>1, <1>3, <1>5, <2>1, <2>5, Zenon
<1>6. CASE op # "probe"
  <2>1. /\ port'.fifo = port.fifo
        /\ port'.msr = port.msr /\ port'.rx = port.rx /\ port'.tdie = TRUE
        /\ drv'.data = TxBuffer /\ drv'.next = 0 /\ drv'.ignore_tdf = drv.ignore_tdf
        /\ drv'.state = drv.state /\ drv'.error = drv.error
        /\ UNCHANGED <<bus, pointer, acked>>
    BY <1>1, <1>2, <1>4, <1>6, WriteIs
  <2>2. (Skips' <=> Skips) /\ Asks'
    <3>1. Asks'
      BY <2>1 DEF Asks
    <3>2. Skips' <=> Skips
      BY <2>1, Zenon DEF Skips
    <3> QED BY <3>1, <3>2
  <2>3. drv'.data = TxBuffer'
    BY <1>1, <2>1, Zenon DEF TxBuffer
  <2>4. bus'.phase = "free" /\ acked' = 0
    BY <1>3, <2>1, Zenon
  <2>5. Sending'
    BY <1>3, <2>1, <2>2, <2>3, <2>4, Zenon DEF Sending
  <2> QED BY <1>1, <1>3, <1>6, <2>1, <2>5, Zenon
<1> QED BY <1>5, <1>6

\* The rest of a read.
LEMMA ReadArmed ==
    ASSUME CellOk(Both), Armed(TRUE), ArmRead
    PROVE  Receiving' /\ drv'.next = 0 /\ drv'.error = "ok" /\ UNCHANGED <<status, pointer, reg>>
<1>1. readArmed /\ reg' = reg /\ status' = status
  BY Zenon DEF ArmRead
<1>2. IsCell(Both)
  BY BothOk
<1>3. /\ drv.state = "starting" /\ drv.error = "ok" /\ Skips
      /\ port.fifo = <<START(TRUE)>> /\ port.msr = {} /\ port.rx = << >> /\ ~Asks
      /\ bus.phase = "free" /\ acked = 0
  <2>1. Armed(TRUE) => Skips
    BY DEF Armed
  <2> QED BY <2>1, Zenon DEF Armed
<1>4. /\ port'.fifo = port.fifo \o <<RECEIVE, STOP>>
      /\ port'.msr = port.msr /\ port'.rx = port.rx /\ port'.tdie = port.tdie
      /\ drv'.size = 1 /\ drv'.next = 0 /\ drv'.ignore_tdf = drv.ignore_tdf
      /\ drv'.state = drv.state /\ drv'.error = drv.error
      /\ UNCHANGED <<bus, pointer, acked>>
  BY <1>1, <1>2, ReadIs
<1>5. (Skips' <=> Skips) /\ (Asks' <=> Asks)
  BY <1>4, Zenon DEF Skips, Asks
<1>6. port'.fifo = <<START(TRUE), RECEIVE, STOP>>
  <2>1. PICK x, y, z : x = START(TRUE) /\ y = RECEIVE /\ z = STOP
    OBVIOUS
  <2>2. <<x>> \o <<y, z>> = <<x, y, z>>
    BY Behind
  <2> QED BY <1>3, <1>4, <2>1, <2>2, Zenon
<1>7. bus'.phase = "free" /\ acked' = 0
  BY <1>3, <1>4, Zenon
<1>8. Receiving'
  BY <1>3, <1>4, <1>5, <1>6, <1>7, Zenon DEF Receiving
<1> QED BY <1>1, <1>3, <1>4, <1>8, Zenon

\* When finish gives up there is nothing for the port to do, and when the transaction
\* is over its last flag was seen.
LEMMA EndsOver ==
    ASSUME NEW state, NEW count, Ends(state, count), state \in BusyStates, Prompt, finish
    PROVE  At("stopped", << >>, "free", count) /\ port.msr = {}
<1>1. port.msr = {} /\ (finished \/ ~PortWorks)
  BY ThreadIdle, Zenon DEF finish, Prompt
<1>2. CASE At(state, <<STOP>>, "owned", count)
  <2>1. drv.state = state /\ port.fifo = <<STOP>> /\ bus.phase = "owned"
    BY <1>2, Zenon DEF At
  <2>2. ~finished
    BY <2>1 DEF finished, BusyStates, FinishedStates
  <2>3. PortWorks
    <3>1. port.fifo # << >> /\ port.fifo[1].cmd # "BYTE" /\ bus.phase \in {"free", "owned"}
      <4>1. "STOP" # "BYTE"
        OBVIOUS
      <4>2. bus.phase \in {"free", "owned"}
        BY <2>1
      <4> QED BY <2>1, <4>1, <4>2, Queues, Zenon
    <3> QED BY <3>1, Zenon DEF PortWorks
  <2> QED BY <1>1, <2>2, <2>3
<1>3. CASE At(state, << >>, "closing", count)
  <2>1. drv.state = state /\ bus.phase = "closing"
    BY <1>3, Zenon DEF At
  <2>2. ~finished
    BY <2>1 DEF finished, BusyStates, FinishedStates
  <2>3. PortWorks
    BY <2>1 DEF PortWorks
  <2> QED BY <1>1, <2>2, <2>3
<1>4. port.msr # {"SDF"}
  BY <1>1
<1> QED BY <1>1, <1>2, <1>3, <1>4, Zenon DEF Ends

\* Between the first command and the end the port has something to do.
LEMMA Busy ==
    ASSUME drv.state \in BusyStates, Prompt, finish,
           \/ bus.phase = "address"
           \/ /\ bus.phase \in {"free", "owned"} /\ port.fifo # << >>
              /\ Command.cmd # "BYTE" \/ bus.bytes # 2
    PROVE  FALSE
<1>1. finished \/ ~PortWorks
  BY Zenon DEF finish, Prompt
<1>2. ~finished
  BY DEF finished, BusyStates, FinishedStates
<1>3. PortWorks
  BY DEF PortWorks, Command, MaxTransfer
<1> QED BY <1>1, <1>2, <1>3

\* With nothing pending no error flag is up.
LEMMA FailingOver ==
    ASSUME Failing, Prompt
    PROVE  FALSE
<1>1. port.msr = {}
  BY ThreadIdle, Zenon
<1>2. port.msr = {"NDF"} \/ port.msr = {"ALF"} \/ port.msr = {"PLTF"}
  BY Zenon DEF Failing
<1> QED BY <1>1, <1>2

\* A probe that ends without an error had its address acknowledged.
LEMMA ProbingOver ==
    ASSUME Probing, Prompt, finish
    PROVE  Clean /\ acked = 1
<1>1. drv.error = "ok" /\ port.rx = << >> /\ ~Asks
  BY Zenon DEF Probing
<1>b. "starting" \in BusyStates
  BY DEF BusyStates
<1>2. CASE At("starting", <<START(FALSE), STOP>>, "free", 0)
  <2>1. drv.state = "starting" /\ port.fifo = <<START(FALSE), STOP>> /\ bus.phase = "free"
    BY <1>2, Zenon DEF At
  <2>2. port.fifo # << >> /\ Command.cmd = "START"
    <3>1. PICK x : x = START(FALSE)
      OBVIOUS
    <3>2. x.cmd = "START"
      BY <3>1 DEF START
    <3>3. port.fifo = <<x, STOP>>
      BY <2>1, <3>1, Zenon
    <3>4. port.fifo # << >> /\ Command = x
      BY <3>3 DEF Command
    <3> QED BY <3>2, <3>4, Zenon
  <2>3. Command.cmd # "BYTE" /\ bus.phase \in {"free", "owned"}
    BY <2>1, <2>2
  <2> QED BY <1>b, <2>1, <2>2, <2>3, Busy, Zenon
<1>3. CASE At("starting", <<STOP>>, "address", 0)
  <2>1. drv.state = "starting" /\ bus.phase = "address"
    BY <1>3, Zenon DEF At
  <2> QED BY <1>b, <2>1, Busy, Zenon
<1>4. CASE Ends("starting", 1)
  <2>1. At("stopped", << >>, "free", 1) /\ port.msr = {}
    BY <1>4, <1>b, EndsOver
  <2>2. drv.state \in {"idle", "stopped"}
    BY <2>1 DEF At
  <2> QED BY <1>1, <2>1, <2>2, Zenon DEF Clean, Quiet, At
<1> QED BY <1>2, <1>3, <1>4, Zenon DEF Probing

\* A read that ends without an error is clean.
LEMMA ReceivingOver ==
    ASSUME Receiving, Prompt, finish
    PROVE  Clean
<1>1. drv.error = "ok" /\ ~Asks /\ port.rx = << >> /\ port.msr = {}
  BY ThreadIdle, Zenon DEF Receiving
<1>b. "starting" \in BusyStates /\ "stopping" \in BusyStates
  BY DEF BusyStates
<1>2. CASE drv.state = "starting" /\ port.fifo = <<START(TRUE), RECEIVE, STOP>> /\ bus.phase = "free"
  <2>2. port.fifo # << >> /\ Command.cmd = "START"
    <3>1. PICK x : x = START(TRUE)
      OBVIOUS
    <3>2. x.cmd = "START"
      BY <3>1 DEF START
    <3>3. port.fifo = <<x, RECEIVE, STOP>>
      BY <1>2, <3>1, Zenon
    <3>4. port.fifo # << >> /\ Command = x
      BY <3>3 DEF Command
    <3> QED BY <3>2, <3>4, Zenon
  <2>3. Command.cmd # "BYTE" /\ bus.phase \in {"free", "owned"}
    BY <1>2, <2>2
  <2> QED BY <1>b, <1>2, <2>2, <2>3, Busy, Zenon
<1>3. CASE drv.state = "starting" /\ bus.phase = "address"
  BY <1>b, <1>3, Busy, Zenon
<1>4. CASE drv.state = "starting" /\ port.fifo = <<RECEIVE, STOP>> /\ bus.phase = "owned"
  <2>2. port.fifo # << >> /\ Command.cmd = "RECEIVE"
    BY <1>4, Queues, Zenon DEF Command
  <2>3. Command.cmd # "BYTE" /\ bus.phase \in {"free", "owned"}
    BY <1>4, <2>2
  <2> QED BY <1>b, <1>4, <2>2, <2>3, Busy, Zenon
<1>5. port.rx # <<pointer>>
  BY <1>1
<1>6. CASE Ends("stopping", acked)
  <2>1. PICK n : n = acked
    OBVIOUS
  <2>2. Ends("stopping", n)
    BY <1>6, <2>1, Zenon
  <2>3. At("stopped", << >>, "free", n)
    BY <1>b, <2>2, EndsOver
  <2>4. drv.state \in {"idle", "stopped"}
    BY <2>3 DEF At
  <2> QED BY <1>1, <2>3, <2>4, Zenon DEF Clean, Quiet, At
<1> QED BY <1>2, <1>3, <1>4, <1>5, <1>6, Zenon DEF Receiving

\* A write that ends without an error had every byte acknowledged, and the device now
\* points to its register.
LEMMA SendingOver ==
    ASSUME Parts, Sending, op # "probe", Prompt, finish
    PROVE  Clean /\ acked = 1 + Len(TxBuffer) /\ pointer = reg
<1>1. Sends /\ (Begin \/ Going("address", 0) \/ Going("owned", bus.bytes + 1) \/ Last)
  BY SendingIs, Zenon
<1>2. drv.error = "ok" /\ port.rx = << >> /\ drv.data = TxBuffer
  BY <1>1, Zenon DEF Sends
<1>b. "starting" \in BusyStates /\ "stopping" \in BusyStates /\ "transferring" \in BusyStates
  BY DEF BusyStates
<1>3. /\ drv.size \in 0..2 /\ bus.bytes \in 0..2 /\ Len(TxBuffer) = drv.size
  BY <1>2, BothOk, Zenon DEF Parts, Around
<1>4. CASE Begin
  <2>1. Asks /\ drv.state = "starting"
    BY <1>4, Zenon DEF Begin
  <2>2. port.fifo # << >>
    BY <2>1, ThreadIdle, Zenon
  <2>3. port.fifo = <<START(FALSE)>> /\ bus.phase = "free"
    BY <1>4, <2>2, Zenon DEF Begin
  <2>4. Command.cmd = "START"
    <3>1. PICK x : x = START(FALSE)
      OBVIOUS
    <3>2. x.cmd = "START"
      BY <3>1 DEF START
    <3>3. port.fifo = <<x>>
      BY <2>3, <3>1, Zenon
    <3>4. Command = x
      BY <3>3 DEF Command
    <3> QED BY <3>2, <3>4, Zenon
  <2>5. Command.cmd # "BYTE" /\ bus.phase \in {"free", "owned"}
    BY <2>3, <2>4
  <2> QED BY <1>b, <2>1, <2>2, <2>5, Busy, Zenon
<1>5. CASE Going("address", 0)
  <2>1. drv.state = "transferring" /\ bus.phase = "address"
    BY <1>5, Zenon DEF Going, At
  <2> QED BY <1>b, <2>1, Busy, Zenon
<1>6. CASE Going("owned", bus.bytes + 1)
  <2>1. /\ Asks /\ drv.state = "transferring" /\ bus.phase = "owned" /\ bus.bytes <= drv.size
        /\ port.fifo = LeftOf(drv.size, bus.bytes, reg)
    BY <1>6, Zenon DEF Going, At, Left
  <2>2. port.fifo # << >>
    BY <2>1, ThreadIdle, Zenon
  <2>3. bus.bytes + 1 <= drv.size
    <3>1. LeftOf(drv.size, bus.bytes, reg) # << >>
      BY <2>1, <2>2, Zenon
    <3> QED BY <1>3, <2>1, <3>1, LeftTakes
  <2>4. bus.bytes # 2 /\ bus.phase \in {"free", "owned"}
    BY <1>3, <2>1, <2>3
  <2> QED BY <1>b, <2>1, <2>2, <2>4, Busy, Zenon
<1>7. CASE Last
  <2>1. ~Asks /\ Ends("stopping", drv.size + 1) /\ pointer = reg
    BY <1>7, Zenon DEF Last
  <2>2. PICK n : n = drv.size + 1
    OBVIOUS
  <2>3. Ends("stopping", n)
    BY <2>1, <2>2, Zenon
  <2>4. At("stopped", << >>, "free", n) /\ port.msr = {}
    BY <1>b, <2>3, EndsOver
  <2>5. drv.state \in {"idle", "stopped"}
    BY <2>4 DEF At
  <2>6. acked = n
    BY <2>4, Zenon DEF At
  <2>7. acked = 1 + Len(TxBuffer)
    <3>1. n = 1 + drv.size
      BY <1>3, <2>2
    <3> QED BY <1>3, <2>6, <3>1, Zenon
  <2> QED BY <1>2, <2>1, <2>4, <2>5, <2>7, Zenon DEF Clean, Quiet, At
<1> QED BY <1>1, <1>4, <1>5, <1>6, <1>7, Zenon

-----------------------------------------------------------------------------
(***************************************************************************)
(* Every step keeps the stages and what was told.                          *)
(***************************************************************************)
LEMMA RestStage ==
    ASSUME pc' \in {"ready", "write_async", "read_async"}, Clean' \/ Failed'
    PROVE  Stages'
<1>1. pc' # "arm_write" /\ pc' # "arm_read" /\ pc' # "finish_write" /\ pc' # "finish_read"
  OBVIOUS
<1> QED BY <1>1, Zenon DEF Stages

\* The stage of a call before the rest of write_async.
LEMMA ArmWriteStage ==
    ASSUME pc' = "arm_write", Armed(FALSE)'
    PROVE  Stages'
<1>1. pc' # "arm_read" /\ pc' # "finish_write" /\ pc' # "finish_read"
      /\ pc' \notin {"ready", "write_async", "read_async"}
  OBVIOUS
<1> QED BY <1>1, Zenon DEF Stages

\* The stage of a call before the rest of read_async.
LEMMA ArmReadStage ==
    ASSUME pc' = "arm_read", Armed(TRUE)'
    PROVE  Stages'
<1>1. pc' # "arm_write" /\ pc' # "finish_write" /\ pc' # "finish_read"
      /\ pc' \notin {"ready", "write_async", "read_async"}
  OBVIOUS
<1> QED BY <1>1, Zenon DEF Stages

\* The stage of a call in finish(), write.
LEMMA WriteStage ==
    ASSUME pc' = "finish_write", Failed' \/ Failing' \/ (IF op' = "probe" THEN Probing' ELSE Sending')
    PROVE  Stages'
<1>1. pc' # "arm_write" /\ pc' # "arm_read" /\ pc' # "finish_read"
      /\ pc' \notin {"ready", "write_async", "read_async"}
  OBVIOUS
<1> QED BY <1>1, Zenon DEF Stages

\* The stage of a call in finish(), read.
LEMMA ReadStage ==
    ASSUME pc' = "finish_read", Failed' \/ Failing' \/ Receiving'
    PROVE  Stages'
<1>1. pc' # "arm_write" /\ pc' # "arm_read" /\ pc' # "finish_write"
      /\ pc' \notin {"ready", "write_async", "read_async"}
  OBVIOUS
<1> QED BY <1>1, Zenon DEF Stages

\* What was told stays true while the thread stands still.
LEMMA ToldKept ==
    ASSUME Told, UNCHANGED <<pc, status, reg>>, pointer' = pointer \/ pc = "finish_write",
           drv'.error = "address_nak" => acked' = 0,
           status = 0 /\ pc = "read_async" => Clean',
           status = 0 /\ pc = "finish_read" /\ drv'.next # 0 => got' = 1 /\ drv'.read_buffer = reg
    PROVE  Told'
<1>1. pc = "finish_write" => pc \notin {"read_async", "arm_read", "finish_read"}
  OBVIOUS
<1>2. status' = 0 /\ pc' \in {"read_async", "arm_read", "finish_read"} => pointer' = reg'
  BY <1>1, Zenon DEF Told
<1>3. pc' \in {"write_async", "arm_write", "finish_write"} => status' = NoStatus
  BY Zenon DEF Told
<1> QED BY <1>2, <1>3, Zenon DEF Told

\* The thread stands still while the driver and the bus move.
LEMMA Places ==
    ASSUME CallOk
    PROVE  \/ pc \in {"ready", "write_async", "read_async"} \/ pc = "arm_write" \/ pc = "arm_read"
           \/ pc = "finish_write" \/ pc = "finish_read"
BY DEF CallOk

\* A thread that was never switched away was not inside start() when others ran.
LEMMA StayStill ==
    ASSUME ~switched', Meanwhile
    PROVE  ~switched /\ pc # "arm_write" /\ pc # "arm_read" /\ UNCHANGED <<op, reg, pc, status>>
<1>1. /\ ~(switched \/ pc \in {"arm_write", "arm_read"})
      /\ UNCHANGED <<op, reg, pc, status>>
  BY DEF Meanwhile
<1> QED BY <1>1

\* A thread in finish() is in a call.
LEMMA AtWork ==
    ASSUME CallOk, pc = "finish_write"
    PROVE  op \in {"probe", "write", "read"}
BY DEF CallOk, Ops

\* Port and faults keep the stage and what the call was told.
LEMMA PortStages ==
    ASSUME Parts, Stages, Told, ~switched', PortStep \/ FaultStep, Meanwhile
    PROVE  Stages' /\ Told'
<1>1. /\ pc # "arm_write" /\ pc # "arm_read"
      /\ op' = op /\ reg' = reg /\ pc' = pc /\ status' = status
  BY StayStill, Zenon
<1>2. CASE pc \in {"ready", "write_async", "read_async"}
  <2>1. Failed
    BY <1>2, CleanStill, Zenon DEF Stages
  <2>2. Failed' /\ UNCHANGED <<drv, got, pointer, acked>>
    BY <2>1, FailedMoves, Zenon
  <2>3. ~Clean
    BY <2>1, Zenon DEF Clean, Failed
  <2>4. pc # "finish_read"
    BY <1>2
  <2>5. drv'.error = "address_nak" => acked' = 0
    BY <2>2, Zenon DEF Told
  <2>6. ~(status = 0 /\ pc = "read_async")
    BY <2>3, Zenon DEF Told
  <2>7. Told'
    BY <1>1, <2>2, <2>4, <2>5, <2>6, ToldKept, Zenon
  <2>8. pc' \in {"ready", "write_async", "read_async"}
    BY <1>1, <1>2, Zenon
  <2> QED BY <2>2, <2>7, <2>8, RestStage, Zenon
<1>3. CASE pc = "finish_write"
  <2>1. Failed \/ Failing \/ (IF op = "probe" THEN Probing ELSE Sending)
    BY <1>3, Zenon DEF Stages
  <2>2. /\ Failed' \/ Failing' \/ (IF op = "probe" THEN Probing' ELSE Sending')
        /\ drv'.error = "address_nak" => acked' = 0
    <3>1. CASE Failed
      <4>1. Failed' /\ UNCHANGED <<drv, acked>>
        BY <3>1, FailedMoves, Zenon
      <4> QED BY <4>1, Zenon DEF Told
    <3>2. CASE Failing
      BY <3>2, FailingStill, Zenon
    <3>3. CASE op = "probe" /\ Probing
      <4>1. (Probing' \/ Failing') /\ drv' = drv
        BY <3>3, ProbingMoves, Zenon
      <4>2. drv'.error # "address_nak"
        <5>1. drv'.error = "ok"
          BY <3>3, <4>1, Zenon DEF Probing
        <5> QED BY <5>1
      <4> QED BY <3>3, <4>1, <4>2, Zenon
    <3>4. CASE op # "probe" /\ Sending
      <4>1. (Sending' \/ Failing') /\ drv' = drv
        BY <1>1, <3>4, SendingMoves, Zenon
      <4>2. drv'.error # "address_nak"
        <5>1. drv'.error = "ok"
          BY <3>4, <4>1, Zenon DEF Sending
        <5> QED BY <5>1
      <4> QED BY <3>4, <4>1, <4>2, Zenon
    <3> QED BY <2>1, <3>1, <3>2, <3>3, <3>4, Zenon
  <2>3. pc # "read_async" /\ pc # "finish_read"
    BY <1>3
  <2>4. Told'
    BY <1>1, <1>3, <2>2, <2>3, ToldKept, Zenon
  <2> QED BY <1>1, <1>3, <2>2, <2>4, WriteStage, Zenon
<1>4. CASE pc = "finish_read"
  <2>1. Failed \/ Failing \/ Receiving
    BY <1>4, Zenon DEF Stages
  <2>2. /\ Failed' \/ Failing' \/ Receiving'
        /\ UNCHANGED <<drv, got, pointer>>
        /\ drv'.error = "address_nak" => acked' = 0
    <3>1. CASE Failed
      <4>1. Failed' /\ UNCHANGED <<drv, got, pointer, acked>>
        BY <3>1, FailedMoves, Zenon
      <4> QED BY <4>1, Zenon DEF Told
    <3>2. CASE Failing
      BY <3>2, FailingStill, Zenon
    <3>3. CASE Receiving
      <4>1. (Receiving' \/ Failing') /\ UNCHANGED <<drv, got, pointer>>
        BY <3>3, ReceivingMoves, Zenon
      <4>2. drv'.error # "address_nak"
        <5>1. drv'.error = "ok"
          BY <3>3, <4>1, Zenon DEF Receiving
        <5> QED BY <5>1
      <4> QED BY <4>1, <4>2, Zenon
    <3> QED BY <2>1, <3>1, <3>2, <3>3, Zenon
  <2>3. pc # "read_async"
    BY <1>4
  <2>4. status = 0 /\ drv'.next # 0 => got' = 1 /\ drv'.read_buffer = reg
    BY <1>4, <2>2, Zenon DEF Told
  <2>5. Told'
    BY <1>1, <2>2, <2>3, <2>4, ToldKept, Zenon
  <2> QED BY <1>1, <1>4, <2>2, <2>5, ReadStage, Zenon
<1> QED BY <1>1, <1>2, <1>3, <1>4, Places, Zenon DEF Parts

\* So does the interrupt routine.
LEMMA InterruptStages ==
    ASSUME Parts, Stages, Told, ~switched', interrupt_service_routine, Meanwhile
    PROVE  Stages' /\ Told'
<1>1. /\ pc # "arm_write" /\ pc # "arm_read"
      /\ op' = op /\ reg' = reg /\ pc' = pc /\ status' = status
  BY StayStill, Zenon
<1>c. CellOk(Both)
  BY Zenon DEF Parts
<1>2. CASE pc \in {"ready", "write_async", "read_async"}
  <2>1. Failed
    BY <1>2, CleanServed, Zenon DEF Stages
  <2>2. /\ Failed' /\ UNCHANGED <<got, pointer, acked>>
        /\ drv'.error = "address_nak" => drv.error = "address_nak"
    BY <1>c, <2>1, FailedServed, Zenon DEF Remembered
  <2>3. ~Clean
    BY <2>1, Zenon DEF Clean, Failed
  <2>4. pc # "finish_read"
    BY <1>2
  <2>5. drv'.error = "address_nak" => acked' = 0
    BY <2>2, Zenon DEF Told
  <2>6. ~(status = 0 /\ pc = "read_async")
    BY <2>3, Zenon DEF Told
  <2>7. Told'
    BY <1>1, <2>2, <2>4, <2>5, <2>6, ToldKept, Zenon
  <2>8. pc' \in {"ready", "write_async", "read_async"}
    BY <1>1, <1>2, Zenon
  <2> QED BY <2>2, <2>7, <2>8, RestStage, Zenon
<1>3. CASE pc = "finish_write"
  <2>1. Failed \/ Failing \/ (IF op = "probe" THEN Probing ELSE Sending)
    BY <1>3, Zenon DEF Stages
  <2>2. /\ Failed' \/ Failing' \/ (IF op = "probe" THEN Probing' ELSE Sending')
        /\ drv'.error = "address_nak" => acked' = 0
    <3>1. CASE Failed
      <4>1. Failed' /\ acked' = acked /\ (drv'.error = "address_nak" => drv.error = "address_nak")
        BY <1>c, <3>1, FailedServed, Zenon DEF Remembered
      <4> QED BY <4>1, Zenon DEF Told
    <3>2. CASE Failing
      BY <1>c, <3>2, FailingServed, Zenon
    <3>3. CASE op = "probe" /\ Probing
      <4>1. Probing' /\ drv'.error = "ok"
        BY <1>c, <3>3, ProbingServed, Zenon
      <4>2. drv'.error # "address_nak"
        BY <4>1
      <4> QED BY <3>3, <4>1, <4>2, Zenon
    <3>4. CASE op # "probe" /\ Sending
      <4>1. op \in {"write", "read"}
        <5>1. op \in {"probe", "write", "read"}
          BY <1>3, AtWork, Zenon DEF Parts
        <5> QED BY <3>4, <5>1
      <4>2. Sending' /\ drv'.error = "ok"
        BY <1>1, <3>4, <4>1, SendingServed, Zenon
      <4>3. drv'.error # "address_nak"
        BY <4>2
      <4> QED BY <3>4, <4>2, <4>3, Zenon
    <3> QED BY <2>1, <3>1, <3>2, <3>3, <3>4, Zenon
  <2>3. pc # "read_async" /\ pc # "finish_read"
    BY <1>3
  <2>4. Told'
    BY <1>1, <1>3, <2>2, <2>3, ToldKept, Zenon
  <2> QED BY <1>1, <1>3, <2>2, <2>4, WriteStage, Zenon
<1>4. CASE pc = "finish_read"
  <2>1. Failed \/ Failing \/ Receiving
    BY <1>4, Zenon DEF Stages
  <2>2. /\ Failed' \/ Failing' \/ Receiving'
        /\ pointer' = pointer
        /\ Remembered \/ (got' = 1 /\ drv'.read_buffer = pointer)
        /\ drv'.error = "address_nak" => acked' = 0
    <3>1. CASE Failed
      <4>1. /\ Failed' /\ Remembered
            /\ drv'.error = "address_nak" => drv.error = "address_nak"
        BY <1>c, <3>1, FailedServed, Zenon
      <4> QED BY <4>1, Zenon DEF Told, Remembered
    <3>2. CASE Failing
      <4>1. /\ Failed' /\ Remembered
            /\ drv'.error = "address_nak" => acked' = 0
        BY <1>c, <3>2, FailingServed, Zenon
      <4> QED BY <4>1, Zenon DEF Remembered
    <3>3. CASE Receiving
      <4>1. /\ Receiving' /\ UNCHANGED <<bus, pointer, acked>> /\ drv'.error = "ok"
            /\ Remembered \/ (got' = 1 /\ drv'.read_buffer = pointer)
        BY <1>c, <3>3, ReceivingServed, Zenon
      <4>2. drv'.error # "address_nak"
        BY <4>1
      <4> QED BY <4>1, <4>2, Zenon
    <3> QED BY <2>1, <3>1, <3>2, <3>3, Zenon
  <2>3. pc # "read_async"
    BY <1>4
  <2>4. status = 0 => pointer = reg
    <3>1. pc \in {"read_async", "arm_read", "finish_read"}
      BY <1>4
    <3> QED BY <3>1, Zenon DEF Told
  <2>5. status = 0 /\ drv'.next # 0 => got' = 1 /\ drv'.read_buffer = reg
    <3>1. CASE Remembered
      <4>1. drv'.next = drv.next /\ drv'.read_buffer = drv.read_buffer /\ got' = got
        BY <3>1, RememberedIs, Zenon DEF Remembered
      <4> QED BY <1>4, <4>1, Zenon DEF Told
    <3>2. CASE got' = 1 /\ drv'.read_buffer = pointer
      BY <2>4, <3>2, Zenon
    <3> QED BY <2>2, <3>1, <3>2, Zenon
  <2>6. Told'
    BY <1>1, <2>2, <2>3, <2>5, ToldKept, Zenon
  <2> QED BY <1>1, <1>4, <2>2, <2>6, ReadStage, Zenon
<1> QED BY <1>1, <1>2, <1>3, <1>4, Places, Zenon DEF Parts

\* The bus lets go of a line, or has nothing go wrong any more.
LEMMA PausedStages ==
    ASSUME Parts, Stages, Told, BusReleased \/ BusHeals, UNCHANGED callVars
    PROVE  Stages' /\ Told'
<1>1. /\ UNCHANGED <<drv, port, pointer, acked, got>>
      /\ UNCHANGED <<op, reg, pc, status>>
      /\ bus' = bus \/ (bus.phase = "stuck" /\ bus'.phase = "closing")
  <2>1. CASE BusHeals
    BY <2>1, Zenon DEF BusHeals, callVars
  <2>2. CASE BusReleased
    <3>1. bus.phase = "stuck" /\ bus' = [bus EXCEPT !.phase = "closing"]
      BY <2>2 DEF BusReleased
    <3>2. Phase("closing")
      BY <3>1, PhaseIs, Zenon DEF Parts
    <3> QED BY <2>2, <3>1, <3>2, Zenon DEF BusReleased, callVars, Phase
  <2> QED BY <2>1, <2>2
<1>2. (Skips' <=> Skips) /\ (Asks' <=> Asks)
  BY <1>1, Zenon DEF Skips, Asks
<1>3. Told' <=> /\ drv.error = "address_nak" => acked = 0
                /\ pc \in {"write_async", "arm_write", "finish_write"} => status = NoStatus
                /\ status = 0 /\ pc \in {"read_async", "arm_read", "finish_read"} => pointer = reg
                /\ status = 0 /\ pc = "read_async" => Clean'
                /\ status = 0 /\ pc = "finish_read" /\ drv.next # 0
                     => got = 1 /\ drv.read_buffer = reg
  BY <1>1, Zenon DEF Told
<1>4. Clean => Clean'
  <2>1. Clean => bus.phase # "stuck"
    BY DEF Clean, Quiet
  <2> QED BY <1>1, <1>2, <2>1, Zenon DEF Clean, Quiet
<1>5. Told'
  BY <1>3, <1>4, Zenon DEF Told
<1>6. CASE bus' = bus
  <2>1. (BusReads' <=> BusReads) /\ TxBuffer' = TxBuffer /\ Left' = Left
    BY <1>1, <1>6, Zenon DEF BusReads, TxBuffer, Left
  <2>2. /\ Failed' <=> Failed
        /\ Failing' <=> Failing
    BY <1>1, <1>2, <1>6, Zenon DEF Failed, Failing, Quiet
  <2>3. /\ Armed(TRUE)' <=> Armed(TRUE)
        /\ Armed(FALSE)' <=> Armed(FALSE)
    BY <1>1, <1>2, <1>6, Zenon DEF Armed
  <2>4. \A state, count : Ends(state, count)' <=> Ends(state, count)
    BY <1>1, <1>6, Zenon DEF Ends, At
  <2>5. Probing' <=> Probing
    BY <1>1, <1>2, <1>6, <2>1, <2>4, Zenon DEF Probing, At
  <2>6. Sending' <=> Sending
    BY <1>1, <1>2, <1>6, <2>1, <2>4, Zenon DEF Sending, At
  <2>7. Receiving' <=> Receiving
    BY <1>1, <1>2, <1>6, <2>1, <2>4, Zenon DEF Receiving, At
  <2> QED BY <1>1, <1>4, <1>5, <2>2, <2>3, <2>5, <2>6, <2>7, Zenon DEF Stages
<1>7. CASE bus.phase = "stuck" /\ bus'.phase = "closing"
  <2>1. /\ bus.phase # "free" /\ bus.phase # "address" /\ bus.phase # "owned" /\ bus.phase # "closing"
        /\ bus'.phase \in {"free", "closing", "stuck"} /\ bus'.phase \in {"closing", "stuck"}
    BY <1>7
  <2>2. ~Clean /\ ~Armed(TRUE) /\ ~Armed(FALSE) /\ ~Probing /\ ~Sending /\ ~Receiving
    BY <2>1, Zenon DEF Clean, Quiet, Armed, Probing, Sending, Receiving, Ends, At
  <2>3. Failed => Failed'
    <3>1. Failed => port.fifo = <<STOP>> /\ (port.msr = {} \/ port.msr = {"PLTF"})
      BY <2>1, Zenon DEF Failed, Quiet
    <3> QED BY <1>1, <1>2, <2>1, <3>1, Zenon DEF Failed
  <2>4. Failing => Failing'
    <3>1. Failing => port.msr = {"PLTF"}
      BY <2>1, Zenon DEF Failing
    <3> QED BY <1>1, <1>2, <2>1, <3>1, Zenon DEF Failing
  <2> QED BY <1>1, <1>5, <2>2, <2>3, <2>4, Zenon DEF Stages
<1> QED BY <1>1, <1>6, <1>7

\* So does a step that changes nothing.
LEMMA IdleStages ==
    ASSUME Stages, Told, UNCHANGED vars
    PROVE  Stages' /\ Told'
<1>1. /\ UNCHANGED <<drv, port, bus, pointer, acked, got>>
      /\ UNCHANGED <<op, reg, pc, status>>
  BY Zenon DEF vars, masterVars, callVars
<1>2. (Skips' <=> Skips) /\ (Asks' <=> Asks) /\ (BusReads' <=> BusReads)
      /\ TxBuffer' = TxBuffer /\ Left' = Left
  BY <1>1, Zenon DEF Skips, Asks, BusReads, TxBuffer, Left
<1>3. (Clean' <=> Clean) /\ (Failed' <=> Failed) /\ (Failing' <=> Failing)
  BY <1>1, <1>2, Zenon DEF Clean, Failed, Failing, Quiet
<1>4. (Armed(TRUE)' <=> Armed(TRUE)) /\ (Armed(FALSE)' <=> Armed(FALSE))
  BY <1>1, <1>2, Zenon DEF Armed
<1>5. \A state, count : Ends(state, count)' <=> Ends(state, count)
  BY <1>1, Zenon DEF Ends, At
<1>6. Probing' <=> Probing
  BY <1>1, <1>2, <1>5, Zenon DEF Probing, At
<1>7. Sending' <=> Sending
  BY <1>1, <1>2, <1>5, Zenon DEF Sending, At
<1>8. Receiving' <=> Receiving
  BY <1>1, <1>2, <1>5, Zenon DEF Receiving, At
<1>9. Told'
  BY <1>1, <1>3, Zenon DEF Told
<1> QED BY <1>1, <1>3, <1>4, <1>6, <1>7, <1>8, <1>9, Zenon DEF Stages

\* The port and the bus are as they were when a call begins or ends.
LEMMA SameDriver ==
    ASSUME UNCHANGED masterVars
    PROVE  /\ UNCHANGED <<drv, port, bus, pointer, acked, got>>
           /\ (Clean' <=> Clean) /\ (Failed' <=> Failed)
<1>1. UNCHANGED <<drv, port, bus, pointer, acked, got>>
  BY Zenon DEF masterVars
<1>2. Asks' <=> Asks
  BY <1>1, Zenon DEF Asks
<1> QED BY <1>1, <1>2, Zenon DEF Clean, Failed, Quiet

\* Zero is told only for no error.
LEMMA NoZero == NoStatus # 0 /\ toWireResult("ok") = 0
BY DEF NoStatus, toWireResult

\* A new call begins in the stage the last one ended in.
LEMMA NewCallStages ==
    ASSUME Stages, Told, NewCall
    PROVE  Stages' /\ Told'
<1>1. /\ pc = "ready" /\ pc' = "write_async" /\ status' = NoStatus /\ UNCHANGED masterVars
  BY Zenon DEF NewCall, Call
<1>2. pc \in {"ready", "write_async", "read_async"} /\ pc' \in {"ready", "write_async", "read_async"}
  BY <1>1
<1>3. Clean' \/ Failed'
  BY <1>1, <1>2, SameDriver, Zenon DEF Stages
<1>4. status' # 0
  BY <1>1, NoZero
<1>5. drv'.error = "address_nak" => acked' = 0
  BY <1>1, SameDriver, Zenon DEF Told
<1>6. Told'
  BY <1>1, <1>4, <1>5, Zenon DEF Told
<1> QED BY <1>2, <1>3, <1>6, RestStage, Zenon

\* start() arms the driver or leaves a failure.
LEMMA StartStages ==
    ASSUME Parts, Stages, Told, Prompt, WriteAsync \/ ReadAsync
    PROVE  Stages' /\ Told'
<1>c. CellOk(Both)
  BY Zenon DEF Parts
<1>1. CASE WriteAsync
  <2>1. /\ pc = "write_async" /\ UNCHANGED <<op, reg, status>>
        /\ \/ startSucceeds(FALSE) /\ pc' = "arm_write"
           \/ startFails(FALSE) /\ pc' = "finish_write"
    BY <1>1, Zenon DEF WriteAsync
  <2>2. pc \in {"ready", "write_async", "read_async"}
        /\ pc \in {"write_async", "arm_write", "finish_write"}
    BY <2>1
  <2>3. Clean \/ Failed
    BY <2>2, Zenon DEF Stages
  <2>4. status' = NoStatus /\ status' # 0
    BY <2>1, <2>2, NoZero, Zenon DEF Told
  <2>5. CASE startSucceeds(FALSE) /\ pc' = "arm_write"
    <3>1. Armed(FALSE)' /\ drv'.error = "ok"
      BY <1>c, <2>3, <2>5, StartArms
    <3>2. drv'.error # "address_nak"
      BY <3>1
    <3>3. Told'
      BY <2>4, <3>2, Zenon DEF Told
    <3> QED BY <2>5, <3>1, <3>3, ArmWriteStage, Zenon
  <2>6. CASE startFails(FALSE) /\ pc' = "finish_write"
    <3>1. Failed' /\ acked' = 0
      BY <1>c, <2>3, <2>6, StartRefused
    <3>2. Told'
      BY <2>4, <3>1, Zenon DEF Told
    <3> QED BY <2>6, <3>1, <3>2, WriteStage, Zenon
  <2> QED BY <2>1, <2>5, <2>6, Zenon
<1>2. CASE ReadAsync
  <2>1. /\ pc = "read_async" /\ UNCHANGED <<op, reg, status>>
        /\ \/ startSucceeds(TRUE) /\ pc' = "arm_read"
           \/ startFails(TRUE) /\ pc' = "finish_read"
    BY <1>2, Zenon DEF ReadAsync
  <2>2. pc \in {"ready", "write_async", "read_async"}
        /\ pc \in {"read_async", "arm_read", "finish_read"}
    BY <2>1
  <2>3. Clean \/ Failed
    BY <2>2, Zenon DEF Stages
  <2>4. status = 0 => pointer = reg /\ Clean
    BY <2>1, <2>2, Zenon DEF Told
  <2>5. CASE startSucceeds(TRUE) /\ pc' = "arm_read"
    <3>1. Armed(TRUE)' /\ pointer' = pointer /\ drv'.error = "ok"
      BY <1>c, <2>3, <2>5, StartArms
    <3>2. drv'.error # "address_nak" /\ pc' # "read_async" /\ pc' # "finish_read"
          /\ pc' \notin {"write_async", "arm_write", "finish_write"}
      BY <2>5, <3>1
    <3>3. Told'
      BY <2>1, <2>4, <3>1, <3>2, Zenon DEF Told
    <3> QED BY <2>5, <3>1, <3>3, ArmReadStage, Zenon
  <2>6. CASE startFails(TRUE) /\ pc' = "finish_read"
    <3>1. ~Clean /\ Failed' /\ acked' = 0
      BY <1>c, <2>3, <2>6, StartRefused
    <3>2. status' # 0 /\ pc' \notin {"write_async", "arm_write", "finish_write"}
      <4>1. status' # 0
        BY <2>1, <2>4, <3>1, Zenon
      <4> QED BY <2>6, <4>1
    <3>3. Told'
      BY <3>1, <3>2, Zenon DEF Told
    <3> QED BY <2>6, <3>1, <3>3, ReadStage, Zenon
  <2> QED BY <2>1, <2>5, <2>6, Zenon
<1> QED BY <1>1, <1>2

\* The rest of write_async or read_async makes it a probe, a write or a read.
LEMMA ArmStages ==
    ASSUME Parts, Stages, Told, ArmWrite \/ ArmRead
    PROVE  Stages' /\ Told'
<1>c. CellOk(Both)
  BY Zenon DEF Parts
<1>1. CASE ArmWrite
  <2>1. pc = "arm_write" /\ pc' = "finish_write"
    BY <1>1, Zenon DEF ArmWrite
  <2>2. Armed(FALSE)
    BY <2>1, Zenon DEF Stages
  <2>3. /\ op' = op /\ status' = status
        /\ IF op = "probe" THEN Probing' ELSE Sending'
        /\ drv'.error = "ok"
    BY <1>1, <1>c, <2>2, WriteArmed
  <2>4. status' = NoStatus /\ status' # 0
    <3>1. pc \in {"write_async", "arm_write", "finish_write"}
      BY <2>1
    <3> QED BY <2>3, <3>1, NoZero, Zenon DEF Told
  <2>5. drv'.error # "address_nak"
    BY <2>3
  <2>6. Told'
    BY <2>4, <2>5, Zenon DEF Told
  <2> QED BY <2>1, <2>3, <2>6, WriteStage, Zenon
<1>2. CASE ArmRead
  <2>1. pc = "arm_read" /\ pc' = "finish_read"
    BY <1>2, Zenon DEF ArmRead
  <2>2. Armed(TRUE)
    BY <2>1, Zenon DEF Stages
  <2>3. Receiving' /\ drv'.next = 0 /\ drv'.error = "ok" /\ UNCHANGED <<status, pointer, reg>>
    BY <1>2, <1>c, <2>2, ReadArmed
  <2>4. status = 0 => pointer = reg
    <3>1. pc \in {"read_async", "arm_read", "finish_read"}
      BY <2>1
    <3> QED BY <3>1, Zenon DEF Told
  <2>5. drv'.error # "address_nak" /\ pc' # "read_async"
        /\ pc' \notin {"write_async", "arm_write", "finish_write"}
    BY <2>1, <2>3
  <2>6. Told'
    BY <2>3, <2>4, <2>5, Zenon DEF Told
  <2> QED BY <2>1, <2>3, <2>6, ReadStage, Zenon
<1> QED BY <1>1, <1>2

\* What endTransmission returns: 0 when all went well, 2 when the device was not there.
LEMMA Returned ==
    ASSUME Parts, Stages, Told, Prompt, EndTransmission
    PROVE  /\ Clean \/ Failed
           /\ status' = 0 => Clean /\ (op = "read" => pointer = reg)
           /\ ToldTheTruth
<1>1. pc = "finish_write" /\ finish /\ status' = toWireResult(drv.error) /\ UNCHANGED masterVars
  BY Zenon DEF EndTransmission
<1>2. Failed \/ (IF op = "probe" THEN Probing ELSE Sending)
  BY <1>1, FailingOver, Zenon DEF Stages
<1>3. UNCHANGED <<drv, acked, pointer>>
  BY <1>1, SameDriver, Zenon
<1>4. CASE Failed
  <2>1. drv.error # "ok"
    BY <1>4, Zenon DEF Failed
  <2>2. status' # 0 /\ (status' = 2 => drv.error = "address_nak")
    BY <1>1, <2>1 DEF toWireResult
  <2>3. status' = 2 => acked' = 0 /\ acked = 0
    BY <1>3, <2>2, Zenon DEF Told
  <2> QED BY <1>4, <2>2, <2>3, Zenon DEF ToldTheTruth
<1>5. CASE op = "probe" /\ Probing
  <2>1. Clean /\ acked = 1
    BY <1>1, <1>5, ProbingOver, Zenon
  <2>2. status' = 0 /\ status' # 2
    <3>1. drv.error = "ok"
      BY <2>1, Zenon DEF Clean
    <3>2. status' = 0
      BY <1>1, <3>1, NoZero, Zenon
    <3> QED BY <3>2
  <2>3. op # "read" /\ acked = 1 + Len(TxBuffer)
    <3>1. TxBuffer = << >> /\ op # "read"
      BY <1>5 DEF TxBuffer
    <3>2. Len(<< >>) = 0
      OBVIOUS
    <3>3. Len(TxBuffer) = 0
      BY <3>1, <3>2, Zenon
    <3> QED BY <2>1, <3>1, <3>3
  <2> QED BY <2>1, <2>2, <2>3, Zenon DEF ToldTheTruth
<1>6. CASE op # "probe" /\ Sending
  <2>1. Clean /\ acked = 1 + Len(TxBuffer) /\ pointer = reg
    BY <1>1, <1>6, SendingOver, Zenon
  <2> QED BY <1>6, <2>1, Zenon DEF ToldTheTruth
<1> QED BY <1>2, <1>4, <1>5, <1>6, Zenon

\* endTransmission tells zero only after a clean end.
LEMMA ReturnStages ==
    ASSUME Parts, Stages, Told, Prompt, EndTransmission
    PROVE  Stages' /\ Told'
<1>1. /\ Clean \/ Failed
      /\ status' = 0 => Clean /\ (op = "read" => pointer = reg)
  BY Returned
<1>2. /\ reg' = reg /\ UNCHANGED masterVars
      /\ IF op = "read" THEN pc' = "read_async" ELSE pc' = "ready"
  BY Zenon DEF EndTransmission
<1>3. UNCHANGED <<drv, acked, pointer>> /\ (Clean' \/ Failed') /\ (Clean => Clean')
  BY <1>1, <1>2, SameDriver, Zenon
<1>4. /\ pc' \in {"ready", "write_async", "read_async"}
      /\ pc' \notin {"write_async", "arm_write", "finish_write"} /\ pc' # "finish_read"
      /\ pc' \in {"read_async", "arm_read", "finish_read"} => op = "read"
  BY <1>2
<1>5. drv'.error = "address_nak" => acked' = 0
  BY <1>3, Zenon DEF Told
<1>6. Told'
  BY <1>1, <1>2, <1>3, <1>4, <1>5, Zenon DEF Told
<1> QED BY <1>3, <1>4, <1>6, RestStage, Zenon

\* requestFrom returns when the read is over.
LEMMA RequestStages ==
    ASSUME Stages, Told, Prompt, RequestFrom
    PROVE  Stages' /\ Told'
<1>1. pc = "finish_read" /\ finish /\ pc' = "ready" /\ UNCHANGED masterVars
  BY Zenon DEF RequestFrom
<1>2. Failed \/ Receiving
  BY <1>1, FailingOver, Zenon DEF Stages
<1>3. Clean \/ Failed
  BY <1>1, <1>2, ReceivingOver, Zenon
<1>4. UNCHANGED <<drv, acked>> /\ (Clean' \/ Failed')
  BY <1>1, <1>3, SameDriver, Zenon
<1>5. /\ pc' \in {"ready", "write_async", "read_async"}
      /\ pc' \notin {"write_async", "arm_write", "finish_write"} /\ pc' # "finish_read"
      /\ pc' \notin {"read_async", "arm_read", "finish_read"} /\ pc' # "read_async"
  BY <1>1
<1>6. drv'.error = "address_nak" => acked' = 0
  BY <1>4, Zenon DEF Told
<1>7. Told'
  BY <1>5, <1>6, Zenon DEF Told
<1> QED BY <1>4, <1>5, <1>7, RestStage, Zenon

\* Every step of the program keeps it.
LEMMA HonestStep ==
    ASSUME Parts, Honest, [Next]_vars
    PROVE  Honest'
<1> SUFFICES ASSUME ~switched'
             PROVE  Stages' /\ Told'
  BY Zenon DEF Honest
<1>1. CASE (PortStep \/ FaultStep) /\ Meanwhile
  <2>1. Stages /\ Told
    BY <1>1, StayStill, Zenon DEF Honest
  <2> QED BY <1>1, <2>1, PortStages, Zenon
<1>2. CASE interrupt_service_routine /\ Meanwhile
  <2>1. Stages /\ Told
    BY <1>2, StayStill, Zenon DEF Honest
  <2> QED BY <1>2, <2>1, InterruptStages, Zenon
<1>3. CASE (BusReleased \/ BusHeals) /\ UNCHANGED callVars
  <2>1. Stages /\ Told
    BY <1>3, Zenon DEF Honest, callVars
  <2> QED BY <1>3, <2>1, PausedStages, Zenon
<1>4. CASE UNCHANGED vars
  <2>1. Stages /\ Told
    BY <1>4, Zenon DEF Honest, callVars, vars
  <2> QED BY <1>4, <2>1, IdleStages, Zenon
<1>5. CASE NewCall
  <2>1. Stages /\ Told
    <3>1. switched' = switched
      BY <1>5 DEF NewCall, Call
    <3> QED BY <3>1, Zenon DEF Honest
  <2> QED BY <1>5, <2>1, NewCallStages, Zenon
<1>6. CASE Prompt /\ (WriteAsync \/ ReadAsync)
  <2>1. Stages /\ Told
    <3>1. switched' = switched
      BY <1>6 DEF WriteAsync, ReadAsync
    <3> QED BY <3>1, Zenon DEF Honest
  <2> QED BY <1>6, <2>1, StartStages, Zenon
<1>7. CASE ArmWrite \/ ArmRead
  <2>1. Stages /\ Told
    BY <1>7, Zenon DEF Honest, ArmWrite, ArmRead
  <2> QED BY <1>7, <2>1, ArmStages, Zenon
<1>8. CASE Prompt /\ EndTransmission
  <2>1. Stages /\ Told
    BY <1>8, Zenon DEF Honest, EndTransmission
  <2> QED BY <1>8, <2>1, ReturnStages, Zenon
<1>9. CASE Prompt /\ RequestFrom
  <2>1. Stages /\ Told
    BY <1>9, Zenon DEF Honest, RequestFrom
  <2> QED BY <1>9, <2>1, RequestStages, Zenon
<1> QED BY <1>1, <1>2, <1>3, <1>4, <1>5, <1>6, <1>7, <1>8, <1>9, Zenon
        DEF Next, Thread, Interrupt, Port, Fault, Release, Heal

\* It holds after begin().
LEMMA HonestInit ==
    ASSUME Init
    PROVE  Honest
<1>1. /\ drv = [state |-> "idle", error |-> "ok", ignore_tdf |-> FALSE,
                data |-> << >>, size |-> 0, next |-> 0, read_buffer |-> 0]
      /\ port = [fifo |-> << >>, msr |-> {}, rx |-> << >>, tdie |-> FALSE]
      /\ bus = [phase |-> "free", reading |-> FALSE, bytes |-> 0]
      /\ pc = "ready" /\ status = NoStatus
  BY Zenon DEF Init, MasterInit
<1>2. /\ drv.error = "ok" /\ drv.state \in {"idle", "stopped"} /\ drv.error # "address_nak"
      /\ port.rx = << >> /\ port.msr = {} /\ port.fifo = << >> /\ bus.phase = "free"
  BY <1>1
<1>3. ~Asks
  BY <1>1 DEF Asks
<1>4. Clean
  BY <1>2, <1>3, Zenon DEF Clean, Quiet
<1>5. /\ pc # "arm_write" /\ pc # "arm_read" /\ pc # "finish_write" /\ pc # "finish_read"
      /\ pc # "read_async" /\ status # 0
  BY <1>1 DEF NoStatus
<1>6. Stages
  BY <1>4, <1>5, Zenon DEF Stages
<1>7. Told
  BY <1>1, <1>2, <1>5, Zenon DEF Told
<1> QED BY <1>6, <1>7, Zenon DEF Honest

\* Driver, port and bus are in one of the stages and what was told is true, unless the
\* thread was once switched away between start() and the rest of a call.
THEOREM AlwaysHonest == Spec => [](Parts /\ Honest)
<1>1. Init => Parts /\ Honest
  BY InitOk, HonestInit, Zenon
<1>2. Parts /\ Honest /\ [Next]_vars => (Parts /\ Honest)'
  BY StepOk, HonestStep, Zenon
<1> QED BY <1>1, <1>2, PTL DEF Spec

\* The result of endTransmission is true: 0 when the device acknowledged its address
\* and every byte, 2 from a probe when it did not acknowledge its address.
THEOREM ResultsAreHonest == Spec => ResultHonest
<1>1. ASSUME Parts, Honest, [Next]_vars
      PROVE  [EndTransmission /\ ~switched => ToldTheTruth]_vars
  <2>1. CASE EndTransmission /\ ~switched
    <3>1. Stages /\ Told
      BY <1>1, <2>1, Zenon DEF Honest
    <3>2. CASE UNCHANGED vars
      BY <3>2
    <3>3. CASE Next
      <4>1. Prompt
        <5>1. pc = "finish_write" /\ pc' # "finish_write"
          <6>1. pc = "finish_write" /\ (pc' = "read_async" \/ pc' = "ready")
            BY <2>1, Zenon DEF EndTransmission
          <6> QED BY <6>1
        <5>2. ~(UNCHANGED callVars) /\ ~Meanwhile
          BY <5>1, Zenon DEF callVars, Meanwhile
        <5>3. pc # "ready"
          BY <5>1
        <5> QED BY <3>3, <5>2, <5>3, Zenon
                DEF Next, NewCall, Call, Thread, Interrupt, Port, Fault, Release, Heal
      <4> QED BY <1>1, <2>1, <3>1, <4>1, Returned, Zenon
    <3> QED BY <1>1, <3>2, <3>3, Zenon
  <2> QED BY <2>1, Zenon
<1>2. Parts /\ Honest /\ [Next]_vars => [EndTransmission /\ ~switched => ToldTheTruth]_vars
  BY <1>1, Zenon
<1> QED BY <1>2, AlwaysHonest, PTL DEF Spec, ResultHonest

\* The value that read returns is the byte of the register that was asked for, when the
\* register write went through.
THEOREM ReadsAreHonest == Spec => ReadHonest
<1>1. ASSUME Parts, Honest, RequestFrom, ~switched, status = 0, result'.status = 0
      PROVE  got = 1 /\ result'.value = reg
  <2>1. /\ pc = "finish_read"
        /\ result' = IF get_bytes_transferred >= 1
                     THEN [status |-> 0, value |-> drv.read_buffer]
                     ELSE [status |-> ReadFailed, value |-> 0]
    BY <1>1, Zenon DEF RequestFrom
  <2>2. drv.next >= 1 /\ result'.value = drv.read_buffer
    <3>1. CASE get_bytes_transferred >= 1
      BY <2>1, <3>1 DEF get_bytes_transferred
    <3>2. CASE ~(get_bytes_transferred >= 1)
      <4>1. result' = [status |-> ReadFailed, value |-> 0]
        BY <2>1, <3>2, Zenon
      <4>2. result'.status = ReadFailed
        BY <4>1
      <4> QED BY <1>1, <4>2 DEF ReadFailed
    <3> QED BY <3>1, <3>2
  <2>3. drv.next # 0
    BY <2>2
  <2> QED BY <1>1, <2>1, <2>2, <2>3, Zenon DEF Honest, Told
<1>2. Parts /\ Honest /\ [Next]_vars =>
        [ (RequestFrom /\ ~switched /\ status = 0 /\ result'.status = 0)
            => (got = 1 /\ result'.value = reg) ]_vars
  BY <1>1, Zenon
<1> QED BY <1>2, AlwaysHonest, PTL DEF Spec, ReadHonest
====
