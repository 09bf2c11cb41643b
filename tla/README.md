# Verification of at32f435-start

TLA+ models, TLC model-checking runs and TLAPS proofs for the debug probe firmware
in `src/` (an AT32F435 board that is a CMSIS-DAP probe, a Black Magic gdb server and
a USB serial port at the same time). Every definition is translated from the C code;
`PROJECT.json` names for each one the lines it stands for.

    cd tla
    tlc -workers 2 -config MCCdc0.cfg MCCdcPort.tla     # a run
    tlapm CdcPortProofs.tla                             # a proof

## 1. The system

The firmware is an RT-Thread application with one USB device (CherryUSB) of three
functions. Two contexts execute the code that is modelled:

* the **USB interrupt** (`OTGFS1_IRQHandler`, usb_device.c:28): every CherryUSB callback
  runs in it, to completion - endpoint completions, DTR, line coding, bus reset,
  configuration, and the whole of CMSIS-DAP;
* **threads**: the gdb server of Black Magic (reads and writes port cdc0, and port cdc1 for
  the rtt console), `aux cdc` (host to target UART) and `aux uart` (target UART to host).
  The interrupt can come between any two of their accesses to shared memory; on this single
  core no thread runs while the interrupt does.

A third context, the UART receive interrupt, only announces bytes to the `aux uart` thread.

### Components

| Component | State | Operations | Talks to |
| --- | --- | --- | --- |
| CDC receive, usb_cdc.c:229-360 | per port: ring buffer, `cdcN_read_busy`, OUT endpoint; `cdc_event`; `cdc0_wqueue` | `cdcN_acm_bulk_out`, `cdcN_get`, `cdcN_getchar`, `cdc0_getchar_timeout`, `cdc1_wait_for_char`, `cdcN_next_read`, set_dtr, configured, reset | host; gdb server; `aux cdc` |
| CDC transmit, usb_cdc.c:163-225 | `ep_write_sem`, `cdc_tx_busy_sem` (both shared by the two ports), DTR flags, configured flag, IN endpoints | `cdcN_write`, `cdcN_acm_bulk_in`, set_dtr, configured, reset | host; gdb server; `aux uart` |
| Terminal input, aux_cdc.c | where the thread is; `rtt_enabled` of Black Magic | `aux_cdc_thread` | CDC receive (cdc1), UART |
| Terminal output, aux_uart.c | message queue, serial device (open count, callback, speed, FIFO), `cdc_line[1]` | `uart_input`, `aux_uart_thread`, `cdc1_set_speed`, `aux_uart_init` | UART, CDC transmit (cdc1), line coding requests |
| DAP pipe, usb_dap.c, dap.c:1427 | one request and one response buffer, DAP endpoints, `dap_port` | `dap_out_callback`, `dap_in_callback`, `dap_configured`, `dap_process_request` | host debugger |
| DAP transfers, dap.c:631-1090 | parser position, response, `dap_retry_count`, `dap_match_retry_count` | `dap_transfer`, `dap_transfer_block`, `dap_transfer_configure` | serial wire or JTAG scans |
| Serial wire, dap.c:283-415 | direction and level of SWDIO, `dap_swd_turnaround`, `dap_swd_data_phase`, `dap_idle_cycles` | `dap_swd_operation`, `dap_swd_read`, `dap_swd_write`, `dap_swj_run` | debug port of the target |
| Clock and delays, dap.c:272, :602 | `dap_clock_delay` and the choice of the fast or slow functions | `dap_setup_clock`, `dap_delay_us` | serial wire, JTAG scans |
| Port requests, dap.c:853-887, :1101-1271, :1393 | the three above | `dap_init`, `dap_connect`, `dap_disconnect`, `dap_swj_pins`, `dap_swj_clock`, `dap_swj_sequence`, `dap_swd_configure`, `dap_swd_sequence`, `dap_delay`, `dap_write_abort` | host debugger |
| JTAG scans, dap.c:417-598, :1274-1390 | IR length, bits before and bits after of each device, device count and index, the instruction written last | `dap_jtag_configure`, `dap_jtag_operation`, `dap_jtag_write_ir`, `dap_jtag_idcode`, `dap_jtag_sequence` | TAP controllers of the target |
| Target pins, hal_config.h, dap_config.h, platform.c | direction and level of the pins and of the level shifters | setup, connect, disconnect, pin macros of free-dap and of Black Magic | the target |
| USB descriptors and start-up | constant tables | event dispatch | everything above |
| Board support | clocks, pins | run once | - |

### What is hard about it

* Flow control of the OUT endpoints is a protocol between interrupt and threads over a plain
  flag (`cdcN_read_busy`): tests and stores of the flag are separate steps, and cdc1 has two
  readers.
* Both ports share the two transmit semaphores, so a stuck or unread port affects the other,
  and a completion that is left over would release the wrong writer.
* A bus reset, a reconfiguration or a DTR change can come at any point of a read or a write.
* `cdc0_getchar_timeout` waits on a wait queue whose flag may be stale.
* `aux uart` works with sizes that are out of date, on a device that the USB interrupt may
  close and reopen under it.
* CMSIS-DAP reads are posted: the word of a read comes with the next operation, which may be of
  another kind, may fail, or may be a value match.
* All retry loops of CMSIS-DAP run inside the USB interrupt.
* A JTAG scan reaches one device through all the others: every count of clocks depends on the
  device's place in the chain, and the last bit of a scan is clocked with TMS already high.
* Black Magic, in a thread, and free-dap, in the USB interrupt, turn the same lines round with no
  lock, each in two operations: the pin and the level shifter.
* SWDIO is driven by the probe and the target in turn, and nothing on the wire says whose turn it
  is: both count clocks, and how many depends on the answer, the direction and two settings that
  each side has for itself.
* Frequencies and times of requests are multiplied and divided in `int`, where they can overflow,
  be negative, or be zero.

The list with lines is under "hazards" in `PROJECT.json`, each with the properties that
would catch it going wrong.

## 2. The modules

| Module | Models | Kind |
| --- | --- | --- |
| `CdcPort` | receive half of one CDC port (constant `Port` selects cdc0 or cdc1) | component |
| `AuxCdc` | `aux_cdc_thread` and the rtt console on top of `CdcPort` (cdc1) | composition |
| `CdcWrite` | transmit half of both CDC ports | component |
| `TxQueue` | what `cdcN_write` promises: one at a time, in order, gone only when sent | abstract specification |
| `AuxUart` | UART to host, initialisation, line coding | component |
| `DapTransport` | DAP callbacks and dispatcher, with the host's view | component |
| `DapTransfer` | the transfer handlers of dap.c | component |
| `JtagScan` | chain description and scans, down to the single clock | component |
| `TargetPins` | directions of pins and level shifters under free-dap and Black Magic | component, and the abstract specification of `ProbePort` |
| `SwdWire` | `dap_swd_operation` and its primitives, clock by clock, and the debug port at the other end | algorithm (operators on a record) |
| `DapClock` | `dap_setup_clock`, `dap_delay_us` in the width of an `int` | algorithm |
| `ProbePort` | all requests that work on the port itself, on top of the three above | composition |
| `Iteration` | a loop over data, with the lemmas by which proofs reason about one | operator, and proofs |
| `MCCdcPort`, `MCCdcWrite`, `MCAuxCdc`, `MCJtagScan`, `MCProbePort` | instances for TLC (the other modules are checked directly) | model checking |
| `CdcPortProofs` (also of `AuxCdc`), `CdcWriteProofs`, `AuxUartProofs`, `DapTransportProofs`, `DapTransferProofs`, `JtagScanProofs`, `ProbePortProofs` (also of `TargetPins`) | theorems | proofs |

### How state and actions correspond to the code

**`CdcPort`.** A handler of the interrupt is one action (`BulkOut`, `SetDtr`, `Configured`,
`Reset`). A reading function of a thread is cut at every access to something the interrupt
also uses: the ring (`Get`, `GetChar`, `GetCharTimeout`, `LastTake`), the flag (`CheckBusy`),
the space in the ring (`CheckSpace`), starting the endpoint (`Arm`), the store to the flag
(`Mark`), and in `cdc0_getchar_timeout` the loop condition (`Poll`) and the critical sections
of `rt_wqueue_wait` (`Wait`, `Tick`, `Woken`). The ring is its length: no property is about
the bytes. `len`, `busy`, `rx_event`, `wq` are the ring, `cdcN_read_busy`, the event bit and
the flag of the wait queue. `forced` is a history variable: the read that is pending, or that a
reader is about to start, was started with no regard to the ring (set_dtr, cdc_configured) or by
two readers at once. The packet that completes this read ends it.

**`CdcWrite`.** `Call` is the test at the top of `cdcN_write`, `TakeEp`, `StartWrite`, `TakeTx`,
`ReleaseEp` its four statements; a released semaphore goes to the first suspended thread, as
`RT_IPC_FLAG_FIFO` says. `BulkIn` is the completion with the zero-length packet. An endpoint
is closed by a reset and opened by a configuration, and refuses a transfer while it is closed;
the code ignores the error. `source`, `ended`, `cut` are history.

**`AuxCdc`** extends `CdcPort` with the thread's control state and with `cdc1_wait_for_char`
(`AuxWait`, `AuxEvent`); its steps inside `cdc1_get` are the steps of `CdcPort`.

**`AuxUart`.** `InitQueue` ... `InitThread` are the calls of `aux_uart_init`, which run while
USB is already up; `Recv`, `Read`, `Write` the thread; `Receive` the UART interrupt;
`SetLineCoding` the USB interrupt, with the early returns of `cdc1_set_speed` as outcomes.

**`DapTransport`.** A request is a number and a command, of which only the effect on
`dap_port` matters. The host queues requests, waits for answers, and learns the port mode from
them; it drops what is under way when it resets or configures the device.

**`DapTransfer`.** A step goes from one access to the target to the next. Data words are
tokens: the read with number t of a request returns token t, so "the right word at the right
place" is equality of tokens. The answers of the target are every value that
`dap_transfer_word` can return; `Retry` is a round of its loop that is answered with WAIT and not the
last, so each round is a step and `tries` is its counter. `astray` records that the parser has lost the boundaries of
the request (a request that is too short, or the unparsed match value of a posted match): from
then on it sees arbitrary transfers.

**`JtagScan`.** `wire` is everything outside the variables of dap.c: the level of TMS and TDI, the
state of the TAP controllers (all in the same state, since they share TMS and TCK), the registers
between TDI and TDO as one sequence of bits, the instruction of each device, and what its debug
port has taken. `Clock` is one period of TCK; `Run`, `Write` are the loops of the code over it;
`WriteIr`, `ShiftDr`, `Data` and `Finish` compose them in the order of the source. A bit is a token
that names where it comes from, so "the right bits in the right register" is equality. An operation
is one action, because nothing comes between its clocks; `dap_jtag_configure` is one action per
round of its two loops, because its proof is about the loops. The port is JTAG throughout, and
the host asks for scans in Run-Test/Idle, where it can take the controllers with a sequence. It
may describe any chain, also a wrong one: only the properties with `Described` need the right one.

**`TargetPins`.** The macros of platform.h and the functions of hal_config.h are sequences of pin
operations in the order of the source. The thread does one operation per step, a handler of the
interrupt all of its own at once. An SWD operation is here only what it does to SWDIO: turn it
round, and back unless the answer was none. `torn`, `foreign`, `clock_off` and `silent` are
history: which of the known reasons for a conflict have occurred.

**`SwdWire`.** A record `w` is the wire and both its ends during one request: the pins and level
shifters, the level the probe writes, the bits it has sampled (`in`), and the target. `Clock` is
one period of SWCLK, `Run`, `Read` and `Write` are `dap_swj_run`, `dap_swd_read` and
`dap_swd_write`; `Acknowledge`, `ReadPhase`, `WritePhase` and `Declined` are the pieces of
`dap_swd_operation` in the order of the source. The target is a debug port as ADIv5 has it: on a
header with the right parity it makes a plan of what it does at each of the clocks that follow -
drive, leave or take the line - from *its own* turnaround and data phase settings, and knows
nothing of the probe but the clocks. `fought` records a clock at which both drove the line.

**`DapClock`.** The expressions of the source with `Wrapped` for the conversion to `int` and
`Unsigned` for the one to `uint32_t`. An `int` product that overflows is undefined; the outcomes are
that it wraps, or that the compiler keeps more bits of it (`wide`). The argument of `dap_delay_us`
crosses a call and wraps.

**`ProbePort`** has the variables of `TargetPins`, the target and the two SWD settings. A request
is one action, because it runs in the interrupt to completion; `Access` is one call of
`dap_swd_operation` with whatever the target answers (`DapTransfer` has the calls in a row).
`Retune` is the moment at which the settings that the host has written into the target take
effect, `PowerCycle` and `ThreadStep` put the target out of step. A target that is out of step
answers at most by chance, and then with an acknowledge and no more. What a request has brought
about is in `last` until `Forget`, so that a property can look at it and the states do not
multiply; nothing else happens in between, so this hides no behaviour.

## 3. The runs

| Run | Checks | Bounds |
| --- | --- | --- |
| `cdc0_read` | `TypeOK`, `NoSleepOnData`, `StallOnlyByLateStore`, `CharDelivered` | packets of 2, ring of 4, reads of up to 3, two rounds of the wait loop |
| `next_read` (violation) | `NextReadScheduled` | the same, one round |
| `terminal_input` | `RoomWhenArmed` with two readers, `NoForgottenInput`, `FlowResumes` | the same, reads of up to 3 |
| `cdc_write` | `TypeOK`, `BufferPinned`, `ReturnsAfterSent`, `WriteReturns`, `ServedInOrder` (refinement of `TxQueue`) | three writers, two ports, packets of 2, messages of 0 to 2 bytes |
| `cdc_write_finishes` (violation) | `WriteFinishes` | two writers |
| `terminal_output` | `TypeOK`, `NothingStranded`, `SettingTakesEffect` | FIFO of 3, queue of 2 messages, two line codings |
| `dap_pipe` | `TypeOK`, `AnswersInOrder`, `PipeAlive`, `HostKnowsPort`, `RequestAnswered` | two requests under way, as announced (`DAP_CONFIG_PACKET_COUNT`) |
| `dap_abort` (violation) | `AbortNotQueued` | the same |
| `dap_transfer` | `TypeOK`, `ReadsInOrder`, `OKMeansDone`, `CountTellsWrites`, `MatchIsGenuine`, `HandlerReturns` | up to three transfers of six kinds, retry and match counts 0, 1 and 2, 8 bytes of request, 2 words of response |
| `dap_match` (violation) | `MatchIsCompared` | up to two transfers |
| `jtag_scan` | `TypeOK`, `Positions`, `ScanReachesDevice`, `OthersBypassed`, `CacheHonest`, `EndsIdle` | up to three devices, instruction registers of 2 and 3 bits, words of 2 bits, 0 or 1 idle cycle |
| `probe_port` | `PortTypeOK`, `NoContentionAtRest`, `ConnectedLines`, `LineNotFought`, `OperationHonest`, `StaysInStep`, `TimesAsAsked`, `PinsImplemented` (refinement of `TargetPins`) | words of 2 bits, line reset of 9 clocks, two settings, a read and a write; `int` of 16 bits |

Why the bounds are enough. The ring is twice the packet size in the code as in the model, and
packets of 2 bytes already distinguish empty, partly and completely filled packets; reads of 3
bytes take less and more than a packet. The device runs at full speed (`RT_CHERRYUSB_DEVICE_SPEED_FS`,
rtconfig.h:108), so a packet is 64 bytes (usb_desc.h:11). The terminal reads up to 65 bytes into
`rx_buffer` (aux_cdc.c:15, `RT_SERIAL_RX_MINBUFSZ` of 64), one more than a packet: with packets of 2, reads of up to 3, which may take a byte,
a packet, or more than one. Three writers are the least number for which the order
of two suspended threads matters. Messages of 0, 1 and 2 bytes with packets of 2 are the three
cases of the zero-length packet. A request of three transfers has a first, a middle and a last
one, so a posted read can be started, continued and collected, and interrupted by each other
kind; 8 bytes of request hold one write with its data or a match value but not two, 2 words of
response hold fewer than three reads, so both buffers run out. The three JTAG chains place a debug
port with neighbours on no, one and both sides, which are the cases of dap.c:489 and :548; two
lengths tell a bit count from a device count; a word of 2 bits has a last bit and another one.
The two settings of the serial wire differ in both parts, so probe and target that disagree
disagree in the number of clocks for every answer; the two words differ in their parity; the line reset is longer than a
header, as 50 clocks are, so that no header is one. The numbers of `DapClock` are scaled: an `int` of
16 bits, with `Kilo`, `DelayConstant`, `HalfMax` and `Round` so that, as in the code, the
product of a half-word's delay fits and that of `Round` does not; waits are taken at the last value
that fits, the first that does not, one whose multiplication by `Kilo` overflows, and a negative one.

Deadlock is checked in every run.

### What the violations show

* `next_read`: `cdcN_next_read` in a thread starts the read, then sets the busy flag. If the
  packet arrives in between and fills the ring, the flag stays set with nothing pending; the
  port is dead until the host toggles DTR or resets the bus. `StallOnlyByLateStore` (proved)
  says that this is the only way.
* `cdc_write_finishes`: a write that meets a bus reset or a closed endpoint is never
  completed, and since it holds `ep_write_sem` all writers of both ports stop for good.
  `WriteReturns` says that only one other thing holds a writer up: a message on its way to a port,
  its own or the other one, that the host has closed.
* `dap_abort`: DAP_TransferAbort is processed in its turn, when the transfer it should stop is
  over; the comment in its handler says that it is never reached.
* `dap_match`: a value match on an access port after a posted read is passed unread, and its
  match value is parsed as the transfers that follow.

### What else the runs have shown

* **A deaf line.** When an answer is none of OK, WAIT and FAULT - no target, or one that is out of
  step - `dap_swd_operation` leaves SWDIO an input (dap.c:407-410), and no later operation and no
  DAP_SWJ_Sequence turns it back: the header, and even the line reset with which a host
  recovers, are clocked on a line that the probe does not drive. DAP_SWD_Sequence,
  DAP_Connect and DAP_Disconnect do. `StaysInStep` says that in all other cases the line reset brings the
  target back, and `ConnectedLines` that there is no other way to lose the line.
* **Input during RTT.** `aux_cdc_thread` takes the receive event before it looks at `rtt_enabled`
  (aux_cdc.c:23-25), so an event that comes while RTT is on is swallowed; input that the rtt console
  does not read then stays in the ring until more comes. `FlowResumes` and `NoForgottenInput`
  cover the other cases (they except `skipped`, which records it).
* **Delays.** The delay constant of 14300 makes the product of dap.c:277 overflow above 75086
  microseconds; the cap of 100000 in dap.c:276 comes too late. `dap_delay` (a half-word) is not
  affected, `dap_swj_pins` is.

### What the properties except, and for how long

Several hazards are things the code does, on a path of which the code itself takes no care. A property
that simply failed there would say nothing of the rest; so a history variable marks the path, the property
excepts it, and what the property then says is that the path is the *only* one, and that the
exception ends where it is said to end. The damage on the path itself is recorded, not caught:

| Variable | Path | Ends with | Excepted in |
| --- | --- | --- | --- |
| `forced` | a read started without the test of the ring, or after one that two readers made at once | the packet that completes it, unless a reader is still on its way to start one | `RoomWhenArmed` |
| `skipped` | a receive event taken while RTT was on | the next event that is taken while it is off | `NoForgottenInput`, `FlowResumes` |
| `cut` | a write that has met a closed endpoint or a bus reset; `WriteFinishes` shows what it does | never | `WriteReturns` |
| `unannounced` | bytes whose message did not fit into the queue | the next message that fits, or a reopened device | `NothingStranded` |
| `refused` | a line coding that could not be carried out | the next coding that differs from it | `SettingTakesEffect` |
| `stale` | a response still announced from before a new configuration | a reset by the host | `AnswersInOrder`, `HostKnowsPort` |
| `astray` | a request that ended too early, or a posted match; `MatchIsCompared` shows the second | the next request | all of `DapTransfer` but `TypeOK`, `HandlerReturns` and `MatchIsCompared` |
| `buf_error` | a response that was too long for its buffer | the next request | `OKMeansDone` |
| `unposted`, a match count of 0 | a match decided on a word that was not read for it | the next transfer | `MatchIsGenuine` |
| `silent` | an operation that was not answered | the next one that is, DAP_SWD_Sequence, DAP_Connect or DAP_Disconnect | `ConnectedLines`, `StaysInStep` |
| `foreign` | Black Magic has turned a line since the last connect | DAP_Connect or DAP_Disconnect | `ConnectedLines`, `StaysInStep` |
| `torn` | a request between Black Magic's two operations on SWDIO | its next turn of SWDIO, or a request between two turns | `NoContentionAtRest` |
| `clock_off` | Black Magic has turned off the clock output | turning it on again, or a set-up of the port | `NoContentionAtRest` |

`TimesAsAsked` says nothing of frequencies that are not positive nor of products that are no `int`, and
`LineNotFought` nothing of a target whose settings are not the probe's.

## 4. Fairness

* Threads: weak fairness of each thread's steps. RT-Thread runs a ready thread; the semaphores
  are first come first served. Nothing is assumed of callers, nor of the timer of the wait queue.
* Host: `CdcWrite` assumes that the host reads a port *while it holds it open* (`WF(dtr[p] /\
  BulkIn(p))`) - a port that is held open and never read would stop both, and nothing in the code
  would end that - and `DapTransport` that it sends what it has queued and reads the answers it waits
  for. Nothing is assumed about what it sends, opens, closes or resets.
* `DapTransfer`: the handler runs in the interrupt and never waits, so its steps go on.
* `JtagScan`, `TargetPins` and `ProbePort` state no liveness: their actions are code that does not wait.
* `AuxUart` states no liveness: its safety property says that nothing is left when the thread
  has nothing to do.

## 5. Proofs

All theorems hold for every value of the constants that satisfies the named assumption of the
module (positive packet size, one reader for cdc0, non-empty sets of ports and writers, ...).

* **`CdcPortProofs`.** `FlowControl` (`RoomWhenArmed`) is not inductive by
  itself: the thread that has found the port free has already left the test behind when it arms.
  The invariant adds that a reader in `space` or `arm` is alone there and sees an idle, unmarked
  port, that in `arm` the room is there, and that `busy` follows `ep`, all unless `forced`; and since `forced`
  ends with a packet, all this must hold again when the interrupt has looked at the ring.
  `NoLostWakeup` adds that a reader about to sleep with data in the ring has the wake-up flag set.
  `StallCause` goes through the actions once more for the primed condition.
* **`CdcWriteProofs`.** The invariant is the protocol of the two semaphores: the value of
  `ep_write_sem`, the holder and the queue are mutually exclusive, the queue has no duplicates and
  holds exactly the blocked threads, and a sending endpoint, a completion and a waiting writer
  belong together. `ImplementsTxQueue` maps the holder followed by the suspended threads to the
  queue, step by step.
  `TerminalFlowControl` carries the invariant over to `AuxCdc`: every step of
  the composition is a step of `CdcPort`, leaves its variables alone, or only takes the receive event.
  `NoInputForgotten` adds where the thread may be while the event is pending.
* **`AuxUartProofs`.** `Drained` (`NothingStranded`) rests on `LastSizeCovers`: the last message in the
  queue announces at least what is in the FIFO, and the thread that has taken the last message is
  about to read as much, unless a message was dropped. The sizes before the last one may be anything, which is
  why out-of-date sizes do no harm. `CodingInForce` needs only the types.
* **`DapTransferProofs`.** The five properties are about a whole request, the state only about a
  position in it. The invariant says which transfer of the request the parser is at and of what kind
  (`At`, `InBlock`), that the words of the response are the tokens of the plain reads among the first
  `resp_count` transfers, except the one that is posted (`ReadsSoFar`), that the target has got the
  writes among them (`WritesSoFar`), and that a word in hand is the word of its own transfer
  (`OwnWord`), all unless `astray`. The rounds of
  `dap_transfer_word` leave all of it alone (`RetryKeeps`), and their counter stays below that of the host
  (`Rounds`). How the lists of a request grow with it is induction over it, see below.
* **`JtagScanProofs`.** `ConfigurePositions` is about two loops that share one sum. The invariant
  needs no closed form of the sum; it relates each entry to its neighbour: in the first loop the entries filled so far are
  linked to each other and the last one to `bits`, in the second `bits` is what is left for the
  devices not visited yet. `TypeCorrect` needs the same invariant, since `bits` must not become
  negative when lengths are subtracted again.

  *Scans.* The chain is one sequence of bits, and a scan is some hundred clocks of it. `Fed` says what is
  in it at any of them: what was captured, as far as it has not come out yet, followed by what the probe
  has sent so far. `RunFed` and `WriteFed` show that each way of clocking keeps it, for any captured
  bits and any stream. What a scan does is then arithmetic: `StartsRise` and `CapturedIs` say where each
  device's register begins and what is in it, `IrStarts` and `DrStarts` that these places are what
  `Positions` and BYPASS make them, and `DecodedStream`, `ReadIs` and `TakenIs` that the bits of the device
  are those the probe has meant for it and those it reads. `WriteIrDoes`, `OperationDoes` and `IdCodeDoes`
  put the phases together, one per function of the code. The invariant `Scanned` joins the four
  properties (`EndsInIdle`, `CacheIsHonest`, `OneDeviceOnly`, `ScansReach`) and adds what an operation relies
  on when it spares the scan of the instruction: a remembered instruction also means that TDI is high and that
  *all* others are in BYPASS. Only the contents depend on a chain that is as described; the way
  through the TAP states and back to Run-Test/Idle does not, which is why `EndsInIdle` has no such condition.
* **`DapTransportProofs`.** The invariant says that never both endpoints are in use, that the
  requests the host waits for are the one in the response buffer followed by those in the queue,
  and that the port mode is what the host will believe after reading what is under way.
* **`ProbePortProofs`** has three parts.

  *Time.* `TimesCorrect` (`TimesAsAsked`) says that half a period is the largest number of counts that
  does not make the clock slower than asked. The clock may be faster, since a count is a whole one: with the
  delay constant of 14300 a request for 700 kHz gives 20 counts, which are 715 kHz. It needs no invariant, since it is about what
  the last request has brought about; the work is in the arithmetic. `Division` bounds a quotient,
  `Fits` says that the conversions leave an `int` alone, and `DelayAsAsked` uses that the product for a
  whole round is no `int` (`ClockAssumption`; 2 * 14300 * 100000 in the code), so that a wait whose product
  is one takes a single round.

  *Pins.* `RestsFree` and `HasItsLines` are about two actors that turn the same lines round in two
  steps each. What they promise is not inductive: in the middle of a turn of the thread it is what is
  left to do that makes the lines right. `PinsIInv` therefore says of the operations in `todo` which of
  them are still wanted: a conflict on the clock or on SWDIO is one that the rest of the turn will end, or
  one of the kinds that the properties name (`ClockFree`, `DataFree`), and the flags tell who was there
  last (`ConnectedLines`). `Implemented` is the refinement: `dap_swd_operation` and `dap_swd_sequence`,
  played clock by clock by `ProbePort`, turn SWDIO as the one step of `TargetPins` says, because nothing in
  a clock touches a pin's direction and each way through the operation ends with one of two turns. With
  it both results hold of the port (`PortRestsFree`, `PortHasItsLines`).

  *The wire.* `WireIInv` is short, because a request is one action: between requests the target is
  idle or lost, with no plan, no bits of a header and no count of ones, and it is in step only while the
  probe drives both lines. The proof is what happens inside. `HeaderSent` follows the header bit by bit through the
  target; the target's answer is then a plan, one slot per clock, and the lemmas from `RunMoved` to
  `WritePhaseDone` show for each way through the operation that the probe's clocks and the slots of the plan meet:
  after k clocks k slots are over, the probe drives the line only in slots in which
  the target does not, and samples it only where it does. At the end the plan is used up (`StaysInStep`),
  no clock was fought over if both have the same settings (`LineNotFought`), and the bits on either side are those of the other
  (`OperationHonest`). A target that is lost answers at most with an acknowledge, so its plan ends before a
  data phase (`LostOperation`), and cannot count to a line reset by accident: this is where the proof uses that the
  reset is longer than a word with its parity (`WireAssumption`; 50 clocks against 33). `ResetEnds`
  counts the ones of a line reset. All of it holds for words of any length, any
  turnaround, any settings, idle cycles and requests.

**Induction over data.** The library's induction theorems take an operator as a parameter, which the
prover cannot instantiate. Module `Iteration` goes round that: a loop is a recursive function in a
module whose only parameter is the `Body`, its lemmas `Unrolled` (one more round), `Stays` (what each
round keeps) and `Induction` (a set of numbers that has 0 and successors has them all) are proved there once, and a model takes
the module with `INSTANCE Iteration WITH Body <- LAMBDA ...`. Every loop over bits, clocks or pin operations in
the models is such an instance.

**What the proofs changed in the models.** Guards of CASE expressions that overlapped are now IF
chains, since nothing says which of two true guards TLA+ takes. `WireAssumption` asks for a line reset longer than
a data phase; without it a lost target may take the ones of a word for a reset, which the small
instance had not shown. `CodingInForce` turned out to need no more than the types.
`NothingStranded` needs `LastSizeCovers`
in the precise form that with an empty queue the thread itself is about to read at least as much as
there is.

**Only model-checked:** liveness (`CharDelivered`, `WriteReturns`, `FlowResumes`, `RequestAnswered`,
`HandlerReturns`) and anything with ENABLED, which the prover does not handle. All
invariants and action properties of the passing runs are proved.

## 6. What is not modelled

* RT-Thread, CherryUSB and Black Magic are not in this repository; they appear as the code uses
  them. In particular an access to the ring buffer is one step, so `cdc_reset` in the middle of
  `rt_ringbuffer_get` is not covered.
* Contents of CDC data (no property depends on them), USB descriptors, LED, board set-up.
* The serial number (usb_serial_number.c): computed once, before USB starts. Two of its three parts
  are sums of half-words, which may take five digits, so that the last digits are cut off; it uses 80
  of the 96 bits of the processor's identification.
* The tail of an earlier request that is parsed when a request is shorter than the packet size
  (usb_dap.c:23): counts as transfers that the host meant.
* The levels of the pins other than SWDIO. free-dap releases the target's reset with a high
  NRST_OUT (dap_config.h:211), Black Magic asserts it with a high one (platform.c:61); which is
  right depends on the board. Where an undriven SWDIO is sampled it is high (pull-up), and a
  target does not count that for a line reset.
* What a target that is out of step, or has settings of its own, makes of the bits: it is silent, or answers
  by chance with an acknowledge at the time the probe expects one, and sends no data. A real one may take
  a part of a word for a header, and turns the line in its own time: with a turnaround of 2 at the
  probe and 1 at the target, both drive SWDIO in the data phase of a read. `LineNotFought` therefore asks
  for shared settings.
* The inside of `rt_pin_mode`: a pin operation of the thread is one step, in which the pin changes its
  direction at once.
* A device with an instruction register of no bits. The host may claim one (`dap_jtag_configure` does not
  refuse it, and the theorems of `JtagScanProofs` allow it; the run `jtag_scan` does not try it, for its time), but
  no chain has one.
* `dap_info`, `dap_host_status`, `dap_reset_target`: constant answers and an LED.
* `dap_clock_test` (dap.c:1493) never returns; it is called from the shell command `swclk_test` for
  measuring.
* The unit of the wait in `dap_swj_pins`: the code multiplies the value of the request by 1000 (dap.c:1174),
  so that it counts milliseconds, and so does the model.
* A division by zero in `dap_setup_clock` (frequency 0): it yields 0 on this processor unless
  trapping is switched on, and is modelled so.
* `dap_abort`: nothing ever sets it. Its only writer, `dap_filter_request`, has no caller.

## 7. Plan

1. (done) `CdcPort`, `CdcWrite`, `TxQueue`, `AuxCdc`, `AuxUart`, `DapTransport`, `DapTransfer`,
   and the proofs listed above.
2. (done) `JtagScan` with its proofs, `TargetPins`.
3. (done) `SwdWire`, `DapClock` and their composition `ProbePort`, which implements `TargetPins`;
   DAP_TransferAbort in `DapTransport`; `ProbePortProofs`.
4. (done) `AuxUartProofs`, `DapTransferProofs`; the pins and the wire in `ProbePortProofs`, with `Iteration`.
5. (done) The scans in `JtagScanProofs`.
6. The tail of an earlier request in `DapTransfer`: which transfers it can add to a short one.
