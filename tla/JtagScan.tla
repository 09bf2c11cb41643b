------------------------------ MODULE JtagScan ------------------------------
(***************************************************************************)
(* JTAG in src/applications/free-dap/dap.c: the chain that the host has    *)
(* described (dap_jtag_configure), and the scans that address one device   *)
(* of it (dap_jtag_write_ir, dap_jtag_operation, dap_jtag_idcode), clocked *)
(* bit by bit through the TAP controllers of the target.                   *)
(*                                                                         *)
(* Device 0 is the nearest to TDO.  The registers between TDI and TDO are  *)
(* one sequence of bits, whose first bit is the next to appear at TDO.  A  *)
(* bit is a token that says where it comes from: the bits of an            *)
(* instruction or of a word to write (BitsOf), the bits that a device has  *)
(* captured (DeviceBits), or TDI left high or low (One, Low).              *)
(***************************************************************************)
EXTENDS Integers, Sequences

CONSTANTS
    DevCount,     \* DAP_CONFIG_JTAG_DEV_COUNT
    ArmIrLength,  \* ARM_JTAG_IR_LENGTH
    IrLengths,    \* the lengths of instruction registers that the host may claim
    Chains,       \* the chains of the target, as chain below
    DataBits,     \* bits of a data word; 32 in the code
    IdleCycles    \* the values of dap_idle_cycles

ASSUME JtagAssumption ==
    /\ DevCount \in Nat
    /\ ArmIrLength \in IrLengths \ {0}
    /\ IrLengths \subseteq Nat
    /\ \A c \in Chains : c \in Seq(IrLengths \ {0}) /\ Len(c) \in 1 .. DevCount
    /\ DataBits \in Nat \ {0}
    /\ IdleCycles \subseteq Nat

VARIABLES
    chain,               \* the real chain: chain[d + 1] is the IR length of device d
    wire,                \* the pins of the probe and the devices: see Clock
    dap_jtag_dev_count, dap_jtag_dev_index,
    dap_jtag_ir_length, dap_jtag_ir_before, dap_jtag_ir_after,
    dap_jtag_ir,         \* the instruction that this request has written
    dap_idle_cycles,
    pc,                  \* "idle", in a loop of configure, or in a request's "ops"
    i, bits,             \* the local variables of dap_jtag_configure
    last                 \* history: the last scan and what it has brought

positions == <<dap_jtag_dev_count, dap_jtag_ir_length, dap_jtag_ir_before, dap_jtag_ir_after>>
loop == <<i, bits>>
vars == <<chain, wire, dap_jtag_dev_index, positions, dap_jtag_ir, dap_idle_cycles,
          pc, loop, last>>

(***************************************************************************)
(* The devices.                                                            *)
(***************************************************************************)

One == <<"one", 0, 0>>
Low == <<"low", 0, 0>>
BitsOf(x, n) == [k \in 1 .. n |-> <<x, 0, k>>]
DeviceBits(d, n) == [k \in 1 .. n |-> <<"device", d, k>>]

Devices == 0 .. Len(chain) - 1

\* The TAP controller: the next state with TMS low and with TMS high.
TapLow ==
    [reset |-> "idle", idle |-> "idle",
     selDR |-> "capDR", capDR |-> "shDR", shDR |-> "shDR", ex1DR |-> "pauDR",
     pauDR |-> "pauDR", ex2DR |-> "shDR", upDR |-> "idle",
     selIR |-> "capIR", capIR |-> "shIR", shIR |-> "shIR", ex1IR |-> "pauIR",
     pauIR |-> "pauIR", ex2IR |-> "shIR", upIR |-> "idle"]

TapHigh ==
    [reset |-> "reset", idle |-> "selDR",
     selDR |-> "selIR", capDR |-> "ex1DR", shDR |-> "ex1DR", ex1DR |-> "upDR",
     pauDR |-> "ex2DR", ex2DR |-> "upDR", upDR |-> "selDR",
     selIR |-> "reset", capIR |-> "ex1IR", shIR |-> "ex1IR", ex1IR |-> "upIR",
     pauIR |-> "ex2IR", ex2IR |-> "upIR", upIR |-> "selDR"]

Accesses == {"DPACC", "APACC", "ABORT"}

\* The length of the data register that instruction x selects.
DrLength(x) == CASE x \in Accesses -> 3 + DataBits
                 [] x = "IDCODE" -> DataBits
                 [] OTHER -> 1

Length(s, d) == IF s.tap \in {"capIR", "upIR"} THEN chain[d + 1] ELSE DrLength(s.ir[d])

\* Where the register of device d begins.
Sums == INSTANCE Iteration WITH Body <- LAMBDA sum, s, e : sum + Length(s, e - 1)
Start(s, d) == Sums!Iterated(1, s, d)

\* Every register of the chain captures.
Joined == INSTANCE Iteration
              WITH Body <- LAMBDA line, s, e : line \o DeviceBits(e - 1, Length(s, e - 1))
Captured(s) == Joined!Iterated(<<>>, s, Len(chain))

Slice(s, d) == SubSeq(s.line, Start(s, d), Start(s, d) + Length(s, d) - 1)

\* The instruction in a register that holds b.
Decoded(b) ==
    IF \A k \in DOMAIN b : b[k] = One THEN "BYPASS"
    ELSE IF \E x \in Accesses \cup {"IDCODE"} : b = BitsOf(x, ArmIrLength)
    THEN b[1][1]
    ELSE "other"

\* Entering Update or Test-Logic-Reset.  A debug port takes an access only if
\* its answer was OK.
Latched(s) ==
    CASE s.tap = "reset" ->
            [s EXCEPT !.ir = [d \in Devices |-> "IDCODE"], !.line = <<>>]
      [] s.tap = "upIR" ->
            [s EXCEPT !.ir = [d \in Devices |-> Decoded(Slice(s, d))], !.line = <<>>]
      [] s.tap = "upDR" ->
            [s EXCEPT !.taken = [d \in Devices |-> IF s.ir[d] \in Accesses /\ s.answer = "OK"
                                                   THEN Slice(s, d) ELSE <<>>],
                      !.line = <<>>]
      [] OTHER -> s

\* One period of TCK: the bit at TDO is sampled, then the rising edge acts on the
\* devices.
Clock(s) ==
    LET shift == s.tap \in {"shDR", "shIR"}
        moved == IF s.tms THEN TapHigh[s.tap] ELSE TapLow[s.tap]
    IN  Latched([s EXCEPT
            !.out = IF shift THEN Append(@, Head(s.line)) ELSE @,
            !.line = CASE s.tap \in {"capDR", "capIR"} -> Captured(s)
                       [] shift -> Append(Tail(@), s.tdi)
                       [] OTHER -> @,
            !.tap = moved])

(***************************************************************************)
(* The primitives of the probe.                                            *)
(***************************************************************************)

Tms(s, v) == [s EXCEPT !.tms = v]
Tdi(s, b) == [s EXCEPT !.tdi = b]

\* dap_swj_run and dap_jtag_read
Pulses == INSTANCE Iteration WITH Body <- LAMBDA s, b, k : Clock(s)
Run(s, n) == Pulses!Iterated(s, <<>>, n)

\* dap_jtag_write and dap_jtag_rdwr
Shifts == INSTANCE Iteration WITH Body <- LAMBDA s, b, k : Clock(Tdi(s, b[k]))
Write(s, b) == Shifts!Iterated(s, b, Len(b))

Front(b) == SubSeq(b, 1, Len(b) - 1)
Last(b) == b[Len(b)]

(***************************************************************************)
(* The scans.                                                              *)
(***************************************************************************)

\* The way out of both kinds of scan, from Exit1.
\* Mutant: the last clock, into Run-Test/Idle, is missing.
FinishEarly(s) == Tdi(Tms(Run(s, 1), FALSE), One)

Finish(s) == Tdi(Run(Tms(Run(s, 1), FALSE), 1), One)

\* dap_jtag_write_ir
\* Mutant: the last bit leaves Shift-IR whatever is behind the device.
WriteIrShort(s, x, index) ==
    LET b == BitsOf(x, dap_jtag_ir_length[index])
        shiftIR == Run(Tms(Run(Tms(s, TRUE), 2), FALSE), 2)
        ahead == Run(Tdi(shiftIR, One), dap_jtag_ir_before[index])
    IN  Finish(Write(Tms(Write(ahead, Front(b)), TRUE), <<Last(b)>>))

WriteIr(s, x, index) ==
    LET b == BitsOf(x, dap_jtag_ir_length[index])
        after == dap_jtag_ir_after[index]
        shiftIR == Run(Tms(Run(Tms(s, TRUE), 2), FALSE), 2)
        ahead == Run(Tdi(shiftIR, One), dap_jtag_ir_before[index])
        body == Write(ahead, Front(b))
    IN  IF after > 0
          THEN Finish(Run(Tms(Run(Tdi(Write(body, <<Last(b)>>), One), after - 1), TRUE), 1))
          ELSE Finish(Write(Tms(body, TRUE), <<Last(b)>>))

\* To Shift-DR, and past the devices ahead, which are in BYPASS.
ShiftDr(s, index) == Run(Tms(Run(Tms(s, TRUE), 1), FALSE), 2 + index)

\* The data phase, to Exit1-DR: the bits of w are written, or as many read if w
\* is empty, and pushed past the cnt devices behind.
\* Mutant: the devices behind are forgotten.
DataShort(s, w, cnt) ==
    LET first == IF w = <<>> THEN Run(s, DataBits - 1) ELSE Write(s, Front(w))
    IN  IF w = <<>> THEN Run(Tms(first, TRUE), 1) ELSE Write(Tms(first, TRUE), <<Last(w)>>)

Data(s, w, cnt) ==
    LET Move(from, b, n) == IF w = <<>> THEN Run(from, n) ELSE Write(from, b)
    IN  IF cnt > 0
          THEN Run(Tms(Run(Move(s, w, DataBits), cnt - 1), TRUE), 1)
          ELSE Move(Tms(Move(s, Front(w), DataBits - 1), TRUE), <<Last(w)>>, 1)

Kinds == {"dpRead", "dpWrite", "apRead", "apWrite", "abort"}
IsRead(k) == k \in {"dpRead", "apRead"}

Instruction(k) == CASE k = "abort" -> "ABORT"
                    [] k \in {"apRead", "apWrite"} -> "APACC"
                    [] OTHER -> "DPACC"

Request == BitsOf("request", 3)
Word(k) == IF IsRead(k) THEN <<>> ELSE BitsOf(k, DataBits)

\* What a device can answer; OK may be FAULT, which looks the same.
Answers == {"OK", "WAIT", "INVALID"}

\* What the last three bits read mean to the probe: what the device answers if
\* they are its own, else anything.
Acks(s, index) ==
    IF SubSeq(s.out, Len(s.out) - 2, Len(s.out)) = DeviceBits(index, 3) THEN {s.answer} ELSE Answers

\* Between two handlers nothing is left of the bits read.
Rest(s) == [s EXCEPT !.out = <<>>, !.answer = "none"]

Nothing == [d \in Devices |-> <<>>]

(***************************************************************************)
(* The initial states: the probe has been initialised, the target powered. *)
(***************************************************************************)

Slots == 0 .. DevCount - 1

Init ==
    /\ chain \in Chains
    /\ wire = [tap |-> "reset", tms |-> FALSE, tdi |-> Low, line |-> <<>>, out |-> <<>>,
               ir |-> [d \in Devices |-> "IDCODE"], taken |-> Nothing, answer |-> "none"]
    /\ dap_jtag_dev_count = 0
    /\ dap_jtag_dev_index = 0
    /\ dap_jtag_ir_length = [j \in Slots |-> 0]
    /\ dap_jtag_ir_before = [j \in Slots |-> 0]
    /\ dap_jtag_ir_after = [j \in Slots |-> 0]
    /\ dap_jtag_ir = "invalid"
    /\ dap_idle_cycles = 0
    /\ pc = "idle"
    /\ i = 0
    /\ bits = 0
    /\ last = [scan |-> "none", ack |-> "none", read |-> <<>>]

(***************************************************************************)
(* dap_jtag_configure.  Nothing comes between its steps.                   *)
(***************************************************************************)

\* The head: too many devices are refused.
\* Mutant: they are not.
ConfigureAny(count) ==
    /\ pc = "idle"
    /\ dap_jtag_ir' = "invalid"
    /\ dap_jtag_dev_count' = count
    /\ dap_jtag_dev_index' = 0
    /\ pc' = "before"
    /\ i' = 0 /\ bits' = 0
    /\ UNCHANGED <<chain, wire, dap_jtag_ir_length, dap_jtag_ir_before,
                   dap_jtag_ir_after, dap_idle_cycles, last>>

Configure(count) ==
    /\ pc = "idle"
    /\ dap_jtag_ir' = "invalid"
    /\ IF count <= DevCount
         THEN /\ dap_jtag_dev_count' = count
              /\ dap_jtag_dev_index' = 0
              /\ pc' = "before"
              /\ i' = 0 /\ bits' = 0
         ELSE UNCHANGED <<dap_jtag_dev_count, dap_jtag_dev_index, pc, loop>>
    /\ UNCHANGED <<chain, wire, dap_jtag_ir_length, dap_jtag_ir_before,
                   dap_jtag_ir_after, dap_idle_cycles, last>>

\* A round of the first loop: the next length of the request.
Before(length) ==
    /\ pc = "before"
    /\ i < dap_jtag_dev_count
    /\ dap_jtag_ir_length' = [dap_jtag_ir_length EXCEPT ![i] = length]
    /\ dap_jtag_ir_before' = [dap_jtag_ir_before EXCEPT ![i] = bits]
    /\ bits' = bits + length
    /\ i' = i + 1
    /\ UNCHANGED <<chain, wire, dap_jtag_dev_count, dap_jtag_dev_index, dap_jtag_ir_after,
                   dap_jtag_ir, dap_idle_cycles, pc, last>>

BeforeEnd ==
    /\ pc = "before"
    /\ i = dap_jtag_dev_count
    /\ pc' = "after"
    /\ i' = 0
    /\ UNCHANGED <<chain, wire, dap_jtag_dev_index, positions, dap_jtag_ir,
                   dap_idle_cycles, bits, last>>

\* A round of the second loop.
\* Mutant: the position is taken before the device itself is subtracted.
AfterLate ==
    /\ pc = "after"
    /\ i < dap_jtag_dev_count
    /\ bits' = bits - dap_jtag_ir_length[i]
    /\ dap_jtag_ir_after' = [dap_jtag_ir_after EXCEPT ![i] = bits]
    /\ i' = i + 1
    /\ UNCHANGED <<chain, wire, dap_jtag_dev_count, dap_jtag_dev_index, dap_jtag_ir_length,
                   dap_jtag_ir_before, dap_jtag_ir, dap_idle_cycles, pc, last>>

After ==
    /\ pc = "after"
    /\ i < dap_jtag_dev_count
    /\ bits' = bits - dap_jtag_ir_length[i]
    /\ dap_jtag_ir_after' = [dap_jtag_ir_after EXCEPT ![i] = bits']
    /\ i' = i + 1
    /\ UNCHANGED <<chain, wire, dap_jtag_dev_count, dap_jtag_dev_index, dap_jtag_ir_length,
                   dap_jtag_ir_before, dap_jtag_ir, dap_idle_cycles, pc, last>>

AfterEnd ==
    /\ pc = "after"
    /\ i = dap_jtag_dev_count
    /\ pc' = "idle"
    /\ i' = 0
    /\ UNCHANGED <<chain, wire, dap_jtag_dev_index, positions, dap_jtag_ir,
                   dap_idle_cycles, bits, last>>

(***************************************************************************)
(* The requests that scan.  The port is JTAG throughout (DapTransfer has   *)
(* the port), and the host asks for scans only from Run-Test/Idle, where   *)
(* it has taken the controllers with a sequence.                           *)
(***************************************************************************)

\* dap_select_device: device index can be addressed.
Selectable(index) ==
    index < dap_jtag_dev_count /\ dap_jtag_ir_length[index] = ArmIrLength

\* A request that does transfers: dap_process_request forgets the instruction,
\* then dap_select_device accepts the device.
\* Mutant: the instruction is not forgotten.
BeginCached(index) ==
    /\ pc = "idle"
    /\ wire.tap = "idle"
    /\ Selectable(index)
    /\ dap_jtag_dev_index' = index
    /\ pc' = "ops"
    /\ last' = [scan |-> "none", ack |-> "none", read |-> <<>>]
    /\ UNCHANGED <<chain, wire, positions, dap_jtag_ir, dap_idle_cycles, loop>>

Begin(index) ==
    /\ pc = "idle"
    /\ wire.tap = "idle"
    /\ Selectable(index)
    /\ dap_jtag_dev_index' = index
    /\ dap_jtag_ir' = "invalid"
    /\ pc' = "ops"
    /\ last' = [scan |-> "none", ack |-> "none", read |-> <<>>]
    /\ UNCHANGED <<chain, wire, positions, dap_idle_cycles, loop>>

\* dap_jtag_operation of kind k, which the device answers with a.
Operation(k, a) ==
    /\ pc = "ops" /\ last.scan # "idcode"
    /\ LET index == dap_jtag_dev_index
           x == Instruction(k)
           start == [wire EXCEPT !.answer = a, !.taken = Nothing]
           ready == IF x = dap_jtag_ir THEN start ELSE WriteIr(start, x, index)
           acked == Write(ShiftDr(ready, index), Request)
           cnt == dap_jtag_dev_count - index - 1
       IN  \E ack \in Acks(acked, index) :
             LET exit1 == IF ack = "OK" THEN Data(acked, Word(k), cnt)
                                        ELSE Run(Tms(acked, TRUE), 1)
             IN  /\ wire' = Rest(Run(Finish(exit1), dap_idle_cycles))
                 /\ last' = [scan |-> k, ack |-> ack,
                             read |-> IF ack = "OK" /\ IsRead(k)
                                      THEN SubSeq(exit1.out, Len(acked.out) + 1,
                                                  Len(acked.out) + DataBits)
                                      ELSE <<>>]
    /\ dap_jtag_ir' = Instruction(k)
    /\ UNCHANGED <<chain, dap_jtag_dev_index, positions, dap_idle_cycles, pc, loop>>

End ==
    /\ pc = "ops"
    /\ pc' = "idle"
    /\ wire' = [wire EXCEPT !.taken = Nothing]
    /\ last' = [scan |-> "none", ack |-> "none", read |-> <<>>]
    /\ UNCHANGED <<chain, dap_jtag_dev_index, positions, dap_jtag_ir,
                   dap_idle_cycles, loop>>

\* dap_jtag_idcode; pc is "ops" until the response is out.
IdCode(index) ==
    /\ pc = "idle"
    /\ wire.tap = "idle"
    /\ Selectable(index)
    /\ dap_jtag_dev_index' = index
    /\ dap_jtag_ir' = "invalid"
    /\ LET start == [wire EXCEPT !.taken = Nothing]
           ready == ShiftDr(WriteIr(start, "IDCODE", index), index)
           exit1 == Run(Tms(Run(ready, DataBits - 1), TRUE), 1)
       IN  /\ wire' = Rest(Finish(exit1))
           /\ last' = [scan |-> "idcode", ack |-> "OK",
                       read |-> SubSeq(exit1.out, Len(ready.out) + 1,
                                       Len(ready.out) + DataBits)]
    /\ pc' = "ops"
    /\ UNCHANGED <<chain, positions, dap_idle_cycles, loop>>

\* dap_jtag_sequence: each element of the request holds TMS at v and clocks n bits
\* of TDI, here all the same.
Element(s, e) == Run(Tdi(Tms(s, e.v), e.b), e.n)

Elements == INSTANCE Iteration WITH Body <- LAMBDA s, request, k : Element(s, request[k])

JtagSequence(request) ==
    /\ pc = "idle"
    /\ wire' = Rest(Elements!Iterated(wire, request, Len(request)))
    /\ dap_jtag_ir' = "invalid"
    /\ UNCHANGED <<chain, dap_jtag_dev_index, positions, dap_idle_cycles, pc, loop, last>>

\* dap_transfer_configure, as far as it concerns the scans.
TransferConfigure(n) ==
    /\ pc = "idle"
    /\ dap_idle_cycles' = n
    /\ dap_jtag_ir' = "invalid"
    /\ UNCHANGED <<chain, wire, dap_jtag_dev_index, positions, pc, loop, last>>

\* dap_init, when the host configures the device again.
DapInit ==
    /\ pc = "idle"
    /\ dap_jtag_dev_count' = 0
    /\ dap_idle_cycles' = 0
    /\ UNCHANGED <<chain, wire, dap_jtag_dev_index, dap_jtag_ir_length, dap_jtag_ir_before,
                   dap_jtag_ir_after, dap_jtag_ir, pc, loop, last>>

(***************************************************************************)
(* The specification.                                                      *)
(***************************************************************************)

Describe ==
    \/ \E count \in 0 .. DevCount + 1 : Configure(count)
    \/ \E length \in IrLengths : Before(length)
    \/ BeforeEnd \/ After \/ AfterEnd

Scan ==
    \/ \E index \in 0 .. DevCount - 1 : Begin(index) \/ IdCode(index)
    \/ \E k \in Kinds, a \in Answers : Operation(k, a)
    \/ End

\* What the host asks of dap_jtag_sequence: to take the controllers to
\* Test-Logic-Reset, to Run-Test/Idle, and from there through a scan that leaves
\* in the devices instructions which the probe knows nothing of.
Clocks(v, b, n) == [v |-> v, b |-> b, n |-> n]
HostSequences ==
    {<<Clocks(TRUE, One, 5)>>}
    \cup IF wire.tap = "reset" THEN {<<Clocks(FALSE, Low, 1)>>}
         ELSE {<<Clocks(TRUE, Low, 2), Clocks(FALSE, Low, 2), Clocks(TRUE, Low, 2),
                 Clocks(FALSE, Low, 1)>>}

Next ==
    \/ Describe
    \/ Scan
    \/ \E request \in HostSequences : JtagSequence(request)
    \/ \E n \in IdleCycles : TransferConfigure(n)
    \/ DapInit

Spec == Init /\ [][Next]_vars

(***************************************************************************)
(* Properties.                                                             *)
(***************************************************************************)

\* The variables have their types: the description stays inside its arrays and
\* no position is negative.
TypeOK ==
    /\ chain \in Chains
    /\ dap_jtag_dev_count \in 0 .. DevCount
    /\ dap_jtag_dev_index \in Nat
    /\ dap_jtag_ir_length \in [Slots -> Nat]
    /\ dap_jtag_ir_before \in [Slots -> Nat]
    /\ dap_jtag_ir_after \in [Slots -> Nat]
    /\ dap_jtag_ir \in Accesses \cup {"invalid"}
    /\ pc \in {"idle", "before", "after", "ops"}
    /\ i \in 0 .. DevCount
    /\ bits \in Nat

\* What dap_jtag_configure computes in its two loops: each device is preceded by
\* the instruction bits of the ones before it and followed by those of the ones
\* after it, whatever was there before.
Positions ==
    pc \in {"idle", "ops"} =>
        \A j \in 0 .. dap_jtag_dev_count - 1 :
            /\ dap_jtag_ir_before[j] =
                  IF j = 0 THEN 0 ELSE dap_jtag_ir_before[j - 1] + dap_jtag_ir_length[j - 1]
            /\ dap_jtag_ir_after[j] =
                  IF j + 1 = dap_jtag_dev_count THEN 0
                  ELSE dap_jtag_ir_after[j + 1] + dap_jtag_ir_length[j + 1]

\* The host has described the chain that is there.
Described ==
    /\ dap_jtag_dev_count = Len(chain)
    /\ \A d \in Devices : dap_jtag_ir_length[d] = chain[d + 1]

\* A scan that was answered OK has reached the device it was meant for: a write
\* leaves the whole of its request and its data in the register of the device, a
\* read its request, and brings the device's own word; dap_jtag_idcode returns the
\* identification of the device it was asked for.
ScanReachesDevice ==
    LET index == dap_jtag_dev_index
        taken == wire.taken[index]
    IN  (Described /\ pc = "ops" /\ last.ack = "OK") =>
            CASE last.scan = "idcode" -> last.read = DeviceBits(index, DataBits)
              [] IsRead(last.scan) ->
                    /\ SubSeq(taken, 1, 3) = Request
                    /\ last.read = [j \in 1 .. DataBits |-> <<"device", index, j + 3>>]
              [] OTHER -> taken = Request \o Word(last.scan)

\* Whatever a scan was for, no other device has seen an access: all of them are in
\* BYPASS.
OthersBypassed ==
    (Described /\ pc = "ops" /\ last.scan # "none") =>
        \A d \in Devices \ {dap_jtag_dev_index} :
            wire.ir[d] = "BYPASS" /\ wire.taken[d] = <<>>

\* dap_jtag_ir, which spares a scan, is what is in the device.
CacheHonest ==
    (Described /\ pc = "ops" /\ dap_jtag_ir # "invalid") =>
        wire.ir[dap_jtag_dev_index] = dap_jtag_ir

\* A scan leaves the controllers in Run-Test/Idle, where the next one expects them,
\* and TDI high, even if it failed and even if the chain is not as described.
EndsIdle == pc = "ops" => wire.tap = "idle" /\ (last.scan # "none" => wire.tdi = One)
=============================================================================
