--------------------------- MODULE JtagScanProofs ---------------------------
(***************************************************************************)
(* Proofs about JtagScan, for any number of devices and registers of any   *)
(* length: what dap_jtag_configure computes, then what the scans that use  *)
(* it do to the devices, bit by bit.                                       *)
(***************************************************************************)
EXTENDS JtagScan, TLAPS

(***************************************************************************)
(* The inductive invariant.  The code adds up the lengths in one loop and  *)
(* takes them away in the other; Ahead(j), the bits ahead of device j,     *)
(* says so without a sum.                                                  *)
(***************************************************************************)

Ahead(j) ==
    IF j = 0 THEN 0 ELSE dap_jtag_ir_before[j - 1] + dap_jtag_ir_length[j - 1]

\* The first n devices have their place, and end at or before b.
Placed(n, b) ==
    \A j \in 0 .. n - 1 :
        /\ dap_jtag_ir_before[j] = Ahead(j)
        /\ dap_jtag_ir_before[j] + dap_jtag_ir_length[j] <= b

FirstLoop ==
    pc = "before" =>
        /\ i <= dap_jtag_dev_count
        /\ bits = Ahead(i)
        /\ Placed(i, bits)

SecondLoop ==
    pc = "after" =>
        /\ i <= dap_jtag_dev_count
        /\ bits = Ahead(dap_jtag_dev_count) - Ahead(i)
        /\ Placed(dap_jtag_dev_count, Ahead(dap_jtag_dev_count))
        /\ \A j \in 0 .. i - 1 :
              dap_jtag_ir_after[j] = Ahead(dap_jtag_dev_count) - Ahead(j + 1)

Inv == TypeOK /\ FirstLoop /\ SecondLoop /\ Positions

(***************************************************************************)
(* The proof.                                                              *)
(***************************************************************************)

LEMMA Constants ==
    /\ DevCount \in Nat
    /\ Slots = 0 .. DevCount - 1
    /\ \A x \in IrLengths : x \in Nat
    /\ 0 \in 0 .. DevCount
BY JtagAssumption DEF Slots

LEMMA InvInit == Init => Inv
BY Constants DEF Init, Inv, TypeOK, FirstLoop, SecondLoop, Positions, Slots

\* A step that leaves the description alone.
LEMMA Elsewhere ==
    ASSUME Inv,
           UNCHANGED <<positions, loop, chain>>,
           pc \in {"idle", "ops"}, pc' \in {"idle", "ops"},
           dap_jtag_dev_index' \in Nat,
           dap_jtag_ir' \in Accesses \cup {"invalid"}
    PROVE  Inv'
BY DEF Inv, TypeOK, FirstLoop, SecondLoop, Positions, positions, loop

LEMMA BeforeStep ==
    ASSUME Inv, NEW length \in IrLengths, Before(length)
    PROVE  Inv'
<1>. USE Constants
<1>1. length \in Nat /\ i \in Slots /\ i \in Nat /\ i + 1 \in 0 .. DevCount
  BY DEF Inv, TypeOK, Before
<1>2. TypeOK'
  BY <1>1 DEF Inv, TypeOK, Before
<1>3. \A j \in 0 .. i : Ahead(j)' = Ahead(j)
  BY <1>1 DEF Inv, TypeOK, Before, Ahead
<1>4. Ahead(i)' = bits + length /\ bits' = bits + length /\ i' = i + 1
  BY <1>1 DEF Inv, TypeOK, Before, Ahead
<1>5. bits = Ahead(i) /\ Placed(i, bits) /\ bits \in Nat
  BY DEF Inv, TypeOK, FirstLoop, Before
<1>6. Placed(i, bits)'
  <2>. SUFFICES ASSUME NEW j \in 0 .. i
                PROVE  /\ dap_jtag_ir_before'[j] = Ahead(j)'
                       /\ dap_jtag_ir_before'[j] + dap_jtag_ir_length'[j] <= bits + length
    BY <1>1, <1>4 DEF Placed
  <2>1. CASE j = i
    <3>1. dap_jtag_ir_before'[j] = bits /\ dap_jtag_ir_length'[j] = length
      BY <1>1, <2>1 DEF Inv, TypeOK, Before
    <3>. QED
      BY <1>1, <1>3, <1>5, <2>1, <3>1
  <2>2. CASE j # i
    <3>1. /\ dap_jtag_ir_before'[j] = dap_jtag_ir_before[j]
          /\ dap_jtag_ir_length'[j] = dap_jtag_ir_length[j]
          /\ dap_jtag_ir_before[j] \in Nat /\ dap_jtag_ir_length[j] \in Nat
      BY <1>1, <2>2 DEF Inv, TypeOK, Before
    <3>2. /\ dap_jtag_ir_before[j] = Ahead(j)
          /\ dap_jtag_ir_before[j] + dap_jtag_ir_length[j] <= bits
      BY <1>1, <1>5, <2>2 DEF Placed
    <3>. QED
      BY <1>1, <1>3, <1>5, <3>1, <3>2
  <2>. QED
    BY <2>1, <2>2
<1>7. /\ pc' = "before" /\ dap_jtag_dev_count' = dap_jtag_dev_count
      /\ i + 1 <= dap_jtag_dev_count
  BY <1>1 DEF Inv, TypeOK, Before
<1>8. FirstLoop'
  <2>1. bits' = Ahead(i)' /\ Placed(i, bits)' /\ i' <= dap_jtag_dev_count'
    BY <1>4, <1>6, <1>7
  <2>. QED
    BY ONLY <2>1 DEF FirstLoop
<1>9. SecondLoop' /\ Positions'
  BY ONLY <1>7 DEF SecondLoop, Positions
<1>. QED
  BY ONLY <1>2, <1>8, <1>9 DEF Inv

LEMMA BeforeEndStep ==
    ASSUME Inv, BeforeEnd
    PROVE  Inv'
<1>. USE Constants
<1>1. /\ UNCHANGED positions /\ bits' = bits /\ i' = 0 /\ pc' = "after"
      /\ bits = Ahead(dap_jtag_dev_count)
      /\ Placed(dap_jtag_dev_count, Ahead(dap_jtag_dev_count))
  BY DEF Inv, FirstLoop, BeforeEnd
<1>2. TypeOK'
  BY DEF Inv, TypeOK, BeforeEnd, positions
<1>3. \A j \in Nat : Ahead(j)' = Ahead(j)
  BY <1>1 DEF Ahead, positions
<1>4. SecondLoop'
  <2>1. Placed(dap_jtag_dev_count, Ahead(dap_jtag_dev_count))'
    BY <1>1 DEF Placed, Ahead, positions
  <2>2. bits' = Ahead(dap_jtag_dev_count)' - Ahead(i)'
    BY <1>1 DEF Ahead, positions, Inv, TypeOK
  <2>. QED
    BY <1>1, <1>2, <2>1, <2>2 DEF SecondLoop, TypeOK
<1>5. FirstLoop' /\ Positions'
  BY ONLY <1>1 DEF FirstLoop, Positions
<1>. QED
  BY ONLY <1>2, <1>4, <1>5 DEF Inv

LEMMA AfterStep ==
    ASSUME Inv, After
    PROVE  Inv'
<1>. USE Constants
<1>1. i \in Slots /\ i \in Nat /\ i + 1 \in 0 .. DevCount
  BY DEF Inv, TypeOK, After
<1>2. /\ bits = Ahead(dap_jtag_dev_count) - Ahead(i)
      /\ Placed(dap_jtag_dev_count, Ahead(dap_jtag_dev_count))
      /\ \A j \in 0 .. i - 1 :
            dap_jtag_ir_after[j] = Ahead(dap_jtag_dev_count) - Ahead(j + 1)
  BY DEF Inv, SecondLoop, After
<1>3. \A j \in 0 .. DevCount : Ahead(j)' = Ahead(j) /\ Ahead(j) \in Nat
  BY DEF Inv, TypeOK, After, Ahead
<1>4. /\ dap_jtag_ir_before[i] = Ahead(i)
      /\ Ahead(i + 1) = dap_jtag_ir_before[i] + dap_jtag_ir_length[i]
      /\ Ahead(i + 1) <= Ahead(dap_jtag_dev_count)
  BY <1>1, <1>2, SMTT(20) DEF Inv, TypeOK, After, Placed, Ahead
<1>5. bits' = Ahead(dap_jtag_dev_count) - Ahead(i + 1) /\ bits' \in Nat
  BY <1>1, <1>2, <1>3, <1>4, SMTT(20) DEF Inv, TypeOK, After
<1>6. TypeOK'
  BY <1>1, <1>5 DEF Inv, TypeOK, After
<1>7. Placed(dap_jtag_dev_count, Ahead(dap_jtag_dev_count))'
  BY <1>2, <1>3 DEF Inv, TypeOK, After, Placed
<1>8. \A j \in 0 .. i :
         dap_jtag_ir_after'[j] = Ahead(dap_jtag_dev_count) - Ahead(j + 1)
  BY <1>1, <1>2, <1>5 DEF Inv, TypeOK, After
<1>9. SecondLoop'
  <2>1. /\ i' = i + 1 /\ i + 1 <= dap_jtag_dev_count
        /\ UNCHANGED <<dap_jtag_dev_count, dap_jtag_ir_before, dap_jtag_ir_length>>
    BY <1>1 DEF Inv, TypeOK, After
  <2>2. /\ Ahead(dap_jtag_dev_count)' = Ahead(dap_jtag_dev_count)
        /\ Ahead(i)' = Ahead(i + 1)
        /\ \A j \in 0 .. i : Ahead(j + 1)' = Ahead(j + 1)
    BY <2>1 DEF Ahead
  <2>3. \A j \in 0 .. i' - 1 :
           dap_jtag_ir_after'[j] = Ahead(dap_jtag_dev_count)' - Ahead(j + 1)'
    BY <1>1, <1>8, <2>1, <2>2
  <2>. QED
    BY <1>5, <1>7, <2>1, <2>2, <2>3 DEF SecondLoop
<1>10. pc' = "after"
  BY DEF After
<1>11. FirstLoop' /\ Positions'
  BY ONLY <1>10 DEF FirstLoop, Positions
<1>. QED
  BY ONLY <1>6, <1>9, <1>11 DEF Inv

\* Both loops are done: the positions are there.
LEMMA AfterEndStep ==
    ASSUME Inv, AfterEnd
    PROVE  Inv'
<1>. USE Constants
<1>1. /\ Placed(dap_jtag_dev_count, Ahead(dap_jtag_dev_count))
      /\ \A j \in 0 .. dap_jtag_dev_count - 1 :
            dap_jtag_ir_after[j] = Ahead(dap_jtag_dev_count) - Ahead(j + 1)
  BY DEF Inv, SecondLoop, AfterEnd
<1>2. \A j \in 0 .. dap_jtag_dev_count : Ahead(j) \in Nat
  BY DEF Inv, TypeOK, Ahead
<1>3. \A j \in 0 .. dap_jtag_dev_count - 1 :
         j + 1 < dap_jtag_dev_count =>
            Ahead(j + 2) = Ahead(j + 1) + dap_jtag_ir_length[j + 1]
  <2>. SUFFICES ASSUME NEW j \in 0 .. dap_jtag_dev_count - 1, j + 1 < dap_jtag_dev_count
                PROVE  Ahead(j + 2) = Ahead(j + 1) + dap_jtag_ir_length[j + 1]
    OBVIOUS
  <2>1. dap_jtag_ir_before[j + 1] = Ahead(j + 1)
    BY <1>1 DEF Inv, TypeOK, Placed
  <2>2. j + 2 # 0 /\ (j + 2) - 1 = j + 1
    BY DEF Inv, TypeOK
  <2>. QED
    BY <2>1, <2>2 DEF Ahead
<1>4. \A j \in 0 .. dap_jtag_dev_count - 1 :
         dap_jtag_ir_after[j] =
            IF j + 1 = dap_jtag_dev_count THEN 0
            ELSE dap_jtag_ir_after[j + 1] + dap_jtag_ir_length[j + 1]
  <2>. SUFFICES ASSUME NEW j \in 0 .. dap_jtag_dev_count - 1
                PROVE  dap_jtag_ir_after[j] =
                          IF j + 1 = dap_jtag_dev_count THEN 0
                          ELSE dap_jtag_ir_after[j + 1] + dap_jtag_ir_length[j + 1]
    OBVIOUS
  <2>1. CASE j + 1 = dap_jtag_dev_count
    BY <2>1, <1>1, <1>2 DEF Inv, TypeOK
  <2>2. CASE j + 1 < dap_jtag_dev_count
    <3>1. j + 1 \in 0 .. dap_jtag_dev_count - 1 /\ j + 2 \in 0 .. dap_jtag_dev_count
      BY <2>2 DEF Inv, TypeOK
    <3>2. dap_jtag_ir_length[j + 1] \in Nat
      BY <3>1 DEF Inv, TypeOK
    <3>3. dap_jtag_ir_after[j + 1] = Ahead(dap_jtag_dev_count) - Ahead(j + 2)
      BY <3>1, <1>1 DEF Inv, TypeOK
    <3>4. dap_jtag_ir_after[j] = Ahead(dap_jtag_dev_count) - Ahead(j + 1)
      BY <1>1
    <3>5. Ahead(j + 2) = Ahead(j + 1) + dap_jtag_ir_length[j + 1]
      BY <2>2, <1>3
    <3>6. Ahead(dap_jtag_dev_count) \in Nat /\ Ahead(j + 1) \in Nat /\ Ahead(j + 2) \in Nat
      BY <3>1, <1>2 DEF Inv, TypeOK
    <3>7. dap_jtag_ir_after[j] = dap_jtag_ir_after[j + 1] + dap_jtag_ir_length[j + 1]
      BY ONLY <3>2, <3>3, <3>4, <3>5, <3>6
    <3>8. j + 1 # dap_jtag_dev_count
      BY <2>2 DEF Inv, TypeOK
    <3>. QED
      BY ONLY <3>7, <3>8
  <2>. QED
    BY <2>1, <2>2 DEF Inv, TypeOK
<1>5. Positions'
  BY <1>1, <1>4 DEF AfterEnd, Positions, positions, Placed, Ahead
<1>6. pc' = "idle" /\ UNCHANGED <<chain, dap_jtag_dev_index, positions, dap_jtag_ir, bits>>
      /\ i' = 0
  BY DEF AfterEnd
<1>7. TypeOK'
  BY <1>6 DEF Inv, TypeOK, positions
<1>8. FirstLoop' /\ SecondLoop'
  BY ONLY <1>6 DEF FirstLoop, SecondLoop
<1>. QED
  BY ONLY <1>5, <1>7, <1>8 DEF Inv

LEMMA InvStep == Inv /\ [Next]_vars => Inv'
<1>. SUFFICES ASSUME Inv, [Next]_vars PROVE Inv'
  OBVIOUS
<1>. USE Constants
<1>1. ASSUME NEW count \in 0 .. DevCount + 1, Configure(count) PROVE Inv'
  <2>1. CASE count <= DevCount
    <3>1. count \in 0 .. DevCount
      BY <2>1
    <3>. QED
      BY <1>1, <2>1, <3>1 DEF Configure, Inv, TypeOK, FirstLoop, SecondLoop, Positions,
         Placed, Ahead
  <2>2. CASE ~(count <= DevCount)
    <3>1. UNCHANGED <<positions, loop, chain, dap_jtag_dev_index, pc>>
      BY <1>1, <2>2 DEF Configure, positions, loop
    <3>. QED
      BY <1>1, <3>1, Elsewhere DEF Configure, Inv, TypeOK
  <2>. QED
    BY <2>1, <2>2
<1>2. ASSUME NEW length \in IrLengths, Before(length) PROVE Inv'
  BY <1>2, BeforeStep
<1>3. CASE BeforeEnd
  BY <1>3, BeforeEndStep
<1>4. CASE After
  BY <1>4, AfterStep
<1>5. CASE AfterEnd
  BY <1>5, AfterEndStep
<1>6. ASSUME NEW index \in 0 .. DevCount - 1, Begin(index) \/ IdCode(index) PROVE Inv'
  <2>1. /\ pc = "idle" /\ pc' = "ops" /\ UNCHANGED <<positions, loop, chain>>
        /\ dap_jtag_dev_index' = index /\ dap_jtag_ir' = "invalid"
    BY <1>6 DEF Begin, IdCode
  <2>. QED
    BY <2>1, Elsewhere
<1>7. ASSUME NEW k \in Kinds, NEW a \in Answers, Operation(k, a) PROVE Inv'
  <2>1. /\ pc = "ops" /\ UNCHANGED <<pc, positions, loop, chain, dap_jtag_dev_index>>
        /\ dap_jtag_ir' = Instruction(k)
    BY <1>7 DEF Operation
  <2>2. Instruction(k) \in Accesses
    BY DEF Instruction, Accesses, Kinds
  <2>. QED
    BY <2>1, <2>2, Elsewhere DEF Inv, TypeOK
<1>8. CASE End
  BY <1>8, Elsewhere DEF End, Inv, TypeOK
<1>9. ASSUME NEW request, JtagSequence(request) PROVE Inv'
  <2>1. /\ pc = "idle" /\ UNCHANGED <<pc, positions, loop, chain, dap_jtag_dev_index>>
        /\ dap_jtag_ir' = "invalid"
    BY <1>9 DEF JtagSequence
  <2>. QED
    BY <2>1, Elsewhere DEF Inv, TypeOK
<1>10. ASSUME NEW n \in IdleCycles, TransferConfigure(n) PROVE Inv'
  BY <1>10, Elsewhere DEF TransferConfigure, Inv, TypeOK
<1>11. CASE DapInit
  BY <1>11 DEF DapInit, Inv, TypeOK, FirstLoop, SecondLoop, Positions, loop
<1>12. CASE UNCHANGED vars
  BY <1>12 DEF vars, positions, loop, Inv, TypeOK, FirstLoop, SecondLoop, Positions, Placed,
     Ahead
<1>. QED
  BY <1>1, <1>2, <1>3, <1>4, <1>5, <1>6, <1>7, <1>8, <1>9, <1>10, <1>11, <1>12
     DEF Next, Describe, Scan

\* Whatever the host describes, and however often, the positions that a scan uses
\* add up: ahead of each device and behind it are the instruction bits of all the
\* others.
THEOREM ConfigurePositions == Spec => []Positions
<1>1. Inv => Positions
  BY DEF Inv
<1>. QED
  BY <1>1, InvInit, InvStep, PTL DEF Spec

\* The description never leaves its arrays, and no position is negative.
THEOREM TypeCorrect == Spec => []TypeOK
<1>1. Inv => TypeOK
  BY DEF Inv
<1>. QED
  BY <1>1, InvInit, InvStep, PTL DEF Spec

(***************************************************************************)
(* The scans.  A scan starts from a capture: c are the bits between TDI    *)
(* and TDO, X those that the probe will send.  After n clocks (Fed) the    *)
(* first n of c have come out at TDO, and the rest is followed by the      *)
(* first n of X: what is read and what a device has at Update are then a   *)
(* matter of where its register begins (Start), how many bits were clocked *)
(* and which bit of X is where.                                            *)
(*                                                                         *)
(* First, single clocks.                                                   *)
(***************************************************************************)

Fields == {"tap", "tms", "tdi", "line", "out", "ir", "taken", "answer"}

ShiftTaps == {"shDR", "shIR"}

\* The TAP state after the next clock.
NextTap(s) == IF s.tms THEN TapHigh[s.tap] ELSE TapLow[s.tap]

\* What the pins of the probe are, and the answer of the device.
SameDrive(v, s) == v.tms = s.tms /\ v.tdi = s.tdi /\ v.answer = s.answer

\* What is in the devices, but for the registers between TDI and TDO.
SameDevices(v, s) == v.ir = s.ir /\ v.taken = s.taken

LEMMA PinFields ==
  ASSUME NEW s, DOMAIN s = Fields, NEW v, NEW b
  PROVE  /\ DOMAIN Tms(s, v) = Fields /\ Tms(s, v).tms = v /\ Tms(s, v).tdi = s.tdi
         /\ Tms(s, v).tap = s.tap /\ Tms(s, v).line = s.line /\ Tms(s, v).out = s.out
         /\ Tms(s, v).answer = s.answer /\ SameDevices(Tms(s, v), s)
         /\ DOMAIN Tdi(s, b) = Fields /\ Tdi(s, b).tdi = b /\ Tdi(s, b).tms = s.tms
         /\ Tdi(s, b).tap = s.tap /\ Tdi(s, b).line = s.line /\ Tdi(s, b).out = s.out
         /\ Tdi(s, b).answer = s.answer /\ SameDevices(Tdi(s, b), s)
BY DEF Tms, Tdi, Fields, SameDevices

\* Before the devices latch.
LEMMA ClockBefore ==
  ASSUME NEW s, DOMAIN s = Fields
  PROVE  \E z : /\ Clock(s) = Latched(z) /\ DOMAIN z = Fields /\ z.tap = NextTap(s)
                /\ SameDrive(z, s) /\ SameDevices(z, s)
                /\ z.out = IF s.tap \in ShiftTaps THEN Append(s.out, Head(s.line)) ELSE s.out
                /\ s.tap \in ShiftTaps => z.line = Append(Tail(s.line), s.tdi)
                /\ s.tap \in {"capDR", "capIR"} => z.line = Captured(s)
                /\ s.tap \notin ShiftTaps \cup {"capDR", "capIR"} => z.line = s.line
<1>. DEFINE shift == s.tap \in {"shDR", "shIR"}
            line == CASE s.tap \in {"capDR", "capIR"} -> Captured(s)
                      [] shift -> Append(Tail(s.line), s.tdi)
                      [] OTHER -> s.line
            out == IF shift THEN Append(s.out, Head(s.line)) ELSE s.out
            z == [s EXCEPT !.out = out, !.line = line, !.tap = NextTap(s)]
<1>1. Clock(s) = Latched(z)
  BY DEF Clock, NextTap
<1>2. /\ s.tap \in ShiftTaps => line = Append(Tail(s.line), s.tdi)
      /\ s.tap \in {"capDR", "capIR"} => line = Captured(s)
      /\ s.tap \notin ShiftTaps \cup {"capDR", "capIR"} => line = s.line
  BY DEF ShiftTaps
<1>3. out = IF s.tap \in ShiftTaps THEN Append(s.out, Head(s.line)) ELSE s.out
  BY DEF ShiftTaps
<1>. HIDE DEF line, out
<1>4. /\ DOMAIN z = Fields /\ z.tap = NextTap(s) /\ SameDrive(z, s) /\ SameDevices(z, s)
      /\ z.out = out /\ z.line = line
  BY DEF Fields, SameDrive, SameDevices
<1>. HIDE DEF z
<1>. QED
  BY <1>1, <1>2, <1>3, <1>4

LEMMA LatchedFields ==
  ASSUME NEW z, DOMAIN z = Fields
  PROVE  /\ DOMAIN Latched(z) = Fields /\ Latched(z).tap = z.tap
         /\ SameDrive(Latched(z), z) /\ Latched(z).out = z.out
         /\ z.tap \notin {"reset", "upIR", "upDR"} =>
               Latched(z).line = z.line /\ SameDevices(Latched(z), z)
         /\ z.tap = "upIR" =>
               /\ Latched(z).ir = [d \in Devices |-> Decoded(Slice(z, d))]
               /\ Latched(z).taken = z.taken
         /\ z.tap = "upDR" =>
               /\ Latched(z).ir = z.ir
               /\ Latched(z).taken = [d \in Devices |->
                     IF z.ir[d] \in Accesses /\ z.answer = "OK" THEN Slice(z, d) ELSE <<>>]
<1>1. CASE z.tap = "reset"
  BY <1>1 DEF Latched, Fields, SameDrive, SameDevices
<1>2. CASE z.tap = "upIR"
  BY <1>2 DEF Latched, Fields, SameDrive, SameDevices
<1>3. CASE z.tap = "upDR"
  <2>. DEFINE taken == [d \in Devices |->
                 IF z.ir[d] \in Accesses /\ z.answer = "OK" THEN Slice(z, d) ELSE <<>>]
  <2>1. Latched(z) = [z EXCEPT !.taken = taken, !.line = <<>>]
    BY <1>3 DEF Latched
  <2>. HIDE DEF taken
  <2>2. /\ DOMAIN Latched(z) = Fields /\ Latched(z).tap = z.tap
        /\ SameDrive(Latched(z), z) /\ Latched(z).out = z.out
        /\ Latched(z).ir = z.ir /\ Latched(z).taken = taken
    BY <2>1 DEF Fields, SameDrive
  <2>. QED
    BY <1>3, <2>2 DEF taken
<1>4. CASE z.tap \notin {"reset", "upIR", "upDR"}
  BY <1>4 DEF Latched, Fields, SameDrive, SameDevices
<1>. QED
  BY <1>1, <1>2, <1>3, <1>4

\* One clock, by what it does to the devices.
LEMMA ClockFields ==
  ASSUME NEW s, DOMAIN s = Fields
  PROVE  /\ DOMAIN Clock(s) = Fields /\ Clock(s).tap = NextTap(s) /\ SameDrive(Clock(s), s)
         /\ NextTap(s) \notin {"reset", "upIR", "upDR"} => SameDevices(Clock(s), s)
         /\ s.tap \notin ShiftTaps => Clock(s).out = s.out
<1>1. PICK z : /\ Clock(s) = Latched(z) /\ DOMAIN z = Fields /\ z.tap = NextTap(s)
               /\ SameDrive(z, s) /\ SameDevices(z, s)
               /\ z.out = IF s.tap \in ShiftTaps THEN Append(s.out, Head(s.line)) ELSE s.out
               /\ s.tap \in ShiftTaps => z.line = Append(Tail(s.line), s.tdi)
               /\ s.tap \in {"capDR", "capIR"} => z.line = Captured(s)
  BY ClockBefore
<1>2. /\ DOMAIN Latched(z) = Fields /\ Latched(z).tap = z.tap
      /\ SameDrive(Latched(z), z) /\ Latched(z).out = z.out
      /\ z.tap \notin {"reset", "upIR", "upDR"} => SameDevices(Latched(z), z)
  BY <1>1, LatchedFields
<1>. QED
  BY <1>1, <1>2 DEF SameDrive, SameDevices

LEMMA ShiftClock ==
  ASSUME NEW s, DOMAIN s = Fields, s.tap \in ShiftTaps,
         NextTap(s) \notin {"reset", "upIR", "upDR"}
  PROVE  /\ Clock(s).line = Append(Tail(s.line), s.tdi)
         /\ Clock(s).out = Append(s.out, Head(s.line))
<1>1. PICK z : /\ Clock(s) = Latched(z) /\ DOMAIN z = Fields /\ z.tap = NextTap(s)
               /\ SameDrive(z, s) /\ SameDevices(z, s)
               /\ z.out = IF s.tap \in ShiftTaps THEN Append(s.out, Head(s.line)) ELSE s.out
               /\ s.tap \in ShiftTaps => z.line = Append(Tail(s.line), s.tdi)
               /\ s.tap \in {"capDR", "capIR"} => z.line = Captured(s)
  BY ClockBefore
<1>2. Latched(z).line = z.line /\ Latched(z).out = z.out
  BY <1>1, LatchedFields
<1>. QED
  BY <1>1, <1>2

LEMMA CaptureClock ==
  ASSUME NEW s, DOMAIN s = Fields, s.tap \in {"capDR", "capIR"},
         NextTap(s) \notin {"reset", "upIR", "upDR"}
  PROVE  Clock(s).line = Captured(s)
<1>1. PICK z : /\ Clock(s) = Latched(z) /\ DOMAIN z = Fields /\ z.tap = NextTap(s)
               /\ SameDrive(z, s) /\ SameDevices(z, s)
               /\ z.out = IF s.tap \in ShiftTaps THEN Append(s.out, Head(s.line)) ELSE s.out
               /\ s.tap \in ShiftTaps => z.line = Append(Tail(s.line), s.tdi)
               /\ s.tap \in {"capDR", "capIR"} => z.line = Captured(s)
  BY ClockBefore
<1>2. Latched(z).line = z.line /\ Latched(z).out = z.out
  BY <1>1, LatchedFields
<1>. QED
  BY <1>1, <1>2

\* Entering Update.
LEMMA UpdateClock ==
  ASSUME NEW s, DOMAIN s = Fields, s.tap \in {"ex1DR", "ex1IR"}, NextTap(s) \in {"upIR", "upDR"}
  PROVE  \E z : /\ z.tap = NextTap(s) /\ z.line = s.line /\ z.ir = s.ir
                /\ z.tap = "upIR" =>
                     /\ Clock(s).ir = [d \in Devices |-> Decoded(Slice(z, d))]
                     /\ Clock(s).taken = s.taken
                /\ z.tap = "upDR" =>
                     /\ Clock(s).ir = s.ir
                     /\ Clock(s).taken = [d \in Devices |->
                           IF s.ir[d] \in Accesses /\ s.answer = "OK" THEN Slice(z, d) ELSE <<>>]
<1>1. PICK z : /\ Clock(s) = Latched(z) /\ DOMAIN z = Fields /\ z.tap = NextTap(s)
               /\ SameDrive(z, s) /\ SameDevices(z, s)
               /\ s.tap \notin ShiftTaps \cup {"capDR", "capIR"} => z.line = s.line
  BY ClockBefore
<1>2. z.line = s.line /\ z.ir = s.ir /\ z.taken = s.taken /\ z.answer = s.answer
  BY <1>1 DEF ShiftTaps, SameDevices, SameDrive
<1>3. /\ z.tap = "upIR" =>
               /\ Latched(z).ir = [d \in Devices |-> Decoded(Slice(z, d))]
               /\ Latched(z).taken = z.taken
      /\ z.tap = "upDR" =>
               /\ Latched(z).ir = z.ir
               /\ Latched(z).taken = [d \in Devices |->
                     IF z.ir[d] \in Accesses /\ z.answer = "OK" THEN Slice(z, d) ELSE <<>>]
  BY <1>1, LatchedFields
<1>4. /\ z.tap = "upIR" =>
            /\ Clock(s).ir = [d \in Devices |-> Decoded(Slice(z, d))]
            /\ Clock(s).taken = s.taken
      /\ z.tap = "upDR" =>
            /\ Clock(s).ir = s.ir
            /\ Clock(s).taken = [d \in Devices |->
                  IF s.ir[d] \in Accesses /\ s.answer = "OK" THEN Slice(z, d) ELSE <<>>]
  BY <1>1, <1>2, <1>3, Zenon
<1>. QED
  BY <1>1, <1>2, <1>4, Zenon

(***************************************************************************)
(* Walks through the TAP states.                                           *)
(***************************************************************************)

LEMMA RunNext ==
  ASSUME NEW s
  PROVE  Run(s, 0) = s /\ \A n \in Nat : Run(s, n + 1) = Clock(Run(s, n))
BY Pulses!Unrolled DEF Run

LEMMA FewClocks ==
  ASSUME NEW s
  PROVE  Run(s, 1) = Clock(s) /\ Run(s, 2) = Clock(Clock(s))
<1>1. Run(s, 0 + 1) = Clock(Run(s, 0)) /\ Run(s, 1 + 1) = Clock(Run(s, 1)) /\ Run(s, 0) = s
  BY RunNext
<1>. QED
  BY <1>1

LEMMA RunOn ==
  ASSUME NEW s, NEW m \in Nat, NEW n \in Nat
  PROVE  Run(s, m + n) = Run(Run(s, m), n)
<1>. DEFINE T == {k \in Nat : Run(s, m + k) = Run(Run(s, m), k)}
<1>1. 0 \in T
  BY RunNext
<1>2. ASSUME NEW k \in T PROVE k + 1 \in T
  <2>1. k \in Nat /\ m + k \in Nat /\ m + (k + 1) = (m + k) + 1
    OBVIOUS
  <2>2. Run(s, (m + k) + 1) = Clock(Run(s, m + k))
    BY <2>1, RunNext
  <2>3. Run(Run(s, m), k + 1) = Clock(Run(Run(s, m), k))
    BY <2>1, RunNext
  <2>4. Run(s, m + k) = Run(Run(s, m), k)
    OBVIOUS
  <2>5. Run(s, m + (k + 1)) = Run(Run(s, m), k + 1)
    BY <2>1, <2>2, <2>3, <2>4
  <2>. QED
    BY <2>1, <2>5
<1>3. T \in SUBSET Nat
  OBVIOUS
<1>. HIDE DEF T
<1>4. T = Nat
  BY <1>1, <1>2, <1>3, Pulses!Induction
<1>. QED
  BY <1>4 DEF T

LEMMA WriteOne ==
  ASSUME NEW s, NEW b
  PROVE  Write(s, <<b>>) = Clock(Tdi(s, b))
<1>. DEFINE x == <<b>>
<1>1. x[1] = b /\ Len(x) = 1
  OBVIOUS
<1>. HIDE DEF x
<1>2. Shifts!Iterated(s, x, 0 + 1) = Clock(Tdi(Shifts!Iterated(s, x, 0), x[0 + 1]))
      /\ Shifts!Iterated(s, x, 0) = s
  BY Shifts!Unrolled
<1>3. Write(s, x) = Clock(Tdi(s, b))
  BY <1>1, <1>2 DEF Write
<1>. QED
  BY <1>3 DEF x

LEMMA WriteNext ==
  ASSUME NEW s, NEW b
  PROVE  /\ Shifts!Iterated(s, b, 0) = s
         /\ \A n \in Nat :
               Shifts!Iterated(s, b, n + 1) = Clock(Tdi(Shifts!Iterated(s, b, n), b[n + 1]))
BY Shifts!Unrolled

\* What every clock between a capture and an update leaves alone.
Scanning(v, s) ==
    /\ DOMAIN v = Fields /\ v.tap = s.tap /\ v.answer = s.answer
    /\ v.ir = s.ir /\ v.taken = s.taken

\* With TMS low the controllers stay in Shift.
LEMMA ShiftStays ==
  ASSUME NEW s, DOMAIN s = Fields, s.tap \in ShiftTaps, ~s.tms
  PROVE  /\ Scanning(Clock(s), s) /\ Clock(s).tms = s.tms /\ Clock(s).tdi = s.tdi
         /\ NextTap(s) = s.tap
<1>1. NextTap(s) = s.tap /\ NextTap(s) \notin {"reset", "upIR", "upDR"}
  BY DEF NextTap, TapLow, ShiftTaps
<1>. QED
  BY <1>1, ClockFields DEF Scanning, SameDrive, SameDevices

LEMMA RunStays ==
  ASSUME NEW s, DOMAIN s = Fields, s.tap \in ShiftTaps, ~s.tms, NEW n \in Nat
  PROVE  Scanning(Run(s, n), s) /\ Run(s, n).tms = s.tms /\ Run(s, n).tdi = s.tdi
<1>. DEFINE Good(v) == Scanning(v, s) /\ v.tms = s.tms /\ v.tdi = s.tdi
            T == {k \in Nat : Good(Run(s, k))}
<1>1. 0 \in T
  BY RunNext DEF Scanning
<1>2. ASSUME NEW k \in T PROVE k + 1 \in T
  <2>. DEFINE v == Run(s, k)
  <2>1. k \in Nat /\ Good(v)
    OBVIOUS
  <2>2. Run(s, k + 1) = Clock(v)
    BY <2>1, RunNext
  <2>. HIDE DEF v
  <2>3. Scanning(Clock(v), v) /\ Clock(v).tms = v.tms /\ Clock(v).tdi = v.tdi
    BY <2>1, ShiftStays DEF Scanning
  <2>. QED
    BY <2>1, <2>2, <2>3 DEF Scanning
<1>3. T \in SUBSET Nat
  OBVIOUS
<1>. HIDE DEF T
<1>4. T = Nat
  BY <1>1, <1>2, <1>3, Pulses!Induction
<1>. QED
  BY <1>4 DEF T

LEMMA WriteStays ==
  ASSUME NEW s, DOMAIN s = Fields, s.tap \in ShiftTaps, ~s.tms, NEW b, Len(b) \in Nat
  PROVE  /\ Scanning(Write(s, b), s) /\ Write(s, b).tms = s.tms
         /\ Len(b) > 0 => Write(s, b).tdi = b[Len(b)]
<1>. DEFINE W(k) == Shifts!Iterated(s, b, k)
            Good(v, k) == Scanning(v, s) /\ v.tms = s.tms /\ (k > 0 => v.tdi = b[k])
            T == {k \in Nat : Good(W(k), k)}
<1>0. \A n \in Nat : W(n + 1) = Clock(Tdi(W(n), b[n + 1]))
  BY WriteNext, ZenonT(20)
<1>1. 0 \in T
  BY WriteNext DEF Scanning
<1>2. ASSUME NEW k \in T PROVE k + 1 \in T
  <2>. DEFINE v == W(k)
              x == b[k + 1]
              u == Tdi(v, x)
  <2>1. k \in Nat /\ Good(v, k)
    OBVIOUS
  <2>2. W(k + 1) = Clock(u)
    BY <1>0, <2>1
  <2>. HIDE DEF v, x
  <2>3. DOMAIN u = Fields /\ u.tap = v.tap /\ u.tms = v.tms /\ u.tdi = x /\ u.answer = v.answer
        /\ u.ir = v.ir /\ u.taken = v.taken
    BY <2>1, PinFields DEF Scanning, SameDevices
  <2>. HIDE DEF u
  <2>4. Scanning(Clock(u), u) /\ Clock(u).tms = u.tms /\ Clock(u).tdi = u.tdi
    BY <2>1, <2>3, ShiftStays DEF Scanning
  <2>5. Good(Clock(u), k + 1)
    BY <2>1, <2>3, <2>4 DEF Scanning, x
  <2>. HIDE DEF Good, W
  <2>. QED
    BY <2>1, <2>2, <2>5
<1>3. T \in SUBSET Nat
  OBVIOUS
<1>. HIDE DEF T
<1>4. T = Nat
  BY <1>1, <1>2, <1>3, Shifts!Induction
<1>5. Good(W(Len(b)), Len(b))
  <2>. HIDE DEF Good, W
  <2>. QED
    BY <1>4 DEF T
<1>. QED
  BY <1>5 DEF Write

Raised(s) == Tms(s, TRUE)
Lowered(s) == Tms(s, FALSE)

\* The same but for TMS.
SameButTms(v, s) ==
    /\ DOMAIN v = Fields /\ v.tap = s.tap /\ v.tdi = s.tdi /\ v.line = s.line /\ v.out = s.out
    /\ v.answer = s.answer /\ v.ir = s.ir /\ v.taken = s.taken

LEMMA TmsFields ==
  ASSUME NEW s, DOMAIN s = Fields
  PROVE  /\ SameButTms(Raised(s), s) /\ Raised(s).tms
         /\ SameButTms(Lowered(s), s) /\ ~Lowered(s).tms
BY DEF Raised, Lowered, SameButTms, Tms, Fields

\* A clock outside of a scan.
LEMMA IdleClock ==
  ASSUME NEW s, DOMAIN s = Fields, s.tap \notin ShiftTaps,
         NextTap(s) \notin {"reset", "upIR", "upDR"}
  PROVE  LET v == Clock(s)
         IN  /\ DOMAIN v = Fields /\ v.tap = NextTap(s) /\ v.tms = s.tms /\ v.tdi = s.tdi
             /\ v.answer = s.answer /\ v.ir = s.ir /\ v.taken = s.taken /\ v.out = s.out
BY ClockFields DEF SameDrive, SameDevices

\* From Run-Test/Idle to Shift-IR, through Capture-IR.
LEMMA ToShiftIR ==
  ASSUME NEW s, DOMAIN s = Fields, s.tap = "idle"
  PROVE  LET v == Run(Lowered(Run(Raised(s), 2)), 2)
         IN  /\ DOMAIN v = Fields /\ v.tap = "shIR" /\ ~v.tms /\ v.tdi = s.tdi
             /\ v.answer = s.answer /\ v.ir = s.ir /\ v.taken = s.taken /\ v.out = s.out
             /\ \E q : q.tap = "capIR" /\ q.ir = s.ir /\ v.line = Captured(q)
<1>. DEFINE a == Raised(s)
            b == Clock(a)
            c == Clock(b)
            d == Lowered(c)
            e == Clock(d)
            f == Clock(e)
            Same(x) == /\ DOMAIN x = Fields /\ x.tdi = s.tdi /\ x.answer = s.answer
                       /\ x.ir = s.ir /\ x.taken = s.taken /\ x.out = s.out
<1>1. Same(a) /\ a.tap = "idle" /\ a.tms
  BY TmsFields DEF SameButTms
<1>2. Same(b) /\ b.tap = "selDR" /\ b.tms
  <2>1. NextTap(a) = "selDR" /\ a.tap \notin ShiftTaps
    BY <1>1 DEF NextTap, TapHigh, ShiftTaps
  <2>. HIDE DEF a
  <2>. QED
    BY <1>1, <2>1, IdleClock
<1>3. Same(c) /\ c.tap = "selIR" /\ c.tms
  <2>1. NextTap(b) = "selIR" /\ b.tap \notin ShiftTaps
    BY <1>2 DEF NextTap, TapHigh, ShiftTaps
  <2>. HIDE DEF b
  <2>. QED
    BY <1>2, <2>1, IdleClock
<1>4. Same(d) /\ d.tap = "selIR" /\ ~d.tms
  <2>. HIDE DEF c
  <2>. QED
    BY <1>3, TmsFields DEF SameButTms
<1>5. Same(e) /\ e.tap = "capIR" /\ ~e.tms
  <2>1. NextTap(d) = "capIR" /\ d.tap \notin ShiftTaps
    BY <1>4 DEF NextTap, TapLow, ShiftTaps
  <2>. HIDE DEF d
  <2>. QED
    BY <1>4, <2>1, IdleClock
<1>6. Same(f) /\ f.tap = "shIR" /\ ~f.tms /\ f.line = Captured(e)
  <2>1. NextTap(e) = "shIR" /\ e.tap \notin ShiftTaps
    BY <1>5 DEF NextTap, TapLow, ShiftTaps
  <2>. HIDE DEF e
  <2>. QED
    BY <1>5, <2>1, IdleClock, CaptureClock
<1>7. Run(Lowered(Run(Raised(s), 2)), 2) = f
  BY FewClocks
<1>. HIDE DEF e, f
<1>. QED
  BY <1>5, <1>6, <1>7

\* From Run-Test/Idle to Shift-DR, through Capture-DR.
LEMMA ToShiftDR ==
  ASSUME NEW s, DOMAIN s = Fields, s.tap = "idle"
  PROVE  LET v == Run(Lowered(Run(Raised(s), 1)), 2)
         IN  /\ DOMAIN v = Fields /\ v.tap = "shDR" /\ ~v.tms /\ v.tdi = s.tdi
             /\ v.answer = s.answer /\ v.ir = s.ir /\ v.taken = s.taken /\ v.out = s.out
             /\ \E q : q.tap = "capDR" /\ q.ir = s.ir /\ v.line = Captured(q)
<1>. DEFINE a == Raised(s)
            b == Clock(a)
            d == Lowered(b)
            e == Clock(d)
            f == Clock(e)
            Same(x) == /\ DOMAIN x = Fields /\ x.tdi = s.tdi /\ x.answer = s.answer
                       /\ x.ir = s.ir /\ x.taken = s.taken /\ x.out = s.out
<1>1. Same(a) /\ a.tap = "idle" /\ a.tms
  BY TmsFields DEF SameButTms
<1>2. Same(b) /\ b.tap = "selDR" /\ b.tms
  <2>1. NextTap(a) = "selDR" /\ a.tap \notin ShiftTaps
    BY <1>1 DEF NextTap, TapHigh, ShiftTaps
  <2>. HIDE DEF a
  <2>. QED
    BY <1>1, <2>1, IdleClock
<1>4. Same(d) /\ d.tap = "selDR" /\ ~d.tms
  <2>. HIDE DEF b
  <2>. QED
    BY <1>2, TmsFields DEF SameButTms
<1>5. Same(e) /\ e.tap = "capDR" /\ ~e.tms
  <2>1. NextTap(d) = "capDR" /\ d.tap \notin ShiftTaps
    BY <1>4 DEF NextTap, TapLow, ShiftTaps
  <2>. HIDE DEF d
  <2>. QED
    BY <1>4, <2>1, IdleClock
<1>6. Same(f) /\ f.tap = "shDR" /\ ~f.tms /\ f.line = Captured(e)
  <2>1. NextTap(e) = "shDR" /\ e.tap \notin ShiftTaps
    BY <1>5 DEF NextTap, TapLow, ShiftTaps
  <2>. HIDE DEF e
  <2>. QED
    BY <1>5, <2>1, IdleClock, CaptureClock
<1>7. Run(Lowered(Run(Raised(s), 1)), 2) = f
  BY FewClocks
<1>. HIDE DEF e, f
<1>. QED
  BY <1>5, <1>6, <1>7

Ex1(tap) == IF tap = "shIR" THEN "ex1IR" ELSE "ex1DR"

\* The last bit of a scan is shifted on the way out.
LEMMA ExitClock ==
  ASSUME NEW s, DOMAIN s = Fields, s.tap \in ShiftTaps, s.tms
  PROVE  LET v == Clock(s)
         IN  /\ DOMAIN v = Fields /\ v.tap = Ex1(s.tap) /\ v.tms /\ v.tdi = s.tdi
             /\ v.answer = s.answer /\ v.ir = s.ir /\ v.taken = s.taken
             /\ NextTap(s) \notin {"reset", "upIR", "upDR"}
<1>1. NextTap(s) = Ex1(s.tap) /\ NextTap(s) \notin {"reset", "upIR", "upDR"}
  BY DEF NextTap, TapHigh, ShiftTaps, Ex1
<1>. QED
  BY <1>1, ClockFields DEF SameDrive, SameDevices

\* Out of a scan: Update, then Run-Test/Idle.
LEMMA FinishFields ==
  ASSUME NEW s, DOMAIN s = Fields, s.tap \in {"ex1DR", "ex1IR"}, s.tms
  PROVE  LET v == Finish(s)
         IN  /\ DOMAIN v = Fields /\ v.tap = "idle" /\ ~v.tms /\ v.tdi = One
             /\ v.answer = s.answer /\ v.out = s.out
             /\ s.tap = "ex1IR" =>
                  /\ \E z : /\ z.tap = "upIR" /\ z.line = s.line
                            /\ v.ir = [d \in Devices |-> Decoded(Slice(z, d))]
                  /\ v.taken = s.taken
             /\ s.tap = "ex1DR" =>
                  /\ \E z : /\ z.tap = "upDR" /\ z.line = s.line /\ z.ir = s.ir
                            /\ v.taken = [d \in Devices |->
                                 IF s.ir[d] \in Accesses /\ s.answer = "OK"
                                 THEN Slice(z, d) ELSE <<>>]
                  /\ v.ir = s.ir
<1>. DEFINE a == Clock(s)
            b == Lowered(a)
            c == Clock(b)
            d == Tdi(c, One)
<1>1. /\ NextTap(s) = (IF s.tap = "ex1IR" THEN "upIR" ELSE "upDR")
      /\ s.tap \notin ShiftTaps
  BY DEF NextTap, TapHigh, ShiftTaps
<1>2. /\ DOMAIN a = Fields /\ a.tap = NextTap(s) /\ a.answer = s.answer /\ a.out = s.out
  BY <1>1, ClockFields DEF SameDrive
<1>3. PICK z : /\ z.tap = NextTap(s) /\ z.line = s.line /\ z.ir = s.ir
               /\ z.tap = "upIR" =>
                     /\ a.ir = [j \in Devices |-> Decoded(Slice(z, j))]
                     /\ a.taken = s.taken
               /\ z.tap = "upDR" =>
                     /\ a.ir = s.ir
                     /\ a.taken = [j \in Devices |->
                           IF s.ir[j] \in Accesses /\ s.answer = "OK" THEN Slice(z, j) ELSE <<>>]
  BY <1>1, UpdateClock
<1>. HIDE DEF a
<1>4. SameButTms(b, a) /\ ~b.tms
  BY <1>2, TmsFields
<1>. HIDE DEF b
<1>5. NextTap(b) = "idle" /\ b.tap \notin ShiftTaps /\ DOMAIN b = Fields
  BY <1>1, <1>2, <1>4 DEF NextTap, TapLow, ShiftTaps, SameButTms
<1>6. /\ DOMAIN c = Fields /\ c.tap = "idle" /\ ~c.tms /\ c.answer = a.answer /\ c.out = a.out
      /\ c.ir = a.ir /\ c.taken = a.taken
  BY <1>4, <1>5, IdleClock DEF SameButTms
<1>. HIDE DEF c
<1>7. /\ DOMAIN d = Fields /\ d.tap = "idle" /\ ~d.tms /\ d.answer = a.answer /\ d.out = a.out
      /\ d.ir = a.ir /\ d.taken = a.taken /\ d.tdi = One
  BY <1>6, PinFields DEF SameDevices
<1>8. Finish(s) = d
  BY FewClocks DEF Finish, a, b, c, Lowered
<1>. HIDE DEF d
<1>9. /\ s.tap = "ex1IR" => z.tap = "upIR" /\ z.tap # "upDR"
      /\ s.tap = "ex1DR" => z.tap = "upDR" /\ z.tap # "upIR"
  BY <1>1, <1>3
<1>10. s.tap = "ex1IR" =>
          /\ z.tap = "upIR" /\ z.line = s.line /\ d.taken = s.taken
          /\ d.ir = [j \in Devices |-> Decoded(Slice(z, j))]
  BY <1>3, <1>7, <1>9, Zenon
<1>11. s.tap = "ex1DR" =>
          /\ z.tap = "upDR" /\ z.line = s.line /\ z.ir = s.ir /\ d.ir = s.ir
          /\ d.taken = [j \in Devices |->
                IF s.ir[j] \in Accesses /\ s.answer = "OK" THEN Slice(z, j) ELSE <<>>]
  BY <1>3, <1>7, <1>9, Zenon
<1>12. /\ DOMAIN d = Fields /\ d.tap = "idle" /\ ~d.tms /\ d.tdi = One
       /\ d.answer = s.answer /\ d.out = s.out
  BY <1>2, <1>7
<1>. QED
  BY <1>8, <1>10, <1>11, <1>12, Zenon

(***************************************************************************)
(* What is in the chain during a scan.                                     *)
(***************************************************************************)

Sources == {"one", "low", "device", "request", "IDCODE"} \cup Accesses \cup Kinds
Tokens == Sources \X Nat \X Nat

\* n bits of X have been pushed into the chain, which held c, and as many have come
\* out, after m others.
Fed(s, c, X, m, n) ==
    /\ n <= Len(c)
    /\ s.line \in Seq(Tokens) /\ Len(s.line) = Len(c)
    /\ \A k \in 1 .. Len(c) :
          s.line[k] = IF n + k <= Len(c) THEN c[n + k] ELSE X[(n + k) - Len(c)]
    /\ s.out \in Seq(Tokens) /\ Len(s.out) = m + n
    /\ \A k \in 1 .. n : s.out[m + k] = c[k]

LEMMA FedPins ==
  ASSUME NEW s, NEW v, NEW c, NEW X, NEW m, NEW n, v.line = s.line, v.out = s.out,
         Fed(s, c, X, m, n)
  PROVE  Fed(v, c, X, m, n)
BY DEF Fed

LEMMA FedStart ==
  ASSUME NEW s, NEW X, s.line \in Seq(Tokens), s.out \in Seq(Tokens)
  PROVE  Fed(s, s.line, X, Len(s.out), 0)
BY DEF Fed

LEMMA Pushed ==
  ASSUME NEW line \in Seq(Tokens), NEW t \in Tokens, Len(line) > 0
  PROVE  LET y == Append(Tail(line), t)
         IN  /\ y \in Seq(Tokens) /\ Len(y) = Len(line)
             /\ \A k \in 1 .. Len(line) : y[k] = IF k = Len(line) THEN t ELSE line[k + 1]
             /\ Head(line) = line[1] /\ line[1] \in Tokens
<1>. DEFINE z == Tail(line)
<1>1. z \in Seq(Tokens) /\ Len(z) = Len(line) - 1 /\ \A k \in 1 .. Len(z) : z[k] = line[k + 1]
  OBVIOUS
<1>2. Head(line) = line[1] /\ line[1] \in Tokens /\ Len(line) \in Nat
  OBVIOUS
<1>. HIDE DEF z
<1>3. /\ Append(z, t) \in Seq(Tokens) /\ Len(Append(z, t)) = Len(z) + 1
      /\ \A k \in 1 .. Len(z) + 1 : Append(z, t)[k] = IF k = Len(z) + 1 THEN t ELSE z[k]
  BY <1>1
<1>4. ASSUME NEW k \in 1 .. Len(line)
      PROVE  Append(z, t)[k] = IF k = Len(line) THEN t ELSE line[k + 1]
  <2>1. CASE k = Len(line)
    BY <1>1, <1>2, <1>3, <2>1
  <2>2. CASE k # Len(line)
    <3>1. k \in 1 .. Len(z) /\ k # Len(z) + 1 /\ k \in 1 .. Len(z) + 1
      BY <1>1, <1>2, <2>2
    <3>. QED
      BY <1>1, <1>3, <2>2, <3>1
  <2>. QED
    BY <2>1, <2>2
<1>5. Append(z, t) \in Seq(Tokens) /\ Len(Append(z, t)) = Len(line)
  BY <1>1, <1>2, <1>3
<1>. QED
  BY <1>2, <1>4, <1>5 DEF z

LEMMA FedClock ==
  ASSUME NEW s, DOMAIN s = Fields, s.tap \in ShiftTaps,
         NextTap(s) \notin {"reset", "upIR", "upDR"},
         NEW c \in Seq(Tokens), NEW X, NEW m \in Nat, NEW n \in Nat,
         Fed(s, c, X, m, n), n < Len(c), s.tdi \in Tokens, X[n + 1] = s.tdi
  PROVE  Fed(Clock(s), c, X, m, n + 1)
<1>. DEFINE line == s.line
            out == s.out
            L == Len(c)
            t == s.tdi
            y == Append(Tail(line), t)
            o == Append(out, line[1])
<1>0. Clock(s).line = y /\ Clock(s).out = Append(out, Head(line))
  BY ShiftClock
<1>1. /\ line \in Seq(Tokens) /\ Len(line) = L /\ L \in Nat
      /\ \A k \in 1 .. L : line[k] = IF n + k <= L THEN c[n + k] ELSE X[(n + k) - L]
      /\ out \in Seq(Tokens) /\ Len(out) = m + n
      /\ \A k \in 1 .. n : out[m + k] = c[k]
      /\ X[n + 1] = t /\ t \in Tokens /\ n < L
  BY DEF Fed
<1>2. \A k \in 1 .. L : k + 1 \in 1 .. L => line[k + 1] = IF n + (k + 1) <= L THEN c[n + (k + 1)] ELSE X[(n + (k + 1)) - L]
  BY <1>1
<1>. HIDE DEF line, out, L, t
<1>3. /\ y \in Seq(Tokens) /\ Len(y) = L
      /\ \A k \in 1 .. L : y[k] = IF k = L THEN t ELSE line[k + 1]
      /\ Head(line) = line[1] /\ line[1] \in Tokens
  BY <1>1, Pushed
<1>4. line[1] = c[n + 1]
  <2>1. 1 \in 1 .. L /\ n + 1 <= L
    BY <1>1
  <2>. QED
    BY <1>1, <2>1
<1>5. o \in Seq(Tokens) /\ Len(o) = m + n + 1
      /\ \A k \in 1 .. m + n + 1 : o[k] = IF k = m + n + 1 THEN line[1] ELSE out[k]
  <2>. DEFINE t1 == line[1]
  <2>1. t1 \in Tokens
    BY <1>3
  <2>. HIDE DEF t1
  <2>2. out \in Seq(Tokens) /\ Len(out) = m + n /\ m + n \in Nat
    BY <1>1
  <2>3. /\ Append(out, t1) \in Seq(Tokens) /\ Len(Append(out, t1)) = Len(out) + 1
        /\ \A k \in 1 .. Len(out) + 1 : Append(out, t1)[k] = IF k = Len(out) + 1 THEN t1 ELSE out[k]
    BY ONLY <2>1, <2>2
  <2>4. /\ Append(out, t1) \in Seq(Tokens) /\ Len(Append(out, t1)) = m + n + 1
        /\ \A k \in 1 .. m + n + 1 : Append(out, t1)[k] = IF k = m + n + 1 THEN t1 ELSE out[k]
    BY <2>2, <2>3
  <2>. QED
    BY <2>4 DEF t1
<1>. HIDE DEF y, o
<1>6. ASSUME NEW k \in 1 .. L
      PROVE  y[k] = IF (n + 1) + k <= L THEN c[(n + 1) + k] ELSE X[((n + 1) + k) - L]
  <2>0. n + (k + 1) = (n + 1) + k /\ k \in Nat
    OBVIOUS
  <2>1. CASE k = L
    <3>1. ~((n + 1) + k <= L) /\ ((n + 1) + k) - L = n + 1
      BY <1>1, <2>1
    <3>. QED
      BY <1>1, <1>3, <2>1, <3>1
  <2>2. CASE k # L
    <3>1. k + 1 \in 1 .. L
      BY <1>1, <2>2
    <3>2. y[k] = IF n + (k + 1) <= L THEN c[n + (k + 1)] ELSE X[(n + (k + 1)) - L]
      BY <1>2, <1>3, <2>2, <3>1, SMTT(20)
    <3>. QED
      BY <2>0, <3>2, Zenon
  <2>. QED
    BY <2>1, <2>2
<1>7. ASSUME NEW k \in 1 .. n + 1 PROVE o[m + k] = c[k]
  <2>1. CASE k = n + 1
    <3>1. m + k = m + n + 1 /\ m + k \in 1 .. m + n + 1
      BY <2>1
    <3>. QED
      BY <1>4, <1>5, <2>1, <3>1
  <2>2. CASE k # n + 1
    <3>1. m + k # m + n + 1 /\ m + k \in 1 .. m + n + 1 /\ k \in 1 .. n
      BY <2>2
    <3>. QED
      BY <1>1, <1>5, <3>1
  <2>. QED
    BY <2>1, <2>2
<1>8. Clock(s).line = y /\ Clock(s).out = o
  BY <1>0, <1>3 DEF o, y
<1>9. n + 1 <= L /\ m + n + 1 = m + (n + 1)
  BY <1>1
<1>10. Fed(Clock(s), c, X, m, n + 1)
  BY <1>3, <1>5, <1>6, <1>7, <1>8, <1>9 DEF Fed, L
<1>. QED
  BY <1>10

LEMMA RunFed ==
  ASSUME NEW s, DOMAIN s = Fields, s.tap \in ShiftTaps, ~s.tms,
         NEW c \in Seq(Tokens), NEW X, NEW m \in Nat, NEW n \in Nat, NEW r \in Nat,
         Fed(s, c, X, m, n), n + r <= Len(c), s.tdi \in Tokens,
         \A j \in 1 .. r : X[n + j] = s.tdi
  PROVE  Fed(Run(s, r), c, X, m, n + r)
<1>. DEFINE T == {k \in Nat : k <= r => Fed(Run(s, k), c, X, m, n + k)}
<1>1. 0 \in T
  BY RunNext
<1>2. ASSUME NEW k \in T PROVE k + 1 \in T
  <2>. DEFINE v == Run(s, k)
  <2>1. k \in Nat /\ (k <= r => Fed(v, c, X, m, n + k))
    OBVIOUS
  <2>2. Run(s, k + 1) = Clock(v)
    BY <2>1, RunNext
  <2>3. Scanning(v, s) /\ v.tms = s.tms /\ v.tdi = s.tdi
    BY <2>1, RunStays
  <2>. HIDE DEF v
  <2>4. ASSUME k + 1 <= r PROVE Fed(Clock(v), c, X, m, n + (k + 1))
    <3>1. /\ k <= r /\ n + k \in Nat /\ n + k < Len(c) /\ (n + k) + 1 = n + (k + 1)
          /\ k + 1 \in 1 .. r /\ Len(c) \in Nat
      BY <2>1, <2>4
    <3>2. DOMAIN v = Fields /\ v.tap \in ShiftTaps /\ ~v.tms
      BY <2>3 DEF Scanning
    <3>3. NextTap(v) \notin {"reset", "upIR", "upDR"}
      BY <3>2 DEF NextTap, TapLow, ShiftTaps
    <3>4. X[(n + k) + 1] = v.tdi /\ v.tdi \in Tokens
      BY <2>3, <3>1
    <3>5. Fed(Clock(v), c, X, m, (n + k) + 1)
      BY <2>1, <3>1, <3>2, <3>3, <3>4, FedClock
    <3>. QED
      BY <3>1, <3>5
  <2>. QED
    BY <2>1, <2>2, <2>4
<1>3. T \in SUBSET Nat
  OBVIOUS
<1>. HIDE DEF T
<1>4. T = Nat
  BY <1>1, <1>2, <1>3, Pulses!Induction
<1>. QED
  BY <1>4 DEF T

LEMMA WriteFed ==
  ASSUME NEW s, DOMAIN s = Fields, s.tap \in ShiftTaps, ~s.tms,
         NEW c \in Seq(Tokens), NEW X, NEW m \in Nat, NEW n \in Nat, NEW b \in Seq(Tokens),
         Fed(s, c, X, m, n), n + Len(b) <= Len(c),
         \A j \in 1 .. Len(b) : X[n + j] = b[j]
  PROVE  Fed(Write(s, b), c, X, m, n + Len(b))
<1>. DEFINE W(k) == Shifts!Iterated(s, b, k)
            Good(v, k) == /\ DOMAIN v = Fields /\ v.tap \in ShiftTaps /\ ~v.tms
                          /\ Fed(v, c, X, m, n + k)
            T == {k \in Nat : k <= Len(b) => Good(W(k), k)}
<1>0. \A k \in Nat : W(k + 1) = Clock(Tdi(W(k), b[k + 1]))
  BY WriteNext
<1>1. 0 \in T
  <2>1. W(0) = s /\ n + 0 = n
    BY WriteNext
  <2>. HIDE DEF W
  <2>. QED
    BY <2>1
<1>2. ASSUME NEW k \in T PROVE k + 1 \in T
  <2>. DEFINE v == W(k)
              x == b[k + 1]
              u == Tdi(v, x)
  <2>1. k \in Nat /\ (k <= Len(b) => Good(v, k))
    OBVIOUS
  <2>2. W(k + 1) = Clock(u)
    BY <1>0, <2>1
  <2>. HIDE DEF v
  <2>4. ASSUME k + 1 <= Len(b) PROVE Good(Clock(u), k + 1)
    <3>1. /\ k <= Len(b) /\ n + k \in Nat /\ n + k < Len(c) /\ (n + k) + 1 = n + (k + 1)
          /\ k + 1 \in 1 .. Len(b) /\ Len(c) \in Nat /\ x \in Tokens
      BY <2>1, <2>4
    <3>2. Good(v, k)
      BY <2>1, <3>1
    <3>3. X[(n + k) + 1] = x
      BY <3>1
    <3>. HIDE DEF x
    <3>4. DOMAIN u = Fields /\ u.tap = v.tap /\ u.tms = v.tms /\ u.tdi = x
          /\ u.line = v.line /\ u.out = v.out
      BY <3>2, PinFields
    <3>. HIDE DEF u
    <3>5. NextTap(u) \notin {"reset", "upIR", "upDR"} /\ u.tap \in ShiftTaps /\ ~u.tms
      BY <3>2, <3>4 DEF NextTap, TapLow, ShiftTaps
    <3>6. Fed(u, c, X, m, n + k)
      BY <3>2, <3>4, FedPins
    <3>7. Fed(Clock(u), c, X, m, (n + k) + 1)
      BY <3>1, <3>3, <3>4, <3>5, <3>6, FedClock
    <3>8. Scanning(Clock(u), u) /\ Clock(u).tms = u.tms
      BY <3>4, <3>5, ShiftStays
    <3>. QED
      BY <3>1, <3>5, <3>7, <3>8 DEF Scanning
  <2>. HIDE DEF Good, W, u
  <2>. QED
    BY <2>1, <2>2, <2>4
<1>3. T \in SUBSET Nat
  OBVIOUS
<1>. HIDE DEF T
<1>4. T = Nat
  BY <1>1, <1>2, <1>3, Shifts!Induction
<1>5. Good(W(Len(b)), Len(b))
  <2>. HIDE DEF Good, W
  <2>. QED
    BY <1>4 DEF T
<1>. QED
  BY <1>5 DEF Write

LEMMA SumsNext ==
  ASSUME NEW z, NEW q
  PROVE  /\ Sums!Iterated(z, q, 0) = z
         /\ \A n \in Nat :
               Sums!Iterated(z, q, n + 1) = Sums!Iterated(z, q, n) + Length(q, (n + 1) - 1)
BY Sums!Unrolled

LEMMA StartsFrom ==
  ASSUME NEW q
  PROVE  \A z : (\A d \in Nat : Start(q, d) = Sums!Iterated(z, q, d)) =>
         /\ Start(q, 0) = z
         /\ \A d \in Nat : Start(q, d + 1) = Start(q, d) + Length(q, d)
<1>. SUFFICES ASSUME NEW z, \A d \in Nat : Start(q, d) = Sums!Iterated(z, q, d)
              PROVE  /\ Start(q, 0) = z
                     /\ \A d \in Nat : Start(q, d + 1) = Start(q, d) + Length(q, d)
  BY Zenon
<1>1. \A n \in Nat : Sums!Iterated(z, q, n + 1) = Sums!Iterated(z, q, n) + Length(q, (n + 1) - 1)
  BY SumsNext
<1>2. Sums!Iterated(z, q, 0) = z
  BY SumsNext
<1>3. 0 \in Nat /\ \A n \in Nat : (n + 1) - 1 = n /\ n + 1 \in Nat
  OBVIOUS
<1>. QED
  BY <1>1, <1>2, <1>3, Zenon

LEMMA Starts ==
  ASSUME NEW q
  PROVE  /\ Start(q, 0) = 1
         /\ \A d \in Nat : Start(q, d + 1) = Start(q, d) + Length(q, d)
<1>1. \A d \in Nat : Start(q, d) = Sums!Iterated(1, q, d)
  BY DEF Start
<1>. QED
  BY <1>1, StartsFrom, Zenon

\* The registers have at least one bit each, and follow one another.
Wide(q) == \A d \in Devices : Length(q, d) \in Nat \ {0}

LEMMA ChainLength ==
  ASSUME Inv
  PROVE  Len(chain) \in Nat /\ Len(chain) \in 1 .. DevCount /\ \A d \in Devices : chain[d + 1] \in Nat \ {0}
<1>1. chain \in Seq(IrLengths \ {0}) /\ Len(chain) \in 1 .. DevCount /\ IrLengths \subseteq Nat
  BY JtagAssumption DEF Inv, TypeOK
<1>2. DevCount \in Nat
  BY Constants
<1>. DEFINE L == Len(chain)
<1>3. L \in Nat /\ \A k \in 1 .. L : chain[k] \in IrLengths \ {0}
  BY <1>1
<1>. HIDE DEF L
<1>4. ASSUME NEW d \in Devices PROVE chain[d + 1] \in IrLengths \ {0}
  <2>1. d + 1 \in 1 .. L
    BY <1>3 DEF Devices, L
  <2>. QED
    BY <1>3, <2>1
<1>. QED
  BY <1>1, <1>3, <1>4 DEF L

LEMMA StartsRise ==
  ASSUME Inv, NEW q, Wide(q)
  PROVE  /\ \A e \in 0 .. Len(chain) : Start(q, e) \in Nat \ {0}
         /\ \A e \in 0 .. Len(chain) : \A d \in 0 .. e - 1 :
               Start(q, d) + Length(q, d) <= Start(q, e)
<1>. DEFINE Q(e) == /\ \A d \in 0 .. e : Start(q, d) \in Nat \ {0}
                    /\ \A d \in 0 .. e - 1 : Start(q, d) + Length(q, d) <= Start(q, e)
            T == {e \in Nat : e <= Len(chain) => Q(e)}
<1>1. 0 \in T
  <2>1. Start(q, 0) = 1
    BY Starts
  <2>. QED
    BY <2>1
<1>2. ASSUME NEW e \in T PROVE e + 1 \in T
  <2>1. e \in Nat /\ (e <= Len(chain) => Q(e)) /\ Len(chain) \in Nat
    BY ChainLength
  <2>2. ASSUME e + 1 <= Len(chain) PROVE Q(e + 1)
    <3>1. Q(e) /\ e \in Devices
      BY <2>1, <2>2 DEF Devices
    <3>. DEFINE A == Start(q, e)
                B == Length(q, e)
                C == Start(q, e + 1)
    <3>2. C = A + B
      BY <2>1, Starts
    <3>3. A \in Nat \ {0} /\ B \in Nat \ {0}
      BY <2>1, <3>1 DEF Wide
    <3>4. ASSUME NEW d \in 0 .. (e + 1) - 1 PROVE Start(q, d) + Length(q, d) <= C
      <4>1. CASE d = e
        BY <3>2, <3>3, <4>1
      <4>2. CASE d # e
        <5>1. d \in 0 .. e - 1 /\ d \in 0 .. Len(chain) - 1
          BY <2>1, <2>2, <4>2
        <5>. DEFINE D == Start(q, d) + Length(q, d)
        <5>2. D <= A
          BY <3>1, <5>1
        <5>3. D \in Int
          <6>1. d \in 0 .. e /\ d \in Devices
            BY <2>1, <5>1 DEF Devices
          <6>2. Start(q, d) \in Nat /\ Length(q, d) \in Nat
            BY <3>1, <6>1 DEF Wide
          <6>. QED
            BY <6>2
        <5>. QED
          BY <3>2, <3>3, <5>2, <5>3
      <4>. QED
        BY <4>1, <4>2
    <3>5. ASSUME NEW d \in 0 .. e + 1 PROVE Start(q, d) \in Nat \ {0}
      <4>1. CASE d = e + 1
        BY <3>2, <3>3, <4>1
      <4>2. CASE d # e + 1
        <5>1. d \in 0 .. e
          BY <2>1, <4>2
        <5>. QED
          BY <3>1, <5>1
      <4>. QED
        BY <4>1, <4>2
    <3>. QED
      BY <3>4, <3>5
  <2>. HIDE DEF Q
  <2>. QED
    BY <2>1, <2>2
<1>3. T \in SUBSET Nat
  OBVIOUS
<1>. HIDE DEF T
<1>4. T = Nat
  BY <1>1, <1>2, <1>3, Sums!Induction
<1>5. \A e \in 0 .. Len(chain) : Q(e)
  <2>. HIDE DEF Q
  <2>. QED
    BY <1>4, ChainLength DEF T
<1>. QED
  BY <1>5

LEMMA Token ==
  ASSUME NEW x \in Sources, NEW a \in Nat, NEW b \in Nat
  PROVE  <<x, a, b>> \in Tokens
BY DEF Tokens

LEMMA DeviceTokens ==
  ASSUME NEW d \in Nat, NEW n \in Nat
  PROVE  /\ DeviceBits(d, n) \in Seq(Tokens) /\ Len(DeviceBits(d, n)) = n
         /\ \A k \in 1 .. n : DeviceBits(d, n)[k] = <<"device", d, k>>
<1>1. ASSUME NEW k \in 1 .. n PROVE <<"device", d, k>> \in Tokens
  <2>1. "device" \in Sources /\ k \in Nat
    BY DEF Sources
  <2>. QED
    BY <2>1, Token, Zenon
<1>. QED
  BY <1>1 DEF DeviceBits

LEMMA JoinedSeqs ==
  ASSUME NEW x \in Seq(Tokens), NEW y \in Seq(Tokens)
  PROVE  /\ x \o y \in Seq(Tokens) /\ Len(x \o y) = Len(x) + Len(y)
         /\ \A k \in 1 .. Len(x) + Len(y) :
               (x \o y)[k] = IF k <= Len(x) THEN x[k] ELSE y[k - Len(x)]
OBVIOUS

\* What the chain captures: the bits of each device, where its register begins.
LEMMA CapturedIs ==
  ASSUME Inv, NEW q, Wide(q)
  PROVE  /\ Captured(q) \in Seq(Tokens)
         /\ Len(Captured(q)) = Start(q, Len(chain)) - 1
         /\ \A d \in Devices, k \in Nat \ {0} :
               k <= Length(q, d) => Captured(q)[(Start(q, d) + k) - 1] = <<"device", d, k>>
<1>. DEFINE J(e) == Joined!Iterated(<<>>, q, e)
            Q(e) == /\ J(e) \in Seq(Tokens) /\ Len(J(e)) = Start(q, e) - 1
                    /\ \A d \in 0 .. e - 1 : \A k \in Nat \ {0} :
                          k <= Length(q, d) => J(e)[(Start(q, d) + k) - 1] = <<"device", d, k>>
            T == {e \in Nat : e <= Len(chain) => Q(e)}
<1>0. /\ J(0) = <<>>
      /\ \A e \in Nat : J(e + 1) = J(e) \o DeviceBits(e, Length(q, e))
  <2>1. \A e \in Nat : J(e + 1) = J(e) \o DeviceBits((e + 1) - 1, Length(q, (e + 1) - 1))
    BY Joined!Unrolled
  <2>2. J(0) = <<>>
    BY Joined!Unrolled
  <2>3. \A e \in Nat : (e + 1) - 1 = e
    OBVIOUS
  <2>. HIDE DEF J
  <2>. QED
    BY <2>1, <2>2, <2>3, Zenon
<1>1. 0 \in T
  <2>. HIDE DEF J
  <2>1. Start(q, 0) = 1
    BY Starts
  <2>2. J(0) \in Seq(Tokens) /\ Len(J(0)) = 0
    <3>1. <<>> \in Seq(Tokens) /\ Len(<<>>) = 0
      OBVIOUS
    <3>. QED
      BY <1>0, <3>1, Zenon
  <2>3. Len(J(0)) = Start(q, 0) - 1 /\ 0 .. 0 - 1 = {}
    BY <2>1, <2>2
  <2>4. Q(0)
    BY <2>2, <2>3, Zenon
  <2>. HIDE DEF Q
  <2>. QED
    BY <2>4
<1>2. ASSUME NEW e \in T PROVE e + 1 \in T
  <2>1. e \in Nat /\ (e <= Len(chain) => Q(e)) /\ Len(chain) \in Nat
    BY ChainLength
  <2>2. ASSUME e + 1 <= Len(chain) PROVE Q(e + 1)
    <3>. DEFINE x == J(e)
                A == Start(q, e)
                B == Length(q, e)
                b == DeviceBits(e, B)
    <3>1. Q(e) /\ e \in Devices /\ e \in 0 .. Len(chain)
      BY <2>1, <2>2 DEF Devices
    <3>2. J(e + 1) = x \o b /\ Start(q, e + 1) = A + B
      BY <1>0, <2>1, Starts
    <3>3. B \in Nat \ {0} /\ A \in Nat \ {0}
      BY <3>1, StartsRise DEF Wide
    <3>4. b \in Seq(Tokens) /\ Len(b) = B /\ \A k \in 1 .. B : b[k] = <<"device", e, k>>
      BY <2>1, <3>3, DeviceTokens
    <3>5. x \in Seq(Tokens) /\ Len(x) = A - 1
      BY <3>1
    <3>. HIDE DEF x, b, J, A, B
    <3>6. /\ x \o b \in Seq(Tokens) /\ Len(x \o b) = (A + B) - 1
          /\ \A k \in 1 .. (A + B) - 1 :
                (x \o b)[k] = IF k <= A - 1 THEN x[k] ELSE b[k - (A - 1)]
      <4>1. /\ x \o b \in Seq(Tokens) /\ Len(x \o b) = Len(x) + Len(b)
            /\ \A k \in 1 .. Len(x) + Len(b) :
                  (x \o b)[k] = IF k <= Len(x) THEN x[k] ELSE b[k - Len(x)]
        BY <3>4, <3>5, JoinedSeqs
      <4>2. Len(x) = A - 1 /\ Len(x) + Len(b) = (A + B) - 1
        BY <3>3, <3>4, <3>5
      <4>. QED
        BY <4>1, <4>2, Zenon
    <3>7. ASSUME NEW d \in 0 .. (e + 1) - 1, NEW k \in Nat \ {0}, k <= Length(q, d)
          PROVE  (x \o b)[(Start(q, d) + k) - 1] = <<"device", d, k>>
      <4>1. CASE d = e
        <5>1. k <= B /\ Start(q, d) = A
          BY <3>7, <4>1 DEF A, B
        <5>2. /\ (A + k) - 1 \in 1 .. (A + B) - 1 /\ ~((A + k) - 1 <= A - 1)
              /\ ((A + k) - 1) - (A - 1) = k /\ k \in 1 .. B
          BY <3>3, <5>1
        <5>3. (x \o b)[(A + k) - 1] = b[k]
          BY <3>6, <5>2
        <5>. QED
          BY <3>4, <4>1, <5>1, <5>2, <5>3
      <4>2. CASE d # e
        <5>1. d \in 0 .. e - 1 /\ d \in 0 .. Len(chain) /\ d \in Devices
          BY <2>1, <2>2, <4>2 DEF Devices
        <5>. DEFINE S == Start(q, d)
                    D == Length(q, d)
        <5>2. S + D <= A /\ S \in Nat \ {0} /\ D \in Nat \ {0}
          BY <3>1, <5>1, StartsRise DEF Wide, A
        <5>3. x[(S + k) - 1] = <<"device", d, k>>
          BY <3>1, <3>7, <5>1 DEF x
        <5>4. k <= D
          BY <3>7
        <5>. HIDE DEF S, D
        <5>5. (S + k) - 1 \in 1 .. (A + B) - 1 /\ (S + k) - 1 <= A - 1
          BY <3>3, <5>2, <5>4
        <5>6. (x \o b)[(S + k) - 1] = x[(S + k) - 1]
          BY <3>6, <5>5
        <5>. QED
          BY <5>3, <5>6 DEF S
      <4>. QED
        BY <4>1, <4>2
    <3>8. (A + B) - 1 = Start(q, e + 1) - 1
      BY <3>2
    <3>. QED
      BY <3>2, <3>6, <3>7, <3>8
  <2>. HIDE DEF Q
  <2>. QED
    BY <2>1, <2>2
<1>3. T \in SUBSET Nat
  OBVIOUS
<1>. HIDE DEF T
<1>4. T = Nat
  BY <1>1, <1>2, <1>3, Joined!Induction
<1>5. Q(Len(chain))
  <2>. HIDE DEF Q
  <2>. QED
    BY <1>4, ChainLength DEF T
<1>6. Captured(q) = J(Len(chain))
  BY DEF Captured
<1>. HIDE DEF J
<1>. QED
  BY <1>5, <1>6 DEF Devices

(***************************************************************************)
(* Where the devices are.                                                  *)
(***************************************************************************)

\* Each instruction register begins where dap_jtag_ir_before says, and the positions
\* of each device add up to the chain.
LEMMA IrStarts ==
  ASSUME Inv, pc \in {"idle", "ops"}, Described, NEW q, q.tap \in {"capIR", "upIR"}
  PROVE  /\ Wide(q)
         /\ \A d \in Devices :
               /\ Length(q, d) = dap_jtag_ir_length[d]
               /\ Start(q, d) = dap_jtag_ir_before[d] + 1
               /\ Start(q, Len(chain)) =
                     ((dap_jtag_ir_before[d] + dap_jtag_ir_length[d]) + dap_jtag_ir_after[d]) + 1
<1>. DEFINE n == dap_jtag_dev_count
            B(d) == dap_jtag_ir_before[d]
            G(d) == dap_jtag_ir_length[d]
            A(d) == dap_jtag_ir_after[d]
<1>1. /\ Len(chain) = n /\ n \in Nat \ {0} /\ Devices = 0 .. n - 1
      /\ \A d \in Devices : Length(q, d) = G(d) /\ G(d) \in Nat \ {0}
  <2>1. Len(chain) = n /\ n \in Nat \ {0} /\ Devices = 0 .. n - 1
    BY ChainLength DEF Described, Devices
  <2>2. \A d \in Devices : Length(q, d) = G(d) /\ G(d) \in Nat \ {0}
    BY ChainLength DEF Described, Length
  <2>. QED
    BY <2>1, <2>2
<1>2. \A d \in Devices : B(d) \in Nat /\ A(d) \in Nat
  <2>1. n \in 0 .. DevCount /\ DevCount \in Nat
    BY Constants DEF Inv, TypeOK
  <2>. QED
    BY <1>1, <2>1 DEF Inv, TypeOK, Slots
<1>3. Wide(q)
  BY <1>1 DEF Wide
<1>4. \A d \in 0 .. n - 1 :
         /\ B(d) = IF d = 0 THEN 0 ELSE B(d - 1) + G(d - 1)
         /\ A(d) = IF d + 1 = n THEN 0 ELSE A(d + 1) + G(d + 1)
  BY DEF Inv, Positions
<1>5. /\ Start(q, 0) = 1
      /\ \A d \in Nat : Start(q, d + 1) = Start(q, d) + Length(q, d)
  BY Starts
<1>. HIDE DEF n, B, G, A
<1>6. \A d \in Devices : Start(q, d) = B(d) + 1
  <2>. DEFINE T == {d \in Nat : d < n => Start(q, d) = B(d) + 1}
  <2>1. 0 \in T
    <3>1. B(0) = 0
      BY <1>1, <1>4
    <3>. QED
      BY <1>5, <3>1
  <2>2. ASSUME NEW d \in T PROVE d + 1 \in T
    <3>1. d \in Nat /\ (d < n => Start(q, d) = B(d) + 1)
      OBVIOUS
    <3>2. ASSUME d + 1 < n PROVE Start(q, d + 1) = B(d + 1) + 1
      <4>1. d \in Devices /\ d + 1 \in 0 .. n - 1 /\ (d + 1) - 1 = d /\ d < n /\ d + 1 # 0
        BY <1>1, <3>1, <3>2
      <4>2. B(d + 1) = B(d) + G(d)
        BY <1>4, <4>1
      <4>3. Start(q, d + 1) = Start(q, d) + G(d)
        BY <1>1, <1>5, <3>1, <4>1
      <4>. QED
        BY <1>1, <1>2, <3>1, <4>1, <4>2, <4>3, SMTT(20)
    <3>. QED
      BY <3>1, <3>2
  <2>3. T \in SUBSET Nat
    OBVIOUS
  <2>. HIDE DEF T
  <2>4. T = Nat
    BY <2>1, <2>2, <2>3, Sums!Induction
  <2>. QED
    BY <1>1, <2>4 DEF T
<1>7. \A d \in Devices : Start(q, n) = Start(q, d + 1) + A(d)
  <2>. DEFINE At(k) == Start(q, n) = Start(q, n - k) + A((n - k) - 1)
              T == {k \in Nat : k < n => At(k)}
  <2>0. \A d \in 0 .. n : Start(q, d) \in Nat
    BY <1>1, <1>3, StartsRise
  <2>1. 0 \in T
    <3>1. A(n - 1) = 0
      BY <1>1, <1>4
    <3>2. n - 0 = n /\ (n - 0) - 1 = n - 1 /\ n \in 0 .. n
      BY <1>1
    <3>3. Start(q, n) = Start(q, n) + A(n - 1)
      BY <2>0, <3>1, <3>2
    <3>4. At(0)
      BY <3>2, <3>3
    <3>. HIDE DEF At
    <3>. QED
      BY <3>4
  <2>2. ASSUME NEW k \in T PROVE k + 1 \in T
    <3>1. k \in Nat /\ (k < n => At(k))
      OBVIOUS
    <3>2. ASSUME k + 1 < n PROVE At(k + 1)
      <4>. DEFINE d == n - (k + 1)
      <4>1. /\ d \in Devices /\ d \in Nat /\ d + 1 = n - k /\ (n - k) - 1 = d
            /\ d - 1 \in 0 .. n - 1 /\ (d - 1) + 1 = d /\ d # n /\ k < n /\ d - 1 \in Devices
        BY <1>1, <3>1, <3>2
      <4>2. Start(q, n) = Start(q, d + 1) + A(d)
        BY <3>1, <4>1
      <4>3. Start(q, d + 1) = Start(q, d) + G(d)
        BY <1>1, <1>5, <4>1
      <4>4. A(d - 1) = A(d) + G(d)
        <5>. DEFINE e == d - 1
        <5>1. e \in 0 .. n - 1 /\ e + 1 = d /\ e + 1 # n
          BY <4>1
        <5>. HIDE DEF e, d
        <5>2. A(e) = A(e + 1) + G(e + 1)
          BY <1>4, <5>1
        <5>3. A(e) = A(d) + G(d)
          BY <5>1, <5>2
        <5>. QED
          BY <5>3 DEF e
      <4>5. Start(q, d) \in Nat /\ A(d) \in Nat /\ G(d) \in Nat
        BY <1>1, <1>2, <2>0, <4>1
      <4>. HIDE DEF d
      <4>6. Start(q, n) = Start(q, d) + A(d - 1)
        BY <4>2, <4>3, <4>4, <4>5
      <4>. QED
        BY <4>6 DEF d
    <3>. HIDE DEF At
    <3>. QED
      BY <3>1, <3>2
  <2>3. T \in SUBSET Nat
    OBVIOUS
  <2>. HIDE DEF T
  <2>4. T = Nat
    BY <2>1, <2>2, <2>3, Sums!Induction
  <2>5. ASSUME NEW d \in Devices PROVE Start(q, n) = Start(q, d + 1) + A(d)
    <3>. DEFINE k == (n - 1) - d
    <3>1. k \in Nat /\ k < n /\ n - k = d + 1 /\ (n - k) - 1 = d
      BY <1>1
    <3>. HIDE DEF k, At
    <3>2. At(k)
      BY <2>4, <3>1 DEF T
    <3>. QED
      BY <3>1, <3>2 DEF At
  <2>. QED
    BY <2>5
<1>8. ASSUME NEW d \in Devices PROVE Start(q, n) = ((B(d) + G(d)) + A(d)) + 1
  <2>1. Start(q, d + 1) = Start(q, d) + G(d)
    BY <1>1, <1>5
  <2>. QED
    BY <1>1, <1>2, <1>6, <1>7, <2>1, SMTT(20)
<1>9. \A d \in Devices : /\ Length(q, d) = G(d) /\ Start(q, d) = B(d) + 1
                         /\ Start(q, Len(chain)) = ((B(d) + G(d)) + A(d)) + 1
  BY <1>1, <1>6, <1>8
<1>. QED
  BY <1>3, <1>9 DEF B, G, A

\* The instructions when device index has x.
Selected(index, x) == [d \in Devices |-> IF d = index THEN x ELSE "BYPASS"]

\* Each other device has one bit in a scan of data.
LEMMA DrStarts ==
  ASSUME Inv, NEW q, q.tap \in {"capDR", "upDR"}, NEW index \in Devices,
         NEW x \in Accesses \cup {"IDCODE"}, q.ir = Selected(index, x)
  PROVE  /\ Wide(q) /\ DrLength(x) \in Nat \ {0}
         /\ \A d \in Devices : Length(q, d) = IF d = index THEN DrLength(x) ELSE 1
         /\ Start(q, index) = index + 1
         /\ Start(q, Len(chain)) = Len(chain) + DrLength(x)
<1>. DEFINE n == Len(chain)
            W == DrLength(x)
<1>1. n \in Nat \ {0} /\ Devices = 0 .. n - 1
  BY ChainLength DEF Devices
<1>2. W \in Nat \ {0}
  BY JtagAssumption DEF DrLength
<1>3. \A d \in Devices : Length(q, d) = IF d = index THEN W ELSE 1
  <2>1. \A d \in Devices : Length(q, d) = DrLength(q.ir[d])
    BY DEF Length
  <2>2. DrLength("BYPASS") = 1
    BY DEF DrLength, Accesses
  <2>3. \A d \in Devices : q.ir[d] = IF d = index THEN x ELSE "BYPASS"
    BY DEF Selected
  <2>. QED
    BY <2>1, <2>2, <2>3
<1>4. /\ Start(q, 0) = 1
      /\ \A d \in Nat : Start(q, d + 1) = Start(q, d) + Length(q, d)
  BY Starts
<1>. HIDE DEF n, W
<1>5. \A d \in 0 .. n : Start(q, d) = IF d <= index THEN d + 1 ELSE d + W
  <2>. DEFINE T == {d \in Nat : d <= n => Start(q, d) = IF d <= index THEN d + 1 ELSE d + W}
  <2>1. 0 \in T
    BY <1>1, <1>4
  <2>2. ASSUME NEW d \in T PROVE d + 1 \in T
    <3>1. d \in Nat /\ (d <= n => Start(q, d) = IF d <= index THEN d + 1 ELSE d + W)
      OBVIOUS
    <3>2. ASSUME d + 1 <= n
          PROVE  Start(q, d + 1) = IF d + 1 <= index THEN (d + 1) + 1 ELSE (d + 1) + W
      <4>. DEFINE S == Start(q, d)
                  L == Length(q, d)
      <4>1. d \in Devices /\ S = (IF d <= index THEN d + 1 ELSE d + W)
        BY <1>1, <3>1, <3>2
      <4>2. L = (IF d = index THEN W ELSE 1) /\ Start(q, d + 1) = S + L
        BY <1>3, <1>4, <3>1, <4>1
      <4>. HIDE DEF S, L
      <4>3. index \in Nat
        BY <1>1
      <4>4. S + L = IF d + 1 <= index THEN (d + 1) + 1 ELSE (d + 1) + W
        BY ONLY <1>2, <3>1, <4>1, <4>2, <4>3
      <4>. QED
        BY <4>2, <4>4
    <3>. QED
      BY <3>1, <3>2
  <2>3. T \in SUBSET Nat
    OBVIOUS
  <2>. HIDE DEF T
  <2>4. T = Nat
    BY <2>1, <2>2, <2>3, Sums!Induction
  <2>. QED
    BY <1>1, <2>4 DEF T
<1>6. Wide(q)
  BY <1>2, <1>3 DEF Wide
<1>7. Start(q, index) = index + 1 /\ Start(q, n) = n + W
  <2>1. index \in 0 .. n /\ n \in 0 .. n /\ index <= index /\ ~(n <= index)
    BY <1>1
  <2>. QED
    BY <1>5, <2>1
<1>. QED
  BY <1>2, <1>3, <1>6, <1>7 DEF n, W

(***************************************************************************)
(* The scan of an instruction.                                             *)
(***************************************************************************)

LEMMA SubSeqIs ==
  ASSUME NEW line \in Seq(Tokens), NEW a \in Nat \ {0}, NEW n \in Nat,
         (a + n) - 1 <= Len(line)
  PROVE  LET y == SubSeq(line, a, (a + n) - 1)
         IN  /\ y \in Seq(Tokens) /\ Len(y) = n
             /\ \A k \in 1 .. n : y[k] = line[(a + k) - 1]
<1>. DEFINE e == (a + n) - 1
<1>1. /\ e \in Nat /\ e <= Len(line) /\ (e + 1) - a = n /\ a <= e + 1
      /\ \A k \in 1 .. n : (a + k) - 1 \in 1 .. Len(line)
  OBVIOUS
<1>. HIDE DEF e
<1>2. SubSeq(line, a, e) = [k \in 1 .. (e + 1) - a |-> line[(a + k) - 1]]
  BY <1>1
<1>3. SubSeq(line, a, e) = [k \in 1 .. n |-> line[(a + k) - 1]]
  BY <1>1, <1>2
<1>4. [k \in 1 .. n |-> line[(a + k) - 1]] \in Seq(Tokens)
  BY <1>1
<1>5. Len([k \in 1 .. n |-> line[(a + k) - 1]]) = n
  OBVIOUS
<1>. QED
  BY <1>3, <1>4, <1>5 DEF e

\* The stream that puts x into a register with p bits ahead, and One into the rest.
Addressed(x, p, n) == [k \in Nat |-> IF p < k /\ k <= p + n THEN <<x, 0, k - p>> ELSE One]

LEMMA SourceBits ==
  ASSUME NEW x \in Sources, NEW n \in Nat \ {0}
  PROVE  /\ BitsOf(x, n) = [k \in 1 .. n |-> <<x, 0, k>>]
         /\ BitsOf(x, n) \in Seq(Tokens) /\ Len(BitsOf(x, n)) = n
         /\ \A k \in 1 .. n : BitsOf(x, n)[k] = <<x, 0, k>>
         /\ Front(BitsOf(x, n)) \in Seq(Tokens) /\ Len(Front(BitsOf(x, n))) = n - 1
         /\ \A k \in 1 .. n - 1 : Front(BitsOf(x, n))[k] = <<x, 0, k>>
         /\ Last(BitsOf(x, n)) = <<x, 0, n>> /\ <<x, 0, n>> \in Tokens
<1>. DEFINE b == BitsOf(x, n)
<1>2. \A k \in 1 .. n : <<x, 0, k>> \in Tokens
  BY Token
<1>3. b \in Seq(Tokens) /\ Len(b) = n /\ \A k \in 1 .. n : b[k] = <<x, 0, k>>
  BY <1>2 DEF BitsOf
<1>. HIDE DEF b
<1>4. (1 + (n - 1)) - 1 = n - 1 /\ n - 1 \in Nat /\ n - 1 <= Len(b)
      /\ \A k \in 1 .. n - 1 : (1 + k) - 1 = k /\ k \in 1 .. n
  BY <1>3
<1>5. LET y == SubSeq(b, 1, (1 + (n - 1)) - 1)
      IN  /\ y \in Seq(Tokens) /\ Len(y) = n - 1
          /\ \A k \in 1 .. n - 1 : y[k] = b[(1 + k) - 1]
  BY <1>3, <1>4, SubSeqIs
<1>6. Front(b) = SubSeq(b, 1, n - 1)
  BY <1>3 DEF Front
<1>7. Front(b) \in Seq(Tokens) /\ Len(Front(b)) = n - 1
      /\ \A k \in 1 .. n - 1 : Front(b)[k] = b[k]
  BY <1>4, <1>5, <1>6
<1>8. Last(b) = <<x, 0, n>> /\ <<x, 0, n>> \in Tokens
  BY <1>2, <1>3 DEF Last
<1>9. b = [k \in 1 .. n |-> <<x, 0, k>>]
  BY DEF b, BitsOf
<1>. QED
  BY <1>3, <1>4, <1>7, <1>8, <1>9 DEF b

LEMMA InstructionBits ==
  ASSUME NEW x \in Accesses \cup {"IDCODE"}, NEW n \in Nat \ {0}
  PROVE  /\ BitsOf(x, n) \in Seq(Tokens) /\ Len(BitsOf(x, n)) = n
         /\ \A k \in 1 .. n : BitsOf(x, n)[k] = <<x, 0, k>>
         /\ Front(BitsOf(x, n)) \in Seq(Tokens) /\ Len(Front(BitsOf(x, n))) = n - 1
         /\ \A k \in 1 .. n - 1 : Front(BitsOf(x, n))[k] = <<x, 0, k>>
         /\ Last(BitsOf(x, n)) = <<x, 0, n>> /\ <<x, 0, n>> \in Tokens
<1>1. x \in Sources
  BY DEF Sources
<1>. QED
  BY <1>1, SourceBits

\* A register that holds nothing but One has BYPASS, and one that holds the bits of
\* x has x.
LEMMA DecodedIs ==
  ASSUME NEW b \in Seq(Tokens)
  PROVE  /\ (\A k \in 1 .. Len(b) : b[k] = One) => Decoded(b) = "BYPASS"
         /\ \A x \in Accesses \cup {"IDCODE"} :
               (b = BitsOf(x, ArmIrLength)) => Decoded(b) = x
<1>1. DOMAIN b = 1 .. Len(b)
  OBVIOUS
<1>2. (\A k \in 1 .. Len(b) : b[k] = One) => Decoded(b) = "BYPASS"
  BY <1>1 DEF Decoded
<1>3. ASSUME NEW x \in Accesses \cup {"IDCODE"}, b = BitsOf(x, ArmIrLength)
      PROVE  Decoded(b) = x
  <2>1. ArmIrLength \in Nat \ {0}
    BY JtagAssumption
  <2>. DEFINE n == ArmIrLength
              y == BitsOf(x, n)
  <2>0. Len(y) = n /\ \A k \in 1 .. n : y[k] = <<x, 0, k>>
    <3>. HIDE DEF n
    <3>. QED
      BY <2>1, InstructionBits DEF n
  <2>. HIDE DEF y
  <2>2. Len(b) = n /\ b[1] = <<x, 0, 1>> /\ 1 \in 1 .. Len(b)
    <3>1. 1 \in 1 .. n /\ b = y
      BY <1>3, <2>1 DEF y
    <3>. QED
      BY <2>0, <3>1
  <2>3. b[1] # One
    BY <2>2 DEF One
  <2>4. ~ \A k \in DOMAIN b : b[k] = One
    BY <1>1, <2>2, <2>3
  <2>5. Decoded(b) = b[1][1]
    BY <1>3, <2>4, Zenon DEF Decoded
  <2>. QED
    BY <2>2, <2>5
<1>. QED
  BY <1>2, <1>3

\* What the devices decode of the stream.
LEMMA DecodedStream ==
  ASSUME Inv, pc \in {"idle", "ops"}, Described, NEW index \in Devices, Selectable(index),
         NEW x \in Accesses \cup {"IDCODE"},
         NEW z, z.tap = "upIR", z.line \in Seq(Tokens),
         Len(z.line) = Start(z, Len(chain)) - 1,
         \A k \in 1 .. Len(z.line) :
            z.line[k] = Addressed(x, dap_jtag_ir_before[index], dap_jtag_ir_length[index])[k]
  PROVE  [d \in Devices |-> Decoded(Slice(z, d))] = Selected(index, x)
<1>. DEFINE line == z.line
            L == Len(line)
            S(d) == Start(z, d)
            G(d) == Length(z, d)
            X == Addressed(x, dap_jtag_ir_before[index], dap_jtag_ir_length[index])
            p == dap_jtag_ir_before[index]
            n == ArmIrLength
            m == Len(chain)
<1>1. /\ Wide(z) /\ S(index) = p + 1 /\ G(index) = n /\ dap_jtag_ir_length[index] = n
  BY IrStarts DEF Selectable
<1>2. m \in Nat /\ Devices = 0 .. m - 1
  BY ChainLength DEF Devices
<1>3. /\ \A e \in 0 .. m : S(e) \in Nat \ {0}
      /\ \A e \in 0 .. m : \A d \in 0 .. e - 1 : S(d) + G(d) <= S(e)
      /\ \A d \in Devices : G(d) \in Nat \ {0}
  BY <1>1, StartsRise DEF Wide
<1>4. p \in Nat /\ n \in Nat \ {0}
  <2>1. p \in Nat
    <3>1. index \in Slots
      BY <1>2, Constants, ChainLength DEF Slots
    <3>. QED
      BY <3>1 DEF Inv, TypeOK
  <2>. QED
    BY <2>1, JtagAssumption
<1>5. /\ line \in Seq(Tokens) /\ L = S(m) - 1
      /\ \A k \in 1 .. L : line[k] = IF p < k /\ k <= p + n THEN <<x, 0, k - p>> ELSE One
  <2>1. \A k \in Nat : X[k] = IF p < k /\ k <= p + n THEN <<x, 0, k - p>> ELSE One
    BY <1>1 DEF Addressed
  <2>. HIDE DEF X
  <2>2. \A k \in 1 .. L : line[k] = X[k]
    BY DEF X
  <2>3. line \in Seq(Tokens) /\ L = S(m) - 1
    OBVIOUS
  <2>. QED
    BY <2>1, <2>2, <2>3
<1>6. \A d \in Devices : Slice(z, d) = SubSeq(line, S(d), S(d) + (G(d) - 1))
  BY DEF Slice
<1>. HIDE DEF line, S, G, p, n, m
<1>7. ASSUME NEW d \in Devices
      PROVE  Decoded(Slice(z, d)) = IF d = index THEN x ELSE "BYPASS"
  <2>. DEFINE a == S(d)
              g == G(d)
              y == Slice(z, d)
  <2>1. /\ a \in Nat \ {0} /\ g \in Nat \ {0} /\ a + g <= S(m) /\ L \in Nat
        /\ S(m) \in Nat /\ (a + g) - 1 <= L
    <3>1. d \in 0 .. m - 1 /\ m \in 0 .. m /\ d \in 0 .. m
      BY <1>2
    <3>2. a \in Nat \ {0} /\ g \in Nat \ {0} /\ a + g <= S(m) /\ S(m) \in Nat
      BY <1>3, <3>1
    <3>. QED
      BY <1>5, <3>2
  <2>2. y = SubSeq(line, a, (a + g) - 1)
    <3>1. y = SubSeq(line, a, a + (g - 1))
      BY <1>6
    <3>. HIDE DEF a, g, y
    <3>2. a + (g - 1) = (a + g) - 1
      BY <2>1
    <3>. QED
      BY <3>1, <3>2
  <2>. HIDE DEF a, g, y, L
  <2>3. y \in Seq(Tokens) /\ Len(y) = g /\ \A k \in 1 .. g : y[k] = line[(a + k) - 1]
    BY <1>5, <2>1, <2>2, SubSeqIs DEF L
  <2>4. CASE d = index
    <3>1. a = p + 1 /\ g = n
      BY <1>1, <2>4 DEF a, g
    <3>2. ASSUME NEW k \in 1 .. n PROVE y[k] = <<x, 0, k>>
      <4>. DEFINE j == (a + k) - 1
      <4>1. j \in 1 .. L /\ p < j /\ j <= p + n /\ j - p = k
        BY <1>4, <2>1, <3>1
      <4>2. y[k] = line[j]
        BY <2>3, <3>1
      <4>. HIDE DEF j
      <4>3. line[j] = <<x, 0, j - p>>
        BY <1>5, <4>1
      <4>. QED
        BY <4>1, <4>2, <4>3
    <3>3. y = [k \in 1 .. n |-> <<x, 0, k>>]
      <4>1. y = [k \in 1 .. n |-> y[k]]
        BY <2>3, <3>1
      <4>. QED
        BY <3>2, <4>1, Zenon
    <3>4. y = BitsOf(x, ArmIrLength)
      BY <3>3 DEF BitsOf, n
    <3>. QED
      BY <2>3, <2>4, <3>4, DecodedIs DEF y
  <2>5. CASE d # index
    <3>1. a + g <= p + 1 \/ (p + 1) + n <= a
      <4>1. d \in 0 .. m - 1 /\ index \in 0 .. m - 1 /\ m \in Nat
        BY <1>2
      <4>2. CASE d < index
        <5>1. index \in 0 .. m /\ d \in 0 .. index - 1
          BY <4>1, <4>2
        <5>2. S(d) + G(d) <= S(index)
          BY <1>3, <5>1
        <5>. QED
          BY <1>1, <5>2 DEF a, g
      <4>3. CASE index < d
        <5>1. d \in 0 .. m /\ index \in 0 .. d - 1
          BY <4>1, <4>3
        <5>2. S(index) + G(index) <= S(d)
          BY <1>3, <5>1
        <5>. QED
          BY <1>1, <5>2 DEF a, g
      <4>. QED
        BY <2>5, <4>1, <4>2, <4>3
    <3>2. ASSUME NEW k \in 1 .. g PROVE y[k] = One
      <4>. DEFINE j == (a + k) - 1
      <4>1. j \in 1 .. L /\ ~(p < j /\ j <= p + n)
        BY <1>4, <2>1, <3>1
      <4>2. y[k] = line[j]
        BY <2>3
      <4>. HIDE DEF j
      <4>3. line[j] = One
        BY <1>5, <4>1
      <4>. QED
        BY <4>2, <4>3
    <3>3. Decoded(y) = "BYPASS"
      BY <2>3, <3>2, DecodedIs
    <3>. QED
      BY <2>5, <3>3 DEF y
  <2>. QED
    BY <2>4, <2>5
<1>. QED
  BY <1>7 DEF Selected

\* dap_jtag_write_ir up to the last bit of the instruction.
IrBody(s, x, index) ==
    LET ahead == Run(Tdi(Run(Lowered(Run(Raised(s), 2)), 2), One), dap_jtag_ir_before[index])
    IN  Write(ahead, Front(BitsOf(x, dap_jtag_ir_length[index])))

\* n bits of the scan are in the chain.
IrFed(v, s, x, index, n) ==
    \E c \in Seq(Tokens) : \E q :
        /\ q.tap = "capIR" /\ Len(c) = Start(q, Len(chain)) - 1
        /\ Fed(v, c, Addressed(x, dap_jtag_ir_before[index], dap_jtag_ir_length[index]),
               Len(s.out), n)

LEMMA IndexTypes ==
  ASSUME Inv, NEW index \in 0 .. DevCount - 1, Selectable(index)
  PROVE  /\ dap_jtag_ir_length[index] = ArmIrLength /\ ArmIrLength \in Nat \ {0}
         /\ dap_jtag_ir_before[index] \in Nat /\ dap_jtag_ir_after[index] \in Nat
         /\ index \in Nat /\ dap_jtag_dev_count \in Nat
         /\ (dap_jtag_dev_count - index) - 1 \in Nat
         /\ Described => index \in Devices
<1>1. DevCount \in Nat /\ index \in Slots /\ index \in Nat
  BY Constants DEF Slots
<1>2. ArmIrLength \in Nat \ {0}
  BY JtagAssumption
<1>3. dap_jtag_dev_count \in Nat /\ index < dap_jtag_dev_count
  BY <1>1 DEF Inv, TypeOK, Selectable
<1>4. Described => index \in Devices
  BY <1>1, <1>3 DEF Described, Devices
<1>5. (dap_jtag_dev_count - index) - 1 \in Nat
  BY <1>1, <1>3
<1>. QED
  BY <1>1, <1>2, <1>3, <1>4, <1>5 DEF Inv, TypeOK, Selectable

LEMMA IrBodyIs ==
  ASSUME Inv, pc \in {"idle", "ops"}, NEW index \in 0 .. DevCount - 1, Selectable(index),
         NEW x \in Accesses \cup {"IDCODE"}, NEW s, DOMAIN s = Fields, s.tap = "idle"
  PROVE  LET v == IrBody(s, x, index)
         IN  /\ DOMAIN v = Fields /\ v.tap = "shIR" /\ ~v.tms
             /\ v.answer = s.answer /\ v.taken = s.taken
             /\ Described /\ s.out \in Seq(Tokens) =>
                   IrFed(v, s, x, index, dap_jtag_ir_before[index] + (ArmIrLength - 1))
<1>. DEFINE a == Run(Lowered(Run(Raised(s), 2)), 2)
            t == Tdi(a, One)
            p == dap_jtag_ir_before[index]
            n == ArmIrLength
            u == Run(t, p)
            f == Front(BitsOf(x, n))
            v == Write(u, f)
            X == Addressed(x, p, n)
<1>1. p \in Nat /\ n \in Nat \ {0} /\ dap_jtag_ir_length[index] = n
  BY IndexTypes
<1>2. /\ f \in Seq(Tokens) /\ Len(f) = n - 1 /\ \A k \in 1 .. n - 1 : f[k] = <<x, 0, k>>
  <2>. HIDE DEF n
  <2>. QED
    BY <1>1, InstructionBits
<1>3. IrBody(s, x, index) = v
  BY <1>1 DEF IrBody
<1>4. /\ DOMAIN a = Fields /\ a.tap = "shIR" /\ ~a.tms
      /\ a.answer = s.answer /\ a.ir = s.ir /\ a.taken = s.taken /\ a.out = s.out
  BY ToShiftIR
<1>5. PICK q : q.tap = "capIR" /\ q.ir = s.ir /\ a.line = Captured(q)
  BY ToShiftIR
<1>. HIDE DEF a
<1>6. /\ DOMAIN t = Fields /\ t.tap = "shIR" /\ ~t.tms /\ t.tdi = One
      /\ t.answer = s.answer /\ t.taken = s.taken /\ t.out = s.out /\ t.line = a.line
  BY <1>4, PinFields DEF SameDevices
<1>. HIDE DEF t, p, n, f
<1>7. Scanning(u, t) /\ u.tms = t.tms /\ t.tap \in ShiftTaps
  BY <1>1, <1>6, RunStays DEF ShiftTaps
<1>. HIDE DEF u
<1>8. Scanning(v, u) /\ v.tms = u.tms
  <2>1. DOMAIN u = Fields /\ u.tap \in ShiftTaps /\ ~u.tms /\ Len(f) \in Nat
    BY <1>1, <1>2, <1>6, <1>7 DEF Scanning
  <2>. QED
    BY <2>1, WriteStays
<1>. HIDE DEF v
<1>9. ASSUME Described, s.out \in Seq(Tokens)
      PROVE  IrFed(v, s, x, index, p + (n - 1))
  <2>. DEFINE c == Captured(q)
              m == Len(s.out)
  <2>1. /\ Wide(q) /\ Start(q, Len(chain)) = ((p + n) + dap_jtag_ir_after[index]) + 1
    BY <1>1, <1>5, <1>9, IrStarts, IndexTypes DEF p, n
  <2>2. c \in Seq(Tokens) /\ Len(c) = Start(q, Len(chain)) - 1
    BY <2>1, CapturedIs
  <2>3. m \in Nat /\ p + n <= Len(c) /\ Len(c) \in Nat
    BY <1>1, <1>9, <2>1, <2>2, IndexTypes, SMTT(20)
  <2>. HIDE DEF c, m
  <2>4. Fed(t, c, X, m, 0)
    <3>1. t.line = c
      BY <1>5, <1>6 DEF c
    <3>2. t.line \in Seq(Tokens) /\ t.out \in Seq(Tokens)
      BY <1>6, <1>9, <2>2, <3>1
    <3>3. Fed(t, t.line, X, Len(t.out), 0)
      BY <3>2, FedStart
    <3>. QED
      BY <1>6, <3>1, <3>3, Zenon DEF m
  <2>5. \A k \in Nat : X[k] = IF p < k /\ k <= p + n THEN <<x, 0, k - p>> ELSE One
    BY DEF Addressed
  <2>. HIDE DEF X
  <2>6. One \in Tokens
    <3>1. "one" \in Sources
      BY DEF Sources
    <3>. QED
      BY <3>1, Token DEF One
  <2>7. Fed(u, c, X, m, p)
    <3>1. ASSUME NEW j \in 1 .. p PROVE X[0 + j] = t.tdi
      <4>. DEFINE e == 0 + j
      <4>1. e \in Nat /\ ~(p < e /\ e <= p + n)
        BY <1>1
      <4>. HIDE DEF e
      <4>. QED
        BY <1>6, <2>5, <4>1 DEF e
    <3>2. 0 + p <= Len(c) /\ 0 \in Nat /\ 0 + p = p
      BY <1>1, <2>3
    <3>3. Fed(Run(t, p), c, X, m, 0 + p)
      BY <1>1, <1>6, <1>7, <2>2, <2>3, <2>4, <2>6, <3>1, <3>2, RunFed
    <3>. QED
      BY <3>2, <3>3 DEF u
  <2>8. Fed(v, c, X, m, p + (n - 1))
    <3>1. ASSUME NEW j \in 1 .. Len(f) PROVE X[p + j] = f[j]
      <4>. DEFINE e == p + j
      <4>1. e \in Nat /\ p < e /\ e <= p + n /\ e - p = j /\ j \in 1 .. n - 1
        BY <1>1, <1>2
      <4>. HIDE DEF e
      <4>2. X[e] = <<x, 0, j>>
        BY <2>5, <4>1
      <4>. QED
        BY <1>2, <4>1, <4>2 DEF e
    <3>2. p + Len(f) <= Len(c)
      BY <1>1, <1>2, <2>3
    <3>3. DOMAIN u = Fields /\ u.tap \in ShiftTaps /\ ~u.tms
      BY <1>6, <1>7 DEF Scanning
    <3>4. Fed(Write(u, f), c, X, m, p + Len(f))
      BY <1>1, <1>2, <2>2, <2>3, <2>7, <3>1, <3>2, <3>3, WriteFed
    <3>. QED
      BY <1>2, <3>4 DEF v
  <2>. QED
    BY <1>1, <1>5, <2>2, <2>8 DEF IrFed, m, X, p
<1>10. /\ DOMAIN v = Fields /\ v.tap = "shIR" /\ ~v.tms
       /\ v.answer = s.answer /\ v.taken = s.taken
  BY <1>6, <1>7, <1>8 DEF Scanning
<1>. QED
  BY <1>3, <1>9, <1>10 DEF p, n

\* All of the stream is in the chain when Shift-IR is left.
LEMMA IrScan ==
  ASSUME Inv, pc \in {"idle", "ops"}, NEW index \in 0 .. DevCount - 1, Selectable(index),
         NEW x \in Accesses \cup {"IDCODE"}, NEW s, DOMAIN s = Fields, s.tap = "idle"
  PROVE  \E e : /\ WriteIr(s, x, index) = Finish(e)
                /\ DOMAIN e = Fields /\ e.tap = "ex1IR" /\ e.tms
                /\ e.answer = s.answer /\ e.taken = s.taken
                /\ Described /\ s.out \in Seq(Tokens) =>
                      IrFed(e, s, x, index,
                            (dap_jtag_ir_before[index] + ArmIrLength) + dap_jtag_ir_after[index])
<1>. DEFINE p == dap_jtag_ir_before[index]
            n == ArmIrLength
            after == dap_jtag_ir_after[index]
            b == BitsOf(x, n)
            bit == Last(b)
            v == IrBody(s, x, index)
            X == Addressed(x, p, n)
<1>1. /\ p \in Nat /\ n \in Nat \ {0} /\ after \in Nat /\ dap_jtag_ir_length[index] = n
      /\ Described => index \in Devices
  BY IndexTypes
<1>2. bit = <<x, 0, n>> /\ bit \in Tokens
  <2>. HIDE DEF n
  <2>. QED
    BY <1>1, InstructionBits
<1>3. /\ DOMAIN v = Fields /\ v.tap = "shIR" /\ ~v.tms
      /\ v.answer = s.answer /\ v.taken = s.taken
      /\ Described /\ s.out \in Seq(Tokens) => IrFed(v, s, x, index, p + (n - 1))
  BY IrBodyIs
<1>4. WriteIr(s, x, index) =
         IF after > 0
           THEN Finish(Run(Raised(Run(Tdi(Write(v, <<bit>>), One), after - 1)), 1))
           ELSE Finish(Write(Raised(v), <<bit>>))
  BY <1>1 DEF WriteIr, IrBody, Raised, Lowered
<1>5. \A k \in Nat : X[k] = IF p < k /\ k <= p + n THEN <<x, 0, k - p>> ELSE One
  BY DEF Addressed
<1>6. Described => \A q : q.tap = "capIR" => Start(q, Len(chain)) = ((p + n) + after) + 1
  BY <1>1, IrStarts
<1>7. One \in Tokens
  <2>1. "one" \in Sources
    BY DEF Sources
  <2>. QED
    BY <2>1, Token DEF One
<1>. HIDE DEF v, p, n, after, bit, X
<1>8. X[p + n] = bit
  <2>. DEFINE e == p + n
  <2>1. e \in Nat /\ p < e /\ e <= p + n /\ e - p = n
    BY <1>1
  <2>. HIDE DEF e
  <2>. QED
    BY <1>2, <1>5, <2>1 DEF e
<1>9. CASE after > 0
  <2>. DEFINE a == Tdi(v, bit)
              w == Clock(a)
              t == Tdi(w, One)
              r == Run(t, after - 1)
              u == Raised(r)
              e == Clock(u)
  <2>1. /\ DOMAIN a = Fields /\ a.tap = "shIR" /\ ~a.tms /\ a.tdi = bit /\ a.line = v.line
        /\ a.answer = s.answer /\ a.taken = s.taken /\ a.out = v.out
    BY <1>3, PinFields DEF SameDevices
  <2>2. WriteIr(s, x, index) = Finish(e)
    BY <1>4, <1>9, WriteOne, FewClocks
  <2>. HIDE DEF a
  <2>3. Scanning(w, a) /\ w.tms = a.tms
    BY <2>1, ShiftStays DEF ShiftTaps
  <2>. HIDE DEF w
  <2>4. /\ DOMAIN t = Fields /\ t.tap = "shIR" /\ ~t.tms /\ t.tdi = One /\ t.line = w.line
        /\ t.answer = s.answer /\ t.taken = s.taken /\ t.out = w.out
    BY <2>1, <2>3, PinFields DEF SameDevices, Scanning
  <2>. HIDE DEF t
  <2>5. Scanning(r, t) /\ r.tms = t.tms /\ r.tdi = t.tdi /\ t.tap \in ShiftTaps
        /\ after - 1 \in Nat
    <3>1. after - 1 \in Nat /\ t.tap \in ShiftTaps
      BY <1>1, <1>9, <2>4 DEF ShiftTaps
    <3>. QED
      BY <2>4, <3>1, RunStays
  <2>. HIDE DEF r
  <2>6. SameButTms(u, r) /\ u.tms
    BY <2>5, TmsFields DEF Scanning
  <2>. HIDE DEF u
  <2>7. /\ DOMAIN u = Fields /\ u.tap = "shIR" /\ u.tdi = One /\ u.line = r.line /\ u.out = r.out
        /\ u.answer = s.answer /\ u.taken = s.taken
    BY <2>4, <2>5, <2>6 DEF Scanning, SameButTms
  <2>8. /\ DOMAIN e = Fields /\ e.tap = "ex1IR" /\ e.tms
        /\ e.answer = s.answer /\ e.taken = s.taken
    <3>1. u.tap \in ShiftTaps
      BY <2>7 DEF ShiftTaps
    <3>. QED
      BY <2>6, <2>7, <3>1, ExitClock DEF Ex1
  <2>. HIDE DEF e
  <2>9. ASSUME Described, s.out \in Seq(Tokens)
        PROVE  IrFed(e, s, x, index, (p + n) + after)
    <3>0. PICK c \in Seq(Tokens) : \E q :
             /\ q.tap = "capIR" /\ Len(c) = Start(q, Len(chain)) - 1
             /\ Fed(v, c, X, Len(s.out), p + (n - 1))
      BY <1>1, <1>3, <2>9 DEF IrFed, X, p
    <3>1. PICK q :
             /\ q.tap = "capIR" /\ Len(c) = Start(q, Len(chain)) - 1
             /\ Fed(v, c, X, Len(s.out), p + (n - 1))
      BY <3>0
    <3>. DEFINE m == Len(s.out)
    <3>2. m \in Nat /\ Len(c) = (p + n) + after
      BY <1>1, <1>6, <2>9, <3>1
    <3>. HIDE DEF m
    <3>3. Fed(a, c, X, m, p + (n - 1))
      BY <2>1, <3>1, FedPins DEF m
    <3>4. Fed(w, c, X, m, p + n)
      <4>1. p + (n - 1) \in Nat /\ p + (n - 1) < Len(c) /\ (p + (n - 1)) + 1 = p + n
        BY <1>1, <1>9, <3>2
      <4>2. a.tap \in ShiftTaps /\ NextTap(a) \notin {"reset", "upIR", "upDR"}
        BY <2>1 DEF ShiftTaps, NextTap, TapLow
      <4>3. X[(p + (n - 1)) + 1] = a.tdi /\ a.tdi \in Tokens
        BY <1>2, <1>8, <2>1, <4>1
      <4>4. Fed(Clock(a), c, X, m, (p + (n - 1)) + 1)
        BY <2>1, <3>2, <3>3, <4>1, <4>2, <4>3, FedClock
      <4>. QED
        BY <4>1, <4>4 DEF w
    <3>5. Fed(t, c, X, m, p + n)
      BY <2>4, <3>4, FedPins
    <3>6. Fed(r, c, X, m, (p + n) + (after - 1))
      <4>1. p + n \in Nat /\ (p + n) + (after - 1) <= Len(c)
        BY <1>1, <1>9, <3>2
      <4>2. ASSUME NEW j \in 1 .. after - 1 PROVE X[(p + n) + j] = t.tdi
        <5>. DEFINE k == (p + n) + j
        <5>1. k \in Nat /\ ~(p < k /\ k <= p + n)
          BY <1>1
        <5>. HIDE DEF k
        <5>. QED
          BY <1>5, <2>4, <5>1 DEF k
      <4>3. Fed(Run(t, after - 1), c, X, m, (p + n) + (after - 1))
        BY <1>7, <2>4, <2>5, <3>2, <3>5, <4>1, <4>2, RunFed
      <4>. QED
        BY <4>3 DEF r
    <3>7. Fed(u, c, X, m, (p + n) + (after - 1))
      BY <2>7, <3>6, FedPins
    <3>8. Fed(e, c, X, m, (p + n) + after)
      <4>. DEFINE k == (p + n) + (after - 1)
      <4>1. k \in Nat /\ k < Len(c) /\ k + 1 = (p + n) + after /\ ~(k + 1 <= p + n) /\ k + 1 \in Nat
        BY <1>1, <1>9, <3>2
      <4>2. u.tap \in ShiftTaps /\ NextTap(u) \notin {"reset", "upIR", "upDR"}
        BY <2>6, <2>7 DEF ShiftTaps, NextTap, TapHigh
      <4>3. Fed(u, c, X, m, k)
        BY <3>7
      <4>. HIDE DEF k
      <4>4. X[k + 1] = u.tdi /\ u.tdi \in Tokens
        BY <1>5, <1>7, <2>7, <4>1
      <4>5. Fed(Clock(u), c, X, m, k + 1)
        BY <2>7, <3>2, <4>1, <4>2, <4>3, <4>4, FedClock
      <4>. QED
        BY <4>1, <4>5 DEF e
    <3>. QED
      BY <1>1, <3>1, <3>8 DEF IrFed, X, p, m
  <2>. QED
    BY <2>2, <2>8, <2>9 DEF p, n, after
<1>10. CASE ~(after > 0)
  <2>. DEFINE r == Raised(v)
              u == Tdi(r, bit)
              e == Clock(u)
  <2>1. SameButTms(r, v) /\ r.tms
    BY <1>3, TmsFields
  <2>2. WriteIr(s, x, index) = Finish(e)
    BY <1>4, <1>10, WriteOne
  <2>. HIDE DEF r
  <2>3. /\ DOMAIN u = Fields /\ u.tap = "shIR" /\ u.tms /\ u.tdi = bit /\ u.line = v.line
        /\ u.answer = s.answer /\ u.taken = s.taken /\ u.out = v.out
    BY <1>3, <2>1, PinFields DEF SameDevices, SameButTms
  <2>. HIDE DEF u
  <2>4. /\ DOMAIN e = Fields /\ e.tap = "ex1IR" /\ e.tms
        /\ e.answer = s.answer /\ e.taken = s.taken
    <3>1. u.tap \in ShiftTaps
      BY <2>3 DEF ShiftTaps
    <3>. QED
      BY <2>3, <3>1, ExitClock DEF Ex1
  <2>. HIDE DEF e
  <2>5. ASSUME Described, s.out \in Seq(Tokens)
        PROVE  IrFed(e, s, x, index, (p + n) + after)
    <3>0. PICK c \in Seq(Tokens) : \E q :
             /\ q.tap = "capIR" /\ Len(c) = Start(q, Len(chain)) - 1
             /\ Fed(v, c, X, Len(s.out), p + (n - 1))
      BY <1>1, <1>3, <2>5 DEF IrFed, X, p
    <3>1. PICK q :
             /\ q.tap = "capIR" /\ Len(c) = Start(q, Len(chain)) - 1
             /\ Fed(v, c, X, Len(s.out), p + (n - 1))
      BY <3>0
    <3>. DEFINE m == Len(s.out)
                k == p + (n - 1)
    <3>2. m \in Nat /\ Len(c) = (p + n) + after
      BY <1>1, <1>6, <2>5, <3>1
    <3>. HIDE DEF m
    <3>3. Fed(u, c, X, m, k)
      BY <2>3, <3>1, FedPins DEF m
    <3>4. k \in Nat /\ k < Len(c) /\ k + 1 = (p + n) + after /\ k + 1 = p + n
      BY <1>1, <1>10, <3>2
    <3>5. u.tap \in ShiftTaps /\ NextTap(u) \notin {"reset", "upIR", "upDR"}
      BY <2>3 DEF ShiftTaps, NextTap, TapHigh
    <3>. HIDE DEF k
    <3>6. X[k + 1] = u.tdi /\ u.tdi \in Tokens
      BY <1>2, <1>8, <2>3, <3>4
    <3>7. Fed(Clock(u), c, X, m, k + 1)
      BY <2>3, <3>2, <3>3, <3>4, <3>5, <3>6, FedClock
    <3>8. Fed(e, c, X, m, (p + n) + after)
      BY <3>4, <3>7 DEF e
    <3>. QED
      BY <1>1, <3>1, <3>8 DEF IrFed, X, p, m
  <2>. QED
    BY <2>2, <2>4, <2>5 DEF p, n, after
<1>. QED
  BY <1>1, <1>9, <1>10

\* dap_jtag_write_ir comes back to Run-Test/Idle with TDI high, and if the chain is as
\* described device index has x and all others BYPASS.
LEMMA WriteIrDoes ==
  ASSUME Inv, pc \in {"idle", "ops"}, NEW index \in 0 .. DevCount - 1, Selectable(index),
         NEW x \in Accesses \cup {"IDCODE"}, NEW s, DOMAIN s = Fields, s.tap = "idle"
  PROVE  LET v == WriteIr(s, x, index)
         IN  /\ DOMAIN v = Fields /\ v.tap = "idle" /\ ~v.tms /\ v.tdi = One
             /\ v.answer = s.answer /\ v.taken = s.taken
             /\ Described /\ s.out \in Seq(Tokens) =>
                   v.ir = Selected(index, x) /\ v.out \in Seq(Tokens)
<1>. DEFINE p == dap_jtag_ir_before[index]
            n == ArmIrLength
            L == (p + n) + dap_jtag_ir_after[index]
            X == Addressed(x, p, n)
            v == WriteIr(s, x, index)
<1>0. /\ p \in Nat /\ n \in Nat \ {0} /\ dap_jtag_ir_after[index] \in Nat
      /\ dap_jtag_ir_length[index] = n
      /\ Described => index \in Devices
  BY IndexTypes
<1>1. PICK e : /\ v = Finish(e)
               /\ DOMAIN e = Fields /\ e.tap = "ex1IR" /\ e.tms
               /\ e.answer = s.answer /\ e.taken = s.taken
               /\ Described /\ s.out \in Seq(Tokens) => IrFed(e, s, x, index, L)
  BY IrScan
<1>. HIDE DEF v
<1>2. /\ DOMAIN v = Fields /\ v.tap = "idle" /\ ~v.tms /\ v.tdi = One
      /\ v.answer = e.answer /\ v.out = e.out /\ v.taken = e.taken
  BY <1>1, FinishFields
<1>3. PICK z : z.tap = "upIR" /\ z.line = e.line /\ v.ir = [d \in Devices |-> Decoded(Slice(z, d))]
  BY <1>1, FinishFields, SMTT(20)
<1>4. ASSUME Described, s.out \in Seq(Tokens)
      PROVE  v.ir = Selected(index, x) /\ v.out \in Seq(Tokens)
  <2>0. PICK c \in Seq(Tokens) : \E q :
           /\ q.tap = "capIR" /\ Len(c) = Start(q, Len(chain)) - 1
           /\ Fed(e, c, X, Len(s.out), L)
    BY <1>0, <1>1, <1>4 DEF IrFed
  <2>1. PICK q :
           /\ q.tap = "capIR" /\ Len(c) = Start(q, Len(chain)) - 1
           /\ Fed(e, c, X, Len(s.out), L)
    BY <2>0
  <2>2. index \in Devices
    BY <1>0, <1>4
  <2>3. Start(q, Len(chain)) = L + 1 /\ Start(z, Len(chain)) = L + 1 /\ L \in Nat
    BY <1>0, <1>3, <1>4, <2>1, <2>2, IrStarts, SMTT(20)
  <2>. HIDE DEF L, X
  <2>4. Len(c) = L
    BY <2>1, <2>3
  <2>5. /\ e.line \in Seq(Tokens) /\ Len(e.line) = L /\ e.out \in Seq(Tokens)
        /\ \A k \in 1 .. L : e.line[k] = IF L + k <= L THEN c[L + k] ELSE X[(L + k) - L]
    BY <2>1, <2>4 DEF Fed
  <2>6. \A k \in 1 .. L : e.line[k] = X[k]
    <3>1. \A k \in 1 .. L : ~(L + k <= L) /\ (L + k) - L = k
      BY <2>3
    <3>. QED
      BY <2>5, <3>1
  <2>7. z.line \in Seq(Tokens) /\ Len(z.line) = Start(z, Len(chain)) - 1
        /\ \A k \in 1 .. Len(z.line) : z.line[k] = X[k]
    BY <1>3, <2>3, <2>5, <2>6
  <2>8. [d \in Devices |-> Decoded(Slice(z, d))] = Selected(index, x)
    <3>1. X = Addressed(x, dap_jtag_ir_before[index], dap_jtag_ir_length[index])
      BY <1>0 DEF X
    <3>2. \A k \in 1 .. Len(z.line) :
             z.line[k] = Addressed(x, dap_jtag_ir_before[index], dap_jtag_ir_length[index])[k]
      BY <2>7, <3>1
    <3>. QED
      BY <1>3, <1>4, <2>2, <2>7, <3>2, DecodedStream
  <2>. QED
    BY <1>2, <1>3, <2>5, <2>8
<1>. QED
  BY <1>1, <1>2, <1>4 DEF v

(***************************************************************************)
(* The scan of data.                                                       *)
(***************************************************************************)

\* From Shift-DR to Exit1-DR: all but the registers between TDI and TDO stay as they
\* are.
Exited(e, s) ==
    /\ DOMAIN e = Fields /\ e.tap = "ex1DR" /\ e.tms
    /\ e.answer = s.answer /\ e.ir = s.ir /\ e.taken = s.taken

LEMMA ReadOut ==
  ASSUME NEW s, DOMAIN s = Fields, s.tap = "shDR", ~s.tms, NEW r \in Nat
  PROVE  LET e == Run(Raised(Run(s, r)), 1)
         IN  /\ Exited(e, s)
             /\ \A c \in Seq(Tokens) : \A X : \A m \in Nat, n \in Nat :
                   (/\ Fed(s, c, X, m, n) /\ n + (r + 1) <= Len(c) /\ s.tdi \in Tokens
                    /\ \A j \in 1 .. r + 1 : X[n + j] = s.tdi)
                   => Fed(e, c, X, m, n + (r + 1))
<1>. DEFINE a == Run(s, r)
            u == Raised(a)
            e == Clock(u)
<1>1. Scanning(a, s) /\ a.tms = s.tms /\ a.tdi = s.tdi /\ s.tap \in ShiftTaps
  BY RunStays DEF ShiftTaps
<1>2. Run(u, 1) = e
  BY FewClocks
<1>3. ASSUME NEW c \in Seq(Tokens), NEW X, NEW m \in Nat, NEW n \in Nat,
             Fed(s, c, X, m, n), n + (r + 1) <= Len(c), s.tdi \in Tokens,
             \A j \in 1 .. r + 1 : X[n + j] = s.tdi
      PROVE  Fed(a, c, X, m, n + r) /\ X[(n + r) + 1] = s.tdi
  <2>1. n + r <= Len(c) /\ \A j \in 1 .. r : X[n + j] = s.tdi
    BY <1>3, SMTT(20)
  <2>2. X[(n + r) + 1] = s.tdi
    <3>1. r + 1 \in 1 .. r + 1 /\ n + (r + 1) = (n + r) + 1
      OBVIOUS
    <3>2. X[n + (r + 1)] = s.tdi
      BY <1>3, <3>1
    <3>. QED
      BY <3>1, <3>2
  <2>3. Fed(Run(s, r), c, X, m, n + r)
    BY <1>1, <1>3, <2>1, RunFed
  <2>. QED
    BY <2>2, <2>3
<1>. HIDE DEF a
<1>4. SameButTms(u, a) /\ u.tms
  BY <1>1, TmsFields DEF Scanning
<1>. HIDE DEF u
<1>5. /\ DOMAIN u = Fields /\ u.tap = "shDR" /\ u.tdi = s.tdi /\ u.line = a.line /\ u.out = a.out
      /\ u.answer = s.answer /\ u.taken = s.taken /\ u.ir = s.ir /\ u.tap \in ShiftTaps
  BY <1>1, <1>4 DEF SameButTms, Scanning, ShiftTaps
<1>6. NextTap(u) \notin {"reset", "upIR", "upDR"}
  BY <1>4, <1>5 DEF NextTap, TapHigh
<1>7. Exited(e, s)
  BY <1>4, <1>5, ExitClock DEF Ex1, Exited
<1>8. ASSUME NEW c \in Seq(Tokens), NEW X, NEW m \in Nat, NEW n \in Nat,
             Fed(s, c, X, m, n), n + (r + 1) <= Len(c), s.tdi \in Tokens,
             \A j \in 1 .. r + 1 : X[n + j] = s.tdi
      PROVE  Fed(e, c, X, m, n + (r + 1))
  <2>. DEFINE k == n + r
  <2>1. Fed(a, c, X, m, k) /\ X[k + 1] = s.tdi
    BY <1>3, <1>8
  <2>2. Fed(u, c, X, m, k)
    BY <1>5, <2>1, FedPins
  <2>3. k \in Nat /\ k < Len(c) /\ k + 1 = n + (r + 1)
    BY <1>8
  <2>. HIDE DEF k
  <2>4. Fed(Clock(u), c, X, m, k + 1)
    BY <1>5, <1>6, <1>8, <2>1, <2>2, <2>3, FedClock
  <2>. QED
    BY <2>3, <2>4
<1>. HIDE DEF e
<1>. QED
  BY <1>2, <1>7, <1>8 DEF u, a

LEMMA WriteOut ==
  ASSUME NEW s, DOMAIN s = Fields, s.tap = "shDR", ~s.tms,
         NEW f \in Seq(Tokens), NEW bit \in Tokens
  PROVE  LET e == Write(Raised(Write(s, f)), <<bit>>)
         IN  /\ Exited(e, s)
             /\ \A c \in Seq(Tokens) : \A X : \A m \in Nat, n \in Nat :
                   (/\ Fed(s, c, X, m, n) /\ n + (Len(f) + 1) <= Len(c)
                    /\ \A j \in 1 .. Len(f) : X[n + j] = f[j]
                    /\ X[(n + Len(f)) + 1] = bit)
                   => Fed(e, c, X, m, n + (Len(f) + 1))
<1>. DEFINE a == Write(s, f)
            t == Raised(a)
            u == Tdi(t, bit)
            e == Clock(u)
<1>1. Scanning(a, s) /\ a.tms = s.tms /\ s.tap \in ShiftTaps /\ Len(f) \in Nat
  <2>1. s.tap \in ShiftTaps /\ Len(f) \in Nat
    BY DEF ShiftTaps
  <2>. QED
    BY <2>1, WriteStays
<1>2. Write(t, <<bit>>) = e
  BY WriteOne
<1>3. ASSUME NEW c \in Seq(Tokens), NEW X, NEW m \in Nat, NEW n \in Nat,
             Fed(s, c, X, m, n), n + (Len(f) + 1) <= Len(c),
             \A j \in 1 .. Len(f) : X[n + j] = f[j]
      PROVE  Fed(a, c, X, m, n + Len(f))
  <2>1. n + Len(f) <= Len(c)
    BY <1>1, <1>3
  <2>. QED
    BY <1>1, <1>3, <2>1, WriteFed
<1>. HIDE DEF a
<1>4. SameButTms(t, a) /\ t.tms
  BY <1>1, TmsFields DEF Scanning
<1>. HIDE DEF t
<1>5. /\ DOMAIN u = Fields /\ u.tap = "shDR" /\ u.tms /\ u.tdi = bit /\ u.line = a.line
      /\ u.out = a.out
      /\ u.answer = s.answer /\ u.taken = s.taken /\ u.ir = s.ir
  BY <1>1, <1>4, PinFields DEF SameButTms, Scanning, SameDevices
<1>. HIDE DEF u
<1>6. NextTap(u) \notin {"reset", "upIR", "upDR"} /\ u.tap \in ShiftTaps
  BY <1>5 DEF NextTap, TapHigh, ShiftTaps
<1>7. Exited(e, s)
  BY <1>5, <1>6, ExitClock DEF Ex1, Exited
<1>8. ASSUME NEW c \in Seq(Tokens), NEW X, NEW m \in Nat, NEW n \in Nat,
             Fed(s, c, X, m, n), n + (Len(f) + 1) <= Len(c),
             \A j \in 1 .. Len(f) : X[n + j] = f[j],
             X[(n + Len(f)) + 1] = bit
      PROVE  Fed(e, c, X, m, n + (Len(f) + 1))
  <2>. DEFINE k == n + Len(f)
  <2>1. Fed(a, c, X, m, k) /\ X[k + 1] = bit
    BY <1>3, <1>8
  <2>2. Fed(u, c, X, m, k)
    BY <1>5, <2>1, FedPins
  <2>3. k \in Nat /\ k < Len(c) /\ k + 1 = n + (Len(f) + 1)
    BY <1>1, <1>8
  <2>. HIDE DEF k
  <2>4. Fed(Clock(u), c, X, m, k + 1)
    BY <1>5, <1>6, <2>1, <2>2, <2>3, FedClock
  <2>. QED
    BY <2>3, <2>4
<1>. HIDE DEF e
<1>. QED
  BY <1>2, <1>7, <1>8 DEF t, a

\* Clocks in Run-Test/Idle do nothing.
LEMMA IdleStays ==
  ASSUME NEW s, DOMAIN s = Fields, s.tap = "idle", ~s.tms, NEW n \in Nat
  PROVE  Scanning(Run(s, n), s) /\ Run(s, n).tdi = s.tdi
<1>. DEFINE Good(v) == Scanning(v, s) /\ v.tms = s.tms /\ v.tdi = s.tdi
            T == {k \in Nat : Good(Run(s, k))}
<1>1. 0 \in T
  BY RunNext DEF Scanning
<1>2. ASSUME NEW k \in T PROVE k + 1 \in T
  <2>. DEFINE v == Run(s, k)
  <2>1. k \in Nat /\ Good(v)
    OBVIOUS
  <2>2. Run(s, k + 1) = Clock(v)
    BY <2>1, RunNext
  <2>. HIDE DEF v
  <2>3. NextTap(v) = "idle" /\ v.tap \notin ShiftTaps /\ DOMAIN v = Fields
    BY <2>1 DEF Scanning, NextTap, TapLow, ShiftTaps
  <2>4. Good(Clock(v))
    BY <2>1, <2>3, IdleClock DEF Scanning
  <2>. HIDE DEF Good
  <2>. QED
    BY <2>1, <2>2, <2>4
<1>3. T \in SUBSET Nat
  OBVIOUS
<1>. HIDE DEF T
<1>4. T = Nat
  BY <1>1, <1>2, <1>3, Pulses!Induction
<1>. QED
  BY <1>4 DEF T

\* n bits of X are in a chain that has captured with x in device index.
DrFed(v, x, index, X, m, n) ==
    \E q : q.tap = "capDR" /\ q.ir = Selected(index, x) /\ Fed(v, Captured(q), X, m, n)

\* What the probe sees of the chain: the length, and the bits of the device.
LEMMA DrChain ==
  ASSUME Inv, NEW q, q.tap = "capDR", NEW index \in Devices,
         NEW x \in Accesses \cup {"IDCODE"}, q.ir = Selected(index, x)
  PROVE  /\ Captured(q) \in Seq(Tokens) /\ DrLength(x) \in Nat \ {0} /\ Len(chain) \in Nat
         /\ Len(Captured(q)) = (Len(chain) + DrLength(x)) - 1
         /\ \A k \in 1 .. DrLength(x) : Captured(q)[index + k] = <<"device", index, k>>
<1>. DEFINE W == DrLength(x)
            c == Captured(q)
<1>1. /\ Wide(q) /\ W \in Nat \ {0} /\ Length(q, index) = W
      /\ Start(q, index) = index + 1
      /\ Start(q, Len(chain)) = Len(chain) + W
  BY DrStarts
<1>2. /\ c \in Seq(Tokens)
      /\ Len(c) = Start(q, Len(chain)) - 1
      /\ \A k \in Nat \ {0} :
            k <= Length(q, index) => c[(Start(q, index) + k) - 1] = <<"device", index, k>>
  BY <1>1, CapturedIs
<1>3. index \in Nat /\ Len(chain) \in Nat
  BY ChainLength DEF Devices
<1>. HIDE DEF W, c
<1>4. ASSUME NEW k \in 1 .. W PROVE c[index + k] = <<"device", index, k>>
  <2>1. ((index + 1) + k) - 1 = index + k /\ k \in Nat \ {0} /\ k <= W
    BY <1>1, <1>3
  <2>2. c[((index + 1) + k) - 1] = <<"device", index, k>>
    BY <1>1, <1>2, <2>1
  <2>. QED
    BY <2>1, <2>2
<1>. QED
  BY <1>1, <1>2, <1>3, <1>4 DEF W, c

LEMMA ShiftDrDoes ==
  ASSUME NEW s, DOMAIN s = Fields, s.tap = "idle", NEW index \in Nat
  PROVE  LET v == ShiftDr(s, index)
         IN  /\ DOMAIN v = Fields /\ v.tap = "shDR" /\ ~v.tms /\ v.tdi = s.tdi
             /\ v.answer = s.answer /\ v.ir = s.ir /\ v.taken = s.taken
             /\ \A x \in Accesses \cup {"IDCODE"} : \A X :
                   (/\ Inv /\ index \in Devices /\ s.ir = Selected(index, x)
                    /\ s.out \in Seq(Tokens) /\ s.tdi \in Tokens
                    /\ \A k \in 1 .. index : X[k] = s.tdi)
                   => DrFed(v, x, index, X, Len(s.out), index)
<1>. DEFINE a == Lowered(Run(Raised(s), 1))
            b == Run(a, 2)
            v == Run(b, index)
<1>1. ShiftDr(s, index) = v
  <2>1. ShiftDr(s, index) = Run(a, 2 + index)
    BY DEF ShiftDr, Lowered, Raised
  <2>. HIDE DEF a
  <2>. QED
    BY <2>1, RunOn
<1>2. /\ DOMAIN b = Fields /\ b.tap = "shDR" /\ ~b.tms /\ b.tdi = s.tdi
      /\ b.answer = s.answer /\ b.ir = s.ir /\ b.taken = s.taken /\ b.out = s.out
  BY ToShiftDR
<1>3. PICK q : q.tap = "capDR" /\ q.ir = s.ir /\ b.line = Captured(q)
  BY ToShiftDR
<1>. HIDE DEF b
<1>4. Scanning(v, b) /\ v.tms = b.tms /\ v.tdi = b.tdi /\ b.tap \in ShiftTaps
  BY <1>2, RunStays DEF ShiftTaps
<1>5. ASSUME Inv, index \in Devices, NEW x \in Accesses \cup {"IDCODE"}, NEW X,
             s.ir = Selected(index, x), s.out \in Seq(Tokens), s.tdi \in Tokens,
             \A k \in 1 .. index : X[k] = s.tdi
      PROVE  DrFed(v, x, index, X, Len(s.out), index)
  <2>. DEFINE c == Captured(q)
              m == Len(s.out)
              W == DrLength(x)
  <2>1. c \in Seq(Tokens) /\ W \in Nat \ {0} /\ Len(chain) \in Nat
        /\ Len(c) = (Len(chain) + W) - 1
    BY <1>3, <1>5, DrChain
  <2>2. m \in Nat /\ index <= Len(c)
    BY <1>5, <2>1 DEF Devices
  <2>3. Fed(b, c, X, m, 0)
    <3>1. b.line \in Seq(Tokens) /\ b.out \in Seq(Tokens)
      BY <1>2, <1>3, <1>5, <2>1
    <3>2. Fed(b, b.line, X, Len(b.out), 0)
      BY <3>1, FedStart
    <3>. QED
      BY <1>2, <1>3, <3>2, Zenon
  <2>. HIDE DEF c, m
  <2>4. Fed(Run(b, index), c, X, m, 0 + index)
    <3>1. 0 + index <= Len(c) /\ 0 \in Nat /\ b.tdi \in Tokens
      BY <1>2, <1>5, <2>2
    <3>2. ASSUME NEW j \in 1 .. index PROVE X[0 + j] = b.tdi
      <4>1. 0 + j = j
        OBVIOUS
      <4>. QED
        BY <1>2, <1>5, <4>1
    <3>. QED
      BY <1>2, <1>4, <2>1, <2>2, <2>3, <3>1, <3>2, RunFed
  <2>5. Fed(v, c, X, m, index)
    BY <2>4
  <2>. QED
    BY <1>3, <1>5, <2>5 DEF DrFed, c, m
<1>. HIDE DEF v
<1>6. /\ DOMAIN v = Fields /\ v.tap = "shDR" /\ ~v.tms /\ v.tdi = s.tdi
      /\ v.answer = s.answer /\ v.ir = s.ir /\ v.taken = s.taken
  BY <1>2, <1>4 DEF Scanning
<1>. QED
  BY <1>1, <1>5, <1>6

\* The bits of an operation of kind k on device index: past the devices ahead, its
\* request, its data, and past those behind.
Sent(k, index) ==
    [j \in Nat |->
        IF j <= index THEN One
        ELSE IF j <= index + 3 THEN <<"request", 0, j - index>>
        ELSE IF IsRead(k) THEN <<"request", 0, 3>>
        ELSE IF j <= (index + 3) + DataBits THEN <<k, 0, j - (index + 3)>>
        ELSE <<k, 0, DataBits>>]

LEMMA AccessLength ==
  ASSUME NEW x \in Accesses
  PROVE  DrLength(x) = 3 + DataBits /\ DrLength(x) \in Nat /\ DrLength(x) >= 3
         /\ DataBits \in Nat \ {0}
<1>1. DrLength(x) = 3 + DataBits
  BY DEF DrLength, Accesses
<1>2. DataBits \in Nat \ {0}
  BY JtagAssumption
<1>. QED
  BY <1>1, <1>2

\* The device shifts out what it answers while the request is shifted in.
LEMMA AckedIs ==
  ASSUME NEW s, DOMAIN s = Fields, s.tap = "idle", NEW index \in Nat
  PROVE  LET v == Write(ShiftDr(s, index), Request)
         IN  /\ DOMAIN v = Fields /\ v.tap = "shDR" /\ ~v.tms /\ v.tdi = <<"request", 0, 3>>
             /\ v.answer = s.answer /\ v.ir = s.ir /\ v.taken = s.taken
             /\ \A x \in Accesses, k \in Kinds :
                   (/\ Inv /\ index \in Devices /\ s.ir = Selected(index, x)
                    /\ s.out \in Seq(Tokens) /\ s.tdi = One)
                   => /\ DrFed(v, x, index, Sent(k, index), Len(s.out), index + 3)
                      /\ Len(v.out) = Len(s.out) + (index + 3)
                      /\ SubSeq(v.out, Len(v.out) - 2, Len(v.out)) = DeviceBits(index, 3)
<1>. DEFINE a == ShiftDr(s, index)
            b == Request
            v == Write(a, b)
<1>1. /\ DOMAIN a = Fields /\ a.tap = "shDR" /\ ~a.tms /\ a.tdi = s.tdi
      /\ a.answer = s.answer /\ a.ir = s.ir /\ a.taken = s.taken
      /\ \A x \in Accesses \cup {"IDCODE"} : \A X :
            (/\ Inv /\ index \in Devices /\ s.ir = Selected(index, x)
             /\ s.out \in Seq(Tokens) /\ s.tdi \in Tokens
             /\ \A k \in 1 .. index : X[k] = s.tdi)
            => DrFed(a, x, index, X, Len(s.out), index)
  BY ShiftDrDoes
<1>2. b \in Seq(Tokens) /\ Len(b) = 3 /\ \A j \in 1 .. 3 : b[j] = <<"request", 0, j>>
  <2>1. "request" \in Sources
    BY DEF Sources
  <2>2. ASSUME NEW n \in Nat \ {0}
        PROVE  /\ BitsOf("request", n) \in Seq(Tokens) /\ Len(BitsOf("request", n)) = n
               /\ \A j \in 1 .. n : BitsOf("request", n)[j] = <<"request", 0, j>>
    BY <2>1, SourceBits
  <2>3. 3 \in Nat \ {0}
    OBVIOUS
  <2>. QED
    BY <2>2, <2>3, Zenon DEF Request
<1>. HIDE DEF a, b
<1>3. Scanning(v, a) /\ v.tms = a.tms /\ v.tdi = b[3] /\ a.tap \in ShiftTaps
  <2>1. a.tap \in ShiftTaps /\ Len(b) \in Nat /\ Len(b) > 0
    BY <1>1, <1>2 DEF ShiftTaps
  <2>2. Scanning(v, a) /\ v.tms = a.tms /\ v.tdi = b[Len(b)]
    BY <1>1, <2>1, WriteStays
  <2>. QED
    BY <1>2, <2>1, <2>2
<1>4. ASSUME NEW x \in Accesses, NEW k \in Kinds, Inv, index \in Devices,
             s.ir = Selected(index, x), s.out \in Seq(Tokens), s.tdi = One
      PROVE  /\ DrFed(v, x, index, Sent(k, index), Len(s.out), index + 3)
             /\ Len(v.out) = Len(s.out) + (index + 3)
             /\ SubSeq(v.out, Len(v.out) - 2, Len(v.out)) = DeviceBits(index, 3)
  <2>. DEFINE X == Sent(k, index)
              m == Len(s.out)
              W == DrLength(x)
  <2>1. One \in Tokens
    <3>1. "one" \in Sources
      BY DEF Sources
    <3>. QED
      BY <3>1, Token DEF One
  <2>2. /\ \A j \in Nat : j <= index => X[j] = One
        /\ \A j \in Nat : ~(j <= index) /\ j <= index + 3 => X[j] = <<"request", 0, j - index>>
    BY DEF Sent
  <2>. HIDE DEF X
  <2>3. DrFed(a, x, index, X, m, index)
    <3>1. \A j \in 1 .. index : X[j] = s.tdi
      BY <1>4, <2>2
    <3>2. s.tdi \in Tokens
      BY <1>4, <2>1
    <3>. QED
      BY <1>1, <1>4, <3>1, <3>2
  <2>4. PICK q : q.tap = "capDR" /\ q.ir = Selected(index, x) /\ Fed(a, Captured(q), X, m, index)
    BY <2>3 DEF DrFed
  <2>. DEFINE c == Captured(q)
  <2>5. /\ c \in Seq(Tokens) /\ Len(chain) \in Nat /\ Len(c) = (Len(chain) + W) - 1
        /\ \A j \in 1 .. W : c[index + j] = <<"device", index, j>>
    BY <1>4, <2>4, DrChain
  <2>6. W \in Nat /\ W >= 3
    BY AccessLength
  <2>. HIDE DEF c, m, W
  <2>7. Fed(v, c, X, m, index + 3)
    <3>1. ASSUME NEW j \in 1 .. Len(b) PROVE X[index + j] = b[j]
      <4>. DEFINE e == index + j
      <4>1. e \in Nat /\ ~(e <= index) /\ e <= index + 3 /\ e - index = j /\ j \in 1 .. 3
        BY <1>2
      <4>. HIDE DEF e
      <4>2. X[e] = <<"request", 0, j>>
        BY <2>2, <4>1
      <4>. QED
        BY <1>2, <4>1, <4>2 DEF e
    <3>2. index + Len(b) <= Len(c) /\ m \in Nat
      BY <1>2, <1>4, <2>5, <2>6 DEF Devices, m
    <3>3. Fed(a, c, X, m, index)
      BY <2>4 DEF c
    <3>4. Fed(Write(a, b), c, X, m, index + Len(b))
      BY <1>1, <1>2, <1>3, <2>5, <3>1, <3>2, <3>3, WriteFed
    <3>. QED
      BY <1>2, <3>4
  <2>8. /\ v.out \in Seq(Tokens) /\ Len(v.out) = m + (index + 3)
        /\ \A j \in 1 .. index + 3 : v.out[m + j] = c[j]
    BY <2>7 DEF Fed
  <2>. DEFINE o == v.out
              p == m + index
              y == SubSeq(o, Len(o) - 2, Len(o))
  <2>. HIDE DEF v, o
  <2>9. p \in Nat /\ m \in Nat /\ Len(o) = p + 3
    <3>1. m \in Nat
      BY <1>4 DEF m
    <3>2. Len(o) = m + (index + 3)
      BY <2>8 DEF o
    <3>. QED
      BY <3>1, <3>2
  <2>10. y = DeviceBits(index, 3)
    <3>1. LET z == SubSeq(o, p + 1, ((p + 1) + 3) - 1)
          IN  /\ z \in Seq(Tokens) /\ Len(z) = 3
              /\ \A j \in 1 .. 3 : z[j] = o[((p + 1) + j) - 1]
      <4>1. p + 1 \in Nat \ {0} /\ ((p + 1) + 3) - 1 <= Len(o) /\ o \in Seq(Tokens)
        BY <2>8, <2>9 DEF o
      <4>2. ASSUME NEW n \in Nat, ((p + 1) + n) - 1 <= Len(o)
            PROVE  LET z == SubSeq(o, p + 1, ((p + 1) + n) - 1)
                   IN  /\ z \in Seq(Tokens) /\ Len(z) = n
                       /\ \A j \in 1 .. n : z[j] = o[((p + 1) + j) - 1]
        <5>. DEFINE g == p + 1
        <5>1. g \in Nat \ {0}
          BY <4>1
        <5>. HIDE DEF g, p
        <5>. QED
          BY <4>1, <4>2, <5>1, SubSeqIs DEF g
      <4>. QED
        BY <4>1, <4>2
    <3>2. p + 1 = Len(o) - 2 /\ ((p + 1) + 3) - 1 = Len(o)
      BY <2>9
    <3>3. /\ y \in Seq(Tokens) /\ Len(y) = 3
          /\ \A j \in 1 .. 3 : y[j] = o[((p + 1) + j) - 1]
      BY <3>1, <3>2
    <3>4. ASSUME NEW j \in 1 .. 3 PROVE o[((p + 1) + j) - 1] = <<"device", index, j>>
      <4>1. ((p + 1) + j) - 1 = m + (index + j) /\ index + j \in 1 .. index + 3 /\ j \in 1 .. W
        BY <2>6, <2>9
      <4>2. o[m + (index + j)] = c[index + j]
        BY <2>8, <4>1 DEF o
      <4>. QED
        BY <2>5, <4>1, <4>2 DEF W
    <3>. HIDE DEF y
    <3>5. y = [j \in 1 .. 3 |-> y[j]]
      BY <3>3
    <3>6. y = [j \in 1 .. 3 |-> <<"device", index, j>>]
      BY <3>3, <3>4, <3>5
    <3>. QED
      BY <3>6 DEF DeviceBits
  <2>11. DrFed(v, x, index, X, m, index + 3)
    BY <2>4, <2>7 DEF DrFed, c
  <2>. QED
    BY <2>8, <2>10, <2>11 DEF X, m, o
<1>5. /\ DOMAIN v = Fields /\ v.tap = "shDR" /\ ~v.tms /\ v.tdi = <<"request", 0, 3>>
      /\ v.answer = s.answer /\ v.ir = s.ir /\ v.taken = s.taken
  <2>1. b[3] = <<"request", 0, 3>>
    BY <1>2
  <2>. QED
    BY <1>1, <1>3, <2>1 DEF Scanning
<1>. HIDE DEF v
<1>. QED
  BY <1>4, <1>5 DEF v, a, b

LEMMA WordIs ==
  ASSUME NEW k \in Kinds
  PROVE  /\ DataBits \in Nat \ {0}
         /\ IsRead(k) => Word(k) = <<>>
         /\ ~IsRead(k) =>
              LET w == Word(k)
              IN  /\ w # <<>> /\ w \in Seq(Tokens) /\ Len(w) = DataBits
                  /\ \A j \in 1 .. DataBits : w[j] = <<k, 0, j>>
                  /\ Front(w) \in Seq(Tokens) /\ Len(Front(w)) = DataBits - 1
                  /\ \A j \in 1 .. DataBits - 1 : Front(w)[j] = <<k, 0, j>>
                  /\ Last(w) = <<k, 0, DataBits>> /\ Last(w) \in Tokens
<1>1. DataBits \in Nat \ {0} /\ k \in Sources
  BY JtagAssumption DEF Sources
<1>2. IsRead(k) => Word(k) = <<>>
  BY DEF Word
<1>3. ASSUME ~IsRead(k)
      PROVE  LET w == Word(k)
             IN  /\ w # <<>> /\ w \in Seq(Tokens) /\ Len(w) = DataBits
                 /\ \A j \in 1 .. DataBits : w[j] = <<k, 0, j>>
                 /\ Front(w) \in Seq(Tokens) /\ Len(Front(w)) = DataBits - 1
                 /\ \A j \in 1 .. DataBits - 1 : Front(w)[j] = <<k, 0, j>>
                 /\ Last(w) = <<k, 0, DataBits>> /\ Last(w) \in Tokens
  <2>. DEFINE w == BitsOf(k, DataBits)
  <2>1. /\ w \in Seq(Tokens) /\ Len(w) = DataBits
        /\ \A j \in 1 .. DataBits : w[j] = <<k, 0, j>>
        /\ Front(w) \in Seq(Tokens) /\ Len(Front(w)) = DataBits - 1
        /\ \A j \in 1 .. DataBits - 1 : Front(w)[j] = <<k, 0, j>>
        /\ Last(w) = <<k, 0, DataBits>> /\ Last(w) \in Tokens
    BY <1>1, SourceBits
  <2>2. Word(k) = w
    BY <1>3 DEF Word
  <2>. HIDE DEF w
  <2>3. w # <<>>
    BY <1>1, <2>1
  <2>. QED
    BY <2>1, <2>2, <2>3
<1>. QED
  BY <1>1, <1>2, <1>3

\* The data phase, in terms of the two ways out.
LEMMA DataWays ==
  ASSUME NEW s, NEW k \in Kinds, NEW cnt \in Nat
  PROVE  /\ IsRead(k) => \E r \in Nat : /\ r + 1 = DataBits + cnt
                                        /\ Data(s, Word(k), cnt) = Run(Raised(Run(s, r)), 1)
         /\ ~IsRead(k) /\ cnt > 0 =>
               Data(s, Word(k), cnt) = Run(Raised(Run(Write(s, Word(k)), cnt - 1)), 1)
         /\ ~IsRead(k) /\ ~(cnt > 0) =>
               Data(s, Word(k), cnt) =
                  Write(Raised(Write(s, Front(Word(k)))), <<Last(Word(k))>>)
<1>. DEFINE w == Word(k)
<1>1. /\ DataBits \in Nat \ {0} /\ (IsRead(k) => w = <<>>) /\ (~IsRead(k) => w # <<>>)
  BY WordIs
<1>. HIDE DEF w
<1>2. CASE IsRead(k) /\ cnt > 0
  <2>1. Data(s, w, cnt) = Run(Raised(Run(Run(s, DataBits), cnt - 1)), 1)
    BY <1>1, <1>2 DEF Data, Raised
  <2>2. cnt - 1 \in Nat /\ DataBits \in Nat
    BY <1>1, <1>2
  <2>3. Run(s, DataBits + (cnt - 1)) = Run(Run(s, DataBits), cnt - 1)
    BY <2>2, RunOn
  <2>. DEFINE r == DataBits + (cnt - 1)
  <2>4. r \in Nat /\ r + 1 = DataBits + cnt
    BY <1>1, <1>2
  <2>5. Data(s, w, cnt) = Run(Raised(Run(s, r)), 1)
    BY <2>1, <2>3
  <2>. HIDE DEF r
  <2>. QED
    BY <1>2, <2>4, <2>5 DEF w
<1>3. CASE IsRead(k) /\ ~(cnt > 0)
  <2>. DEFINE r == DataBits - 1
  <2>1. Data(s, w, cnt) = Run(Raised(Run(s, r)), 1)
    BY <1>1, <1>3 DEF Data, Raised
  <2>2. r \in Nat /\ r + 1 = DataBits + cnt
    BY <1>1, <1>3
  <2>. HIDE DEF r
  <2>. QED
    BY <1>3, <2>1, <2>2 DEF w
<1>4. CASE ~IsRead(k) /\ cnt > 0
  <2>1. Data(s, w, cnt) = Run(Raised(Run(Write(s, w), cnt - 1)), 1)
    BY <1>1, <1>4 DEF Data, Raised
  <2>. QED
    BY <1>4, <2>1 DEF w
<1>5. CASE ~IsRead(k) /\ ~(cnt > 0)
  <2>1. Data(s, w, cnt) = Write(Raised(Write(s, Front(w))), <<Last(w)>>)
    BY <1>1, <1>5 DEF Data, Raised
  <2>. QED
    BY <1>5, <2>1 DEF w
<1>. QED
  BY <1>2, <1>3, <1>4, <1>5

\* All of the data is in the chain when Shift-DR is left.
LEMMA DataIs ==
  ASSUME NEW s, DOMAIN s = Fields, s.tap = "shDR", ~s.tms, NEW k \in Kinds, NEW cnt \in Nat
  PROVE  LET e == Data(s, Word(k), cnt)
         IN  /\ Exited(e, s)
             /\ \A x \in Accesses, index \in Nat, m \in Nat :
                   (/\ Inv /\ index \in Devices /\ cnt = (Len(chain) - index) - 1
                    /\ s.tdi = <<"request", 0, 3>>
                    /\ DrFed(s, x, index, Sent(k, index), m, index + 3))
                   => DrFed(e, x, index, Sent(k, index), m, ((index + 3) + DataBits) + cnt)
<1>. DEFINE e == Data(s, Word(k), cnt)
            w == Word(k)
            D == DataBits
            Ready(x, index, m) ==
                /\ Inv /\ index \in Devices /\ cnt = (Len(chain) - index) - 1
                /\ s.tdi = <<"request", 0, 3>>
                /\ DrFed(s, x, index, Sent(k, index), m, index + 3)
<1>1. /\ D \in Nat \ {0}
      /\ ~IsRead(k) =>
              /\ w # <<>> /\ w \in Seq(Tokens) /\ Len(w) = D
              /\ \A j \in 1 .. D : w[j] = <<k, 0, j>>
              /\ Front(w) \in Seq(Tokens) /\ Len(Front(w)) = D - 1
              /\ \A j \in 1 .. D - 1 : Front(w)[j] = <<k, 0, j>>
              /\ Last(w) = <<k, 0, D>> /\ Last(w) \in Tokens
  BY WordIs
<1>2. /\ IsRead(k) => \E r \in Nat : r + 1 = D + cnt /\ e = Run(Raised(Run(s, r)), 1)
      /\ ~IsRead(k) /\ cnt > 0 => e = Run(Raised(Run(Write(s, w), cnt - 1)), 1)
      /\ ~IsRead(k) /\ ~(cnt > 0) => e = Write(Raised(Write(s, Front(w))), <<Last(w)>>)
  BY DataWays
<1>. HIDE DEF e, w, D
<1>3. ASSUME NEW x \in Accesses, NEW index \in Nat, NEW m \in Nat, Ready(x, index, m)
      PROVE  \E c \in Seq(Tokens) : \E q :
                /\ q.tap = "capDR" /\ q.ir = Selected(index, x) /\ c = Captured(q)
                /\ Fed(s, c, Sent(k, index), m, index + 3)
                /\ Len(c) = ((index + 3) + D) + cnt
  <2>1. PICK q : q.tap = "capDR" /\ q.ir = Selected(index, x)
                 /\ Fed(s, Captured(q), Sent(k, index), m, index + 3)
    BY <1>3 DEF DrFed
  <2>. DEFINE c == Captured(q)
              W == DrLength(x)
  <2>2. c \in Seq(Tokens) /\ Len(chain) \in Nat /\ Len(c) = (Len(chain) + W) - 1
    BY <1>3, <2>1, DrChain
  <2>3. W = 3 + D
    BY AccessLength DEF D
  <2>. HIDE DEF c, W
  <2>4. Len(c) = ((index + 3) + D) + cnt
    BY <1>1, <1>3, <2>2, <2>3
  <2>. QED
    BY <2>1, <2>2, <2>4 DEF c
<1>4. ASSUME NEW index \in Nat
      PROVE  LET X == Sent(k, index)
             IN  /\ IsRead(k) => \A j \in Nat : ~(j <= index + 3) => X[j] = <<"request", 0, 3>>
                 /\ ~IsRead(k) => \A j \in Nat : ~(j <= index + 3) /\ j <= (index + 3) + D
                                     => X[j] = <<k, 0, j - (index + 3)>>
                 /\ ~IsRead(k) => \A j \in Nat : ~(j <= index + 3) /\ ~(j <= (index + 3) + D)
                                     => X[j] = <<k, 0, D>>
  <2>. DEFINE X == Sent(k, index)
  <2>1. ASSUME NEW j \in Nat, ~(j <= index + 3)
        PROVE  X[j] = IF IsRead(k) THEN <<"request", 0, 3>>
                      ELSE IF j <= (index + 3) + D THEN <<k, 0, j - (index + 3)>>
                      ELSE <<k, 0, D>>
    <3>1. ~(j <= index)
      BY <2>1
    <3>. QED
      BY <2>1, <3>1 DEF Sent, D
  <2>. HIDE DEF X
  <2>2. \A j \in Nat : ~(j <= index + 3) =>
           X[j] = IF IsRead(k) THEN <<"request", 0, 3>>
                  ELSE IF j <= (index + 3) + D THEN <<k, 0, j - (index + 3)>>
                  ELSE <<k, 0, D>>
    BY <2>1
  <2>. QED
    BY <2>2 DEF X
<1>5. CASE IsRead(k)
  <2>1. PICK r \in Nat : r + 1 = D + cnt /\ e = Run(Raised(Run(s, r)), 1)
    BY <1>2, <1>5
  <2>2. /\ Exited(e, s)
        /\ \A c \in Seq(Tokens) : \A X : \A m \in Nat, n \in Nat :
                   (/\ Fed(s, c, X, m, n) /\ n + (r + 1) <= Len(c) /\ s.tdi \in Tokens
                    /\ \A j \in 1 .. r + 1 : X[n + j] = s.tdi)
                   => Fed(e, c, X, m, n + (r + 1))
    BY <2>1, ReadOut
  <2>3. ASSUME NEW x \in Accesses, NEW index \in Nat, NEW m \in Nat, Ready(x, index, m)
        PROVE  DrFed(e, x, index, Sent(k, index), m, ((index + 3) + D) + cnt)
    <3>. DEFINE X == Sent(k, index)
                n == index + 3
    <3>0. PICK c \in Seq(Tokens) : \E q :
                /\ q.tap = "capDR" /\ q.ir = Selected(index, x) /\ c = Captured(q)
                /\ Fed(s, c, X, m, n)
                /\ Len(c) = (n + D) + cnt
      BY <1>3, <2>3
    <3>1. PICK q :
                /\ q.tap = "capDR" /\ q.ir = Selected(index, x) /\ c = Captured(q)
                /\ Fed(s, c, X, m, n)
                /\ Len(c) = (n + D) + cnt
      BY <3>0
    <3>2. \A j \in Nat : ~(j <= n) => X[j] = <<"request", 0, 3>>
      BY <1>4, <1>5
    <3>3. s.tdi = <<"request", 0, 3>> /\ s.tdi \in Tokens
      <4>1. "request" \in Sources
        BY DEF Sources
      <4>2. \A a \in Nat, b \in Nat : <<"request", a, b>> \in Tokens
        BY <4>1, Token
      <4>. QED
        BY <2>3, <4>2
    <3>4. n \in Nat /\ n + (r + 1) = (n + D) + cnt
      BY <1>1, <2>1
    <3>. HIDE DEF X, n
    <3>5. ASSUME NEW j \in 1 .. r + 1 PROVE X[n + j] = s.tdi
      <4>. DEFINE i1 == n + j
      <4>1. i1 \in Nat /\ ~(i1 <= n)
        BY <3>4
      <4>. HIDE DEF i1
      <4>. QED
        BY <3>2, <3>3, <4>1 DEF i1
    <3>6. n + (r + 1) <= Len(c)
      BY <3>1, <3>4
    <3>7. Fed(e, c, X, m, n + (r + 1))
      BY <2>2, <3>1, <3>3, <3>4, <3>5, <3>6
    <3>. QED
      BY <3>1, <3>4, <3>7 DEF DrFed, X, n
  <2>. QED
    BY <2>2, <2>3 DEF e, D
<1>6. CASE ~IsRead(k) /\ cnt > 0
  <2>. DEFINE v == Write(s, w)
              r == cnt - 1
  <2>1. e = Run(Raised(Run(v, r)), 1) /\ r \in Nat /\ r + 1 = cnt
    BY <1>2, <1>6
  <2>2. Scanning(v, s) /\ v.tms = s.tms /\ v.tdi = w[D] /\ s.tap \in ShiftTaps
    <3>1. s.tap \in ShiftTaps /\ Len(w) \in Nat /\ Len(w) > 0
      BY <1>1, <1>6 DEF ShiftTaps
    <3>. QED
      BY <1>1, <1>6, <3>1, WriteStays
  <2>3. ASSUME NEW x \in Accesses, NEW index \in Nat, NEW m \in Nat, Ready(x, index, m),
               NEW c \in Seq(Tokens), Fed(s, c, Sent(k, index), m, index + 3),
               Len(c) = ((index + 3) + D) + cnt
        PROVE  Fed(v, c, Sent(k, index), m, (index + 3) + D)
    <3>. DEFINE X == Sent(k, index)
                n == index + 3
    <3>1. \A j \in Nat : ~(j <= n) /\ j <= n + D => X[j] = <<k, 0, j - n>>
      BY <1>4, <1>6
    <3>2. n \in Nat /\ n + Len(w) <= Len(c)
      <4>1. Len(w) = D /\ D \in Nat
        BY <1>1, <1>6
      <4>. QED
        BY <2>3, <4>1
    <3>3. Fed(s, c, X, m, n)
      BY <2>3
    <3>. HIDE DEF X, n, v
    <3>4. ASSUME NEW j \in 1 .. Len(w) PROVE X[n + j] = w[j]
      <4>. DEFINE i1 == n + j
      <4>1. i1 \in Nat /\ ~(i1 <= n) /\ i1 <= n + D /\ i1 - n = j /\ j \in 1 .. D
        BY <1>1, <1>6, <3>2
      <4>. HIDE DEF i1
      <4>2. X[i1] = <<k, 0, j>>
        BY <3>1, <4>1
      <4>. QED
        BY <1>1, <1>6, <4>1, <4>2 DEF i1
    <3>5. Fed(Write(s, w), c, X, m, n + Len(w))
      BY <1>1, <1>6, <2>2, <3>2, <3>3, <3>4, WriteFed
    <3>. QED
      BY <1>1, <1>6, <3>5 DEF X, n, v
  <2>. HIDE DEF v, r
  <2>4. DOMAIN v = Fields /\ v.tap = "shDR" /\ ~v.tms /\ v.tdi = <<k, 0, D>> /\ v.tdi \in Tokens
        /\ v.answer = s.answer /\ v.ir = s.ir /\ v.taken = s.taken
    <3>1. w[D] = <<k, 0, D>> /\ <<k, 0, D>> \in Tokens
      <4>1. D \in 1 .. D
        BY <1>1
      <4>. QED
        BY <1>1, <1>6, <4>1
    <3>. QED
      BY <1>1, <1>6, <2>2, <3>1 DEF Scanning
  <2>5. /\ Exited(e, v)
        /\ \A c \in Seq(Tokens) : \A X : \A m \in Nat, n \in Nat :
                   (/\ Fed(v, c, X, m, n) /\ n + (r + 1) <= Len(c) /\ v.tdi \in Tokens
                    /\ \A j \in 1 .. r + 1 : X[n + j] = v.tdi)
                   => Fed(e, c, X, m, n + (r + 1))
    BY <2>1, <2>4, ReadOut
  <2>6. ASSUME NEW x \in Accesses, NEW index \in Nat, NEW m \in Nat, Ready(x, index, m)
        PROVE  DrFed(e, x, index, Sent(k, index), m, ((index + 3) + D) + cnt)
    <3>. DEFINE X == Sent(k, index)
                n == (index + 3) + D
    <3>0. PICK c \in Seq(Tokens) : \E q :
                /\ q.tap = "capDR" /\ q.ir = Selected(index, x) /\ c = Captured(q)
                /\ Fed(s, c, X, m, index + 3)
                /\ Len(c) = n + cnt
      BY <1>3, <2>6
    <3>1. PICK q :
                /\ q.tap = "capDR" /\ q.ir = Selected(index, x) /\ c = Captured(q)
                /\ Fed(s, c, X, m, index + 3)
                /\ Len(c) = n + cnt
      BY <3>0
    <3>2. Fed(v, c, X, m, n)
      BY <2>3, <2>6, <3>1
    <3>3. \A j \in Nat : ~(j <= index + 3) /\ ~(j <= n) => X[j] = <<k, 0, D>>
      BY <1>4, <1>6
    <3>4. n \in Nat /\ n + (r + 1) = n + cnt /\ index + 3 <= n
      BY <1>1, <2>1
    <3>. HIDE DEF X, n
    <3>5. ASSUME NEW j \in 1 .. r + 1 PROVE X[n + j] = v.tdi
      <4>. DEFINE i1 == n + j
      <4>1. i1 \in Nat /\ ~(i1 <= n) /\ ~(i1 <= index + 3)
        BY <3>4
      <4>. HIDE DEF i1
      <4>. QED
        BY <2>4, <3>3, <4>1 DEF i1
    <3>6. n + (r + 1) <= Len(c)
      BY <3>1, <3>4
    <3>7. Fed(e, c, X, m, n + (r + 1))
      BY <2>4, <2>5, <3>2, <3>4, <3>5, <3>6, <2>1
    <3>. QED
      BY <3>1, <3>4, <3>7 DEF DrFed, X, n
  <2>7. Exited(e, s)
    BY <2>4, <2>5 DEF Exited
  <2>. QED
    BY <2>6, <2>7 DEF e, D
<1>7. CASE ~IsRead(k) /\ ~(cnt > 0)
  <2>. DEFINE f == Front(w)
              bit == Last(w)
  <2>1. /\ f \in Seq(Tokens) /\ Len(f) = D - 1 /\ \A j \in 1 .. D - 1 : f[j] = <<k, 0, j>>
        /\ bit = <<k, 0, D>> /\ bit \in Tokens /\ e = Write(Raised(Write(s, f)), <<bit>>)
    BY <1>1, <1>2, <1>7
  <2>. HIDE DEF f, bit
  <2>2. /\ Exited(e, s)
        /\ \A c \in Seq(Tokens) : \A X : \A m \in Nat, n \in Nat :
                   (/\ Fed(s, c, X, m, n) /\ n + (Len(f) + 1) <= Len(c)
                    /\ \A j \in 1 .. Len(f) : X[n + j] = f[j]
                    /\ X[(n + Len(f)) + 1] = bit)
                   => Fed(e, c, X, m, n + (Len(f) + 1))
    BY <2>1, WriteOut
  <2>3. ASSUME NEW x \in Accesses, NEW index \in Nat, NEW m \in Nat, Ready(x, index, m)
        PROVE  DrFed(e, x, index, Sent(k, index), m, ((index + 3) + D) + cnt)
    <3>. DEFINE X == Sent(k, index)
                n == index + 3
    <3>0. PICK c \in Seq(Tokens) : \E q :
                /\ q.tap = "capDR" /\ q.ir = Selected(index, x) /\ c = Captured(q)
                /\ Fed(s, c, X, m, n)
                /\ Len(c) = (n + D) + cnt
      BY <1>3, <2>3
    <3>1. PICK q :
                /\ q.tap = "capDR" /\ q.ir = Selected(index, x) /\ c = Captured(q)
                /\ Fed(s, c, X, m, n)
                /\ Len(c) = (n + D) + cnt
      BY <3>0
    <3>2. \A j \in Nat : ~(j <= n) /\ j <= n + D => X[j] = <<k, 0, j - n>>
      BY <1>4, <1>7
    <3>3. n \in Nat /\ n + (Len(f) + 1) = (n + D) + cnt /\ n + (Len(f) + 1) <= Len(c)
          /\ (n + Len(f)) + 1 = n + D /\ Len(f) \in Nat
      BY <1>1, <1>7, <2>1, <3>1
    <3>. HIDE DEF X, n
    <3>4. ASSUME NEW j \in 1 .. D PROVE X[n + j] = <<k, 0, j>>
      <4>. DEFINE i1 == n + j
      <4>1. i1 \in Nat /\ ~(i1 <= n) /\ i1 <= n + D /\ i1 - n = j
        BY <1>1, <3>3
      <4>. HIDE DEF i1
      <4>. QED
        BY <3>2, <4>1 DEF i1
    <3>5. \A j \in 1 .. Len(f) : X[n + j] = f[j]
      <4>1. \A j \in 1 .. Len(f) : j \in 1 .. D /\ j \in 1 .. D - 1
        BY <1>1, <2>1
      <4>. QED
        BY <2>1, <3>4, <4>1
    <3>6. X[(n + Len(f)) + 1] = bit
      <4>1. D \in 1 .. D
        BY <1>1
      <4>2. X[n + D] = <<k, 0, D>>
        BY <3>4, <4>1
      <4>. QED
        BY <2>1, <3>3, <4>2
    <3>7. Fed(e, c, X, m, n + (Len(f) + 1))
      BY <2>2, <3>1, <3>3, <3>5, <3>6
    <3>. QED
      BY <3>1, <3>3, <3>7 DEF DrFed, X, n
  <2>. QED
    BY <2>2, <2>3 DEF e, D
<1>. QED
  BY <1>5, <1>6, <1>7

\* The D bits of o after the first p, and those of the device from off on.
ReadAt(o, p) == SubSeq(o, p + 1, p + DataBits)
DeviceFrom(index, off) == [j \in 1 .. DataBits |-> <<"device", index, j + off>>]

\* What is read from a chain after the bits of the devices before.
LEMMA ReadIs ==
  ASSUME Inv, NEW index \in Devices, NEW x \in Accesses \cup {"IDCODE"}, NEW X,
         NEW m \in Nat, NEW n \in Nat, NEW off \in Nat, NEW e,
         DrFed(e, x, index, X, m, n), off + DataBits <= DrLength(x),
         (index + off) + DataBits <= n
  PROVE  ReadAt(e.out, m + (index + off)) = DeviceFrom(index, off)
<1>. DEFINE o == e.out
            D == DataBits
            W == DrLength(x)
            p == m + (index + off)
            g == p + 1
            y == SubSeq(o, g, (g + D) - 1)
<1>1. PICK q : q.tap = "capDR" /\ q.ir = Selected(index, x) /\ Fed(e, Captured(q), X, m, n)
  BY DEF DrFed
<1>. DEFINE c == Captured(q)
<1>2. \A j \in 1 .. W : c[index + j] = <<"device", index, j>>
  BY <1>1, DrChain
<1>3. o \in Seq(Tokens) /\ Len(o) = m + n /\ \A j \in 1 .. n : o[m + j] = c[j]
  BY <1>1 DEF Fed
<1>4. index \in Nat /\ D \in Nat /\ W \in Nat /\ off + D <= W /\ (index + off) + D <= n
  <2>1. index \in Nat /\ W \in Nat
    BY <1>1, DrChain DEF Devices
  <2>2. D \in Nat
    BY JtagAssumption
  <2>. QED
    BY <2>1, <2>2
<1>. HIDE DEF o, D, W, c
<1>5. p \in Nat /\ g \in Nat \ {0} /\ (g + D) - 1 = p + D /\ (g + D) - 1 <= Len(o)
  BY <1>3, <1>4
<1>. HIDE DEF g
<1>6. y \in Seq(Tokens) /\ Len(y) = D /\ \A j \in 1 .. D : y[j] = o[(g + j) - 1]
  BY <1>3, <1>4, <1>5, SubSeqIs
<1>7. ASSUME NEW j \in 1 .. D PROVE y[j] = <<"device", index, j + off>>
  <2>. DEFINE a == index + (j + off)
  <2>1. (g + j) - 1 = m + a /\ a \in 1 .. n /\ j + off \in 1 .. W
    BY <1>4 DEF g
  <2>2. o[m + a] = c[a]
    BY <1>3, <2>1
  <2>3. c[a] = <<"device", index, j + off>>
    BY <1>2, <2>1
  <2>. HIDE DEF a, y
  <2>. QED
    BY <1>6, <2>1, <2>2, <2>3
<1>. HIDE DEF y
<1>8. y = [j \in 1 .. D |-> y[j]]
  BY <1>6
<1>9. y = [j \in 1 .. D |-> <<"device", index, j + off>>]
  BY <1>7, <1>8
<1>. QED
  BY <1>5, <1>9 DEF o, D, g, y, ReadAt, DeviceFrom

\* What the device takes of an operation: its request and what was to be written.
LEMMA TakenIs ==
  ASSUME Inv, NEW index \in Devices, NEW x \in Accesses, NEW k \in Kinds,
         NEW e, NEW z, z.tap = "upDR", z.line = e.line, z.ir = Selected(index, x),
         NEW m \in Nat,
         DrFed(e, x, index, Sent(k, index), m,
               ((index + 3) + DataBits) + ((Len(chain) - index) - 1))
  PROVE  /\ SubSeq(Slice(z, index), 1, 3) = Request
         /\ ~IsRead(k) => Slice(z, index) = Request \o Word(k)
<1>. DEFINE D == DataBits
            W == DrLength(x)
            X == Sent(k, index)
            line == z.line
            cnt == (Len(chain) - index) - 1
            N == ((index + 3) + D) + cnt
            g == index + 1
            y == Slice(z, index)
<1>1. PICK q : q.tap = "capDR" /\ q.ir = Selected(index, x) /\ Fed(e, Captured(q), X, m, N)
  BY DEF DrFed
<1>. DEFINE c == Captured(q)
            L == Len(c)
<1>2. L = (Len(chain) + W) - 1 /\ Len(chain) \in Nat /\ W = 3 + D /\ D \in Nat \ {0}
      /\ index \in Nat /\ index < Len(chain)
  <2>1. L = (Len(chain) + W) - 1 /\ Len(chain) \in Nat
    BY <1>1, DrChain
  <2>2. W = 3 + D /\ D \in Nat \ {0}
    BY AccessLength
  <2>. QED
    BY <2>1, <2>2 DEF Devices
<1>3. L = N /\ L \in Nat
  BY <1>2
<1>4. /\ line \in Seq(Tokens) /\ Len(line) = L
      /\ \A j \in 1 .. L : line[j] = IF N + j <= L THEN c[N + j] ELSE X[(N + j) - L]
  BY <1>1 DEF Fed
<1>5. Start(z, index) = g /\ Length(z, index) = W
  BY DrStarts
<1>6. \A j \in Nat : ~(j <= index) =>
         X[j] = IF j <= index + 3 THEN <<"request", 0, j - index>>
                ELSE IF IsRead(k) THEN <<"request", 0, 3>>
                ELSE IF j <= (index + 3) + D THEN <<k, 0, j - (index + 3)>>
                ELSE <<k, 0, D>>
  BY DEF Sent
<1>7. y = SubSeq(line, g, g + (W - 1))
  BY <1>5 DEF Slice
<1>. HIDE DEF D, W, X, line, N, c, L, y
<1>8. \A j \in 1 .. L : line[j] = X[j]
  <2>1. \A j \in 1 .. L : ~(N + j <= L) /\ (N + j) - L = j
    BY <1>3
  <2>. QED
    BY <1>4, <2>1
<1>9. /\ g \in Nat \ {0} /\ g + (W - 1) = (g + W) - 1 /\ (g + W) - 1 <= Len(line) /\ W \in Nat
  BY <1>2, <1>4
<1>. HIDE DEF g
<1>10. y \in Seq(Tokens) /\ Len(y) = W /\ \A j \in 1 .. W : y[j] = line[(g + j) - 1]
  BY <1>4, <1>7, <1>9, SubSeqIs
<1>11. ASSUME NEW j \in 1 .. W
       PROVE  y[j] = IF j <= 3 THEN <<"request", 0, j>>
                     ELSE IF IsRead(k) THEN <<"request", 0, 3>> ELSE <<k, 0, j - 3>>
  <2>. DEFINE a == index + j
  <2>1. /\ (g + j) - 1 = a /\ a \in 1 .. L /\ a \in Nat /\ ~(a <= index) /\ a - index = j
        /\ (a <= index + 3) = (j <= 3) /\ a <= (index + 3) + D /\ a - (index + 3) = j - 3
    BY <1>2, <1>9, <1>3, <1>4 DEF g
  <2>. HIDE DEF a
  <2>2. y[j] = X[a]
    BY <1>8, <1>10, <2>1
  <2>. QED
    BY <1>6, <2>1, <2>2
<1>12. Request \in Seq(Tokens) /\ Len(Request) = 3 /\ Request = [j \in 1 .. 3 |-> <<"request", 0, j>>]
  <2>1. "request" \in Sources
    BY DEF Sources
  <2>2. ASSUME NEW n \in Nat \ {0}
        PROVE  BitsOf("request", n) \in Seq(Tokens) /\ Len(BitsOf("request", n)) = n
    BY <2>1, SourceBits
  <2>3. 3 \in Nat \ {0}
    OBVIOUS
  <2>4. Request \in Seq(Tokens) /\ Len(Request) = 3
    BY <2>2, <2>3, Zenon DEF Request
  <2>. QED
    BY <2>4 DEF Request, BitsOf
<1>13. SubSeq(y, 1, 3) = Request
  <2>. DEFINE one == 1
              n == 3
              u == SubSeq(y, one, (one + n) - 1)
  <2>1. one \in Nat \ {0} /\ n \in Nat /\ (one + n) - 1 <= Len(y) /\ (one + n) - 1 = 3
    BY <1>2, <1>10
  <2>2. \A j \in 1 .. 3 : (one + j) - 1 = j /\ j \in 1 .. W /\ j <= 3
    BY <1>2
  <2>3. n = 3 /\ one = 1
    OBVIOUS
  <2>. HIDE DEF one, n
  <2>4. u \in Seq(Tokens) /\ Len(u) = n /\ \A j \in 1 .. n : u[j] = y[(one + j) - 1]
    BY <1>10, <2>1, SubSeqIs
  <2>. HIDE DEF u
  <2>5. u = [j \in 1 .. 3 |-> u[j]]
    BY <2>3, <2>4
  <2>6. \A j \in 1 .. 3 : u[j] = <<"request", 0, j>>
    BY <1>11, <2>2, <2>3, <2>4
  <2>7. u = [j \in 1 .. 3 |-> <<"request", 0, j>>]
    BY <2>5, <2>6
  <2>8. u = SubSeq(y, 1, 3)
    BY <2>1, <2>3 DEF u
  <2>. QED
    BY <1>12, <2>7, <2>8
<1>14. ASSUME ~IsRead(k) PROVE y = Request \o Word(k)
  <2>. DEFINE w == Word(k)
              v == Request \o w
  <2>1. w \in Seq(Tokens) /\ Len(w) = D /\ \A j \in 1 .. D : w[j] = <<k, 0, j>>
    BY <1>14, WordIs DEF D
  <2>. HIDE DEF w
  <2>2. /\ v \in Seq(Tokens) /\ Len(v) = 3 + D
        /\ \A j \in 1 .. 3 + D : v[j] = IF j <= 3 THEN Request[j] ELSE w[j - 3]
    <3>1. /\ v \in Seq(Tokens) /\ Len(v) = Len(Request) + Len(w)
          /\ \A j \in 1 .. Len(Request) + Len(w) :
                v[j] = IF j <= Len(Request) THEN Request[j] ELSE w[j - Len(Request)]
      BY <1>12, <2>1, JoinedSeqs
    <3>. QED
      BY <1>12, <2>1, <3>1
  <2>. HIDE DEF v
  <2>3. ASSUME NEW j \in 1 .. W PROVE y[j] = v[j]
    <3>1. CASE j <= 3
      <4>1. j \in 1 .. 3 /\ j \in 1 .. 3 + D
        BY <1>2, <3>1
      <4>2. Request[j] = <<"request", 0, j>>
        BY <1>12, <4>1
      <4>3. v[j] = Request[j]
        BY <2>2, <3>1, <4>1
      <4>4. y[j] = <<"request", 0, j>>
        BY <1>11, <3>1
      <4>. QED
        BY <4>2, <4>3, <4>4
    <3>2. CASE ~(j <= 3)
      <4>1. j - 3 \in 1 .. D /\ j \in 1 .. 3 + D
        BY <1>2, <3>2
      <4>. QED
        BY <1>11, <1>14, <2>1, <2>2, <3>2, <4>1
    <3>. QED
      BY <3>1, <3>2
  <2>4. y = [j \in 1 .. W |-> y[j]] /\ v = [j \in 1 .. W |-> v[j]]
    BY <1>2, <1>10, <2>2
  <2>. QED
    BY <2>3, <2>4 DEF v, w
<1>. QED
  BY <1>13, <1>14 DEF y

(***************************************************************************)
(* The invariant of the scans: the four properties, and what they need to  *)
(* be inductive.  CacheHonest alone would not do: the scan that is spared  *)
(* would also have set TDI high, and put the others in BYPASS.             *)
(***************************************************************************)

\* Between two handlers the controllers are out of a scan.
Resting ==
    /\ DOMAIN wire = Fields /\ wire.tap \in {"idle", "reset"} /\ wire.out = <<>>
    /\ dap_idle_cycles \in Nat

\* In a request the device can be addressed.  The instruction that is remembered is in
\* it, and all others are in BYPASS.
InRequest ==
    pc = "ops" =>
        /\ dap_jtag_dev_index \in 0 .. DevCount - 1 /\ Selectable(dap_jtag_dev_index)
        /\ wire.tap = "idle"
        /\ dap_jtag_ir # "invalid" =>
              /\ wire.tdi = One
              /\ Described => wire.ir = Selected(dap_jtag_dev_index, dap_jtag_ir)

Scanned == Resting /\ InRequest /\ OthersBypassed /\ ScanReachesDevice /\ EndsIdle

LEMMA RestFields ==
  ASSUME NEW s, DOMAIN s = Fields
  PROVE  /\ DOMAIN Rest(s) = Fields /\ Rest(s).tap = s.tap /\ Rest(s).tdi = s.tdi
         /\ Rest(s).ir = s.ir /\ Rest(s).taken = s.taken /\ Rest(s).out = <<>>
BY DEF Rest, Fields

\* From Exit1-DR out of the scan and through the idle cycles.
Ended(v, e) ==
    /\ DOMAIN v = Fields /\ v.tap = "idle" /\ v.out = <<>> /\ v.tdi = One /\ v.ir = e.ir
    /\ \E z : /\ z.tap = "upDR" /\ z.line = e.line /\ z.ir = e.ir
              /\ v.taken = [d \in Devices |->
                              IF e.ir[d] \in Accesses /\ e.answer = "OK"
                              THEN Slice(z, d) ELSE <<>>]

LEMMA ScanEnds ==
  ASSUME NEW e, DOMAIN e = Fields, e.tap = "ex1DR", e.tms, NEW n \in Nat
  PROVE  Ended(Rest(Run(Finish(e), n)), e) /\ Ended(Rest(Finish(e)), e)
<1>. DEFINE f == Finish(e)
            g == Run(f, n)
<1>1. DOMAIN f = Fields /\ f.tap = "idle" /\ ~f.tms /\ f.tdi = One /\ f.ir = e.ir
  BY FinishFields
<1>2. PICK z : /\ z.tap = "upDR" /\ z.line = e.line /\ z.ir = e.ir
               /\ f.taken = [d \in Devices |->
                               IF e.ir[d] \in Accesses /\ e.answer = "OK"
                               THEN Slice(z, d) ELSE <<>>]
  BY FinishFields
<1>. HIDE DEF f
<1>3. Scanning(g, f) /\ g.tdi = f.tdi
  BY <1>1, IdleStays
<1>. HIDE DEF g
<1>4. DOMAIN g = Fields /\ g.tap = "idle" /\ g.tdi = One /\ g.ir = f.ir /\ g.taken = f.taken
  BY <1>1, <1>3 DEF Scanning
<1>5. ASSUME NEW v, v = Rest(g) \/ v = Rest(f) PROVE Ended(v, e)
  <2>1. /\ DOMAIN v = Fields /\ v.tap = "idle" /\ v.out = <<>> /\ v.tdi = One
        /\ v.ir = f.ir /\ v.taken = f.taken
    <3>1. CASE v = Rest(g)
      BY <1>4, <3>1, RestFields
    <3>2. CASE v = Rest(f)
      BY <1>1, <3>2, RestFields
    <3>. QED
      BY <1>5, <3>1, <3>2
  <2>. QED
    BY <1>1, <1>2, <2>1 DEF Ended
<1>. QED
  BY <1>5 DEF f, g

\* dap_jtag_operation up to the acknowledgement.
LEMMA OperationReady ==
  ASSUME Inv, Scanned, pc = "ops", NEW k \in Kinds, NEW a \in Answers
  PROVE  LET index == dap_jtag_dev_index
             x == Instruction(k)
             start == [wire EXCEPT !.answer = a, !.taken = Nothing]
             ready == IF x = dap_jtag_ir THEN start ELSE WriteIr(start, x, index)
         IN  /\ DOMAIN ready = Fields /\ ready.tap = "idle" /\ ready.tdi = One
             /\ ready.answer = a
             /\ Described => ready.ir = Selected(index, x) /\ ready.out \in Seq(Tokens)
<1>. DEFINE index == dap_jtag_dev_index
            x == Instruction(k)
            start == [wire EXCEPT !.answer = a, !.taken = Nothing]
<1>1. /\ DOMAIN wire = Fields /\ wire.tap = "idle" /\ wire.out = <<>>
      /\ index \in 0 .. DevCount - 1 /\ Selectable(index)
      /\ dap_jtag_ir # "invalid" =>
            wire.tdi = One /\ (Described => wire.ir = Selected(index, dap_jtag_ir))
  BY DEF Scanned, Resting, InRequest
<1>2. x \in Accesses /\ x # "invalid"
  BY DEF Instruction, Accesses, Kinds
<1>3. DOMAIN start = Fields /\ start.tap = "idle" /\ start.out = <<>> /\ start.answer = a
      /\ start.tdi = wire.tdi /\ start.ir = wire.ir
  BY <1>1 DEF Fields
<1>4. <<>> \in Seq(Tokens)
  OBVIOUS
<1>. HIDE DEF start, x, index
<1>5. CASE x = dap_jtag_ir
  BY <1>1, <1>2, <1>3, <1>4, <1>5 DEF start, x, index
<1>6. CASE x # dap_jtag_ir
  <2>. DEFINE v == WriteIr(start, x, index)
  <2>1. start.out \in Seq(Tokens)
    BY <1>3, <1>4
  <2>2. /\ DOMAIN v = Fields /\ v.tap = "idle" /\ v.tdi = One /\ v.answer = start.answer
        /\ Described => v.ir = Selected(index, x) /\ v.out \in Seq(Tokens)
    <3>1. pc \in {"idle", "ops"} /\ x \in Accesses \cup {"IDCODE"}
      BY <1>2
    <3>2. index \in 0 .. DevCount - 1 /\ Selectable(index)
      BY <1>1
    <3>. QED
      BY <1>3, <2>1, <3>1, <3>2, WriteIrDoes
  <2>. HIDE DEF v
  <2>. QED
    BY <1>3, <1>6, <2>2 DEF start, x, index, v
<1>. QED
  BY <1>5, <1>6

\* A whole operation.
LEMMA OperationDoes ==
  ASSUME Inv, Scanned, NEW k \in Kinds, NEW a \in Answers, Operation(k, a)
  PROVE  /\ DOMAIN wire' = Fields /\ wire'.tap = "idle" /\ wire'.out = <<>> /\ wire'.tdi = One
         /\ last'.scan = k
         /\ Described =>
               /\ wire'.ir = Selected(dap_jtag_dev_index, Instruction(k))
               /\ \A d \in Devices \ {dap_jtag_dev_index} : wire'.taken[d] = <<>>
               /\ last'.ack = "OK" =>
                     IF IsRead(k)
                     THEN /\ SubSeq(wire'.taken[dap_jtag_dev_index], 1, 3) = Request
                          /\ last'.read = [j \in 1 .. DataBits |->
                                             <<"device", dap_jtag_dev_index, j + 3>>]
                     ELSE wire'.taken[dap_jtag_dev_index] = Request \o Word(k)
<1>. DEFINE index == dap_jtag_dev_index
            x == Instruction(k)
            start == [wire EXCEPT !.answer = a, !.taken = Nothing]
            ready == IF x = dap_jtag_ir THEN start ELSE WriteIr(start, x, index)
            acked == Write(ShiftDr(ready, index), Request)
            cnt == dap_jtag_dev_count - index - 1
            Exit1(ack) == IF ack = "OK" THEN Data(acked, Word(k), cnt)
                                        ELSE Run(Raised(acked), 1)
            m == Len(ready.out)
<1>0. /\ pc = "ops" /\ index \in 0 .. DevCount - 1 /\ Selectable(index) /\ dap_idle_cycles \in Nat
  BY DEF Operation, Scanned, Resting, InRequest
<1>1. /\ DOMAIN ready = Fields /\ ready.tap = "idle" /\ ready.tdi = One
      /\ ready.answer = a
      /\ Described => ready.ir = Selected(index, x) /\ ready.out \in Seq(Tokens)
  BY <1>0, OperationReady
<1>2. PICK ack \in Acks(acked, index) :
         /\ wire' = Rest(Run(Finish(Exit1(ack)), dap_idle_cycles))
         /\ last' = [scan |-> k, ack |-> ack,
                     read |-> IF ack = "OK" /\ IsRead(k)
                              THEN SubSeq(Exit1(ack).out, Len(acked.out) + 1,
                                          Len(acked.out) + DataBits)
                              ELSE <<>>]
  BY DEF Operation, Raised
<1>3. x \in Accesses /\ Instruction(k) = x
  BY DEF Instruction, Accesses, Kinds
<1>4. index \in Nat /\ cnt \in Nat /\ (Described => index \in Devices /\ cnt = (Len(chain) - index) - 1)
  BY <1>0, IndexTypes DEF Described
<1>. HIDE DEF ready
<1>5. /\ DOMAIN acked = Fields /\ acked.tap = "shDR" /\ ~acked.tms
      /\ acked.tdi = <<"request", 0, 3>> /\ acked.answer = a /\ acked.ir = ready.ir
      /\ Described =>
            /\ DrFed(acked, x, index, Sent(k, index), m, index + 3)
            /\ Len(acked.out) = m + (index + 3)
            /\ SubSeq(acked.out, Len(acked.out) - 2, Len(acked.out)) = DeviceBits(index, 3)
  <2>. HIDE DEF index, x
  <2>1. /\ DOMAIN acked = Fields /\ acked.tap = "shDR" /\ ~acked.tms
        /\ acked.tdi = <<"request", 0, 3>> /\ acked.answer = ready.answer /\ acked.ir = ready.ir
        /\ \A x1 \in Accesses, k1 \in Kinds :
              (/\ Inv /\ index \in Devices /\ ready.ir = Selected(index, x1)
               /\ ready.out \in Seq(Tokens) /\ ready.tdi = One)
              => /\ DrFed(acked, x1, index, Sent(k1, index), Len(ready.out), index + 3)
                 /\ Len(acked.out) = Len(ready.out) + (index + 3)
                 /\ SubSeq(acked.out, Len(acked.out) - 2, Len(acked.out)) = DeviceBits(index, 3)
    BY <1>1, <1>4, AckedIs
  <2>. HIDE DEF acked
  <2>. QED
    BY <1>1, <1>3, <1>4, <2>1
<1>. HIDE DEF acked, m, x, cnt, index
<1>. DEFINE e == Exit1(ack)
<1>6. /\ Exited(e, acked)
      /\ Described /\ ack = "OK" =>
            DrFed(e, x, index, Sent(k, index), m, ((index + 3) + DataBits) + cnt)
  <2>1. CASE ack = "OK"
    <3>1. e = Data(acked, Word(k), cnt)
      BY <2>1
    <3>2. /\ Exited(e, acked)
          /\ \A x1 \in Accesses, j \in Nat, n \in Nat :
                (/\ Inv /\ j \in Devices /\ cnt = (Len(chain) - j) - 1
                 /\ acked.tdi = <<"request", 0, 3>>
                 /\ DrFed(acked, x1, j, Sent(k, j), n, j + 3))
                => DrFed(e, x1, j, Sent(k, j), n, ((j + 3) + DataBits) + cnt)
      BY <1>4, <1>5, <3>1, DataIs
    <3>. HIDE DEF e
    <3>3. ASSUME Described
          PROVE  DrFed(e, x, index, Sent(k, index), m, ((index + 3) + DataBits) + cnt)
      <4>1. m \in Nat
        BY <1>1, <3>3 DEF m
      <4>. QED
        BY <1>3, <1>4, <1>5, <3>2, <3>3, <4>1
    <3>. QED
      BY <3>2, <3>3
  <2>2. CASE ack # "OK"
    <3>1. e = Run(Raised(Run(acked, 0)), 1)
      BY <2>2, RunNext
    <3>2. Exited(e, acked)
      <4>1. ASSUME NEW r \in Nat PROVE Exited(Run(Raised(Run(acked, r)), 1), acked)
        BY <1>5, ReadOut
      <4>. QED
        BY <3>1, <4>1
    <3>. QED
      BY <2>2, <3>2
  <2>. QED
    BY <2>1, <2>2
<1>7. wire' = Rest(Run(Finish(e), dap_idle_cycles))
  BY <1>2
<1>8. /\ last'.scan = k /\ last'.ack = ack
      /\ (ack = "OK" /\ IsRead(k)) =>
            last'.read = SubSeq(e.out, Len(acked.out) + 1, Len(acked.out) + DataBits)
  BY <1>2
<1>. HIDE DEF e, Exit1
<1>9. DOMAIN e = Fields /\ e.tap = "ex1DR" /\ e.tms /\ e.answer = a /\ e.ir = ready.ir
  BY <1>5, <1>6 DEF Exited
<1>10. Ended(wire', e)
  <2>1. Ended(Rest(Run(Finish(e), dap_idle_cycles)), e)
    BY <1>0, <1>9, ScanEnds
  <2>. QED
    BY <1>7, <2>1
<1>11. PICK z : /\ z.tap = "upDR" /\ z.line = e.line /\ z.ir = e.ir
                /\ wire'.taken = [d \in Devices |->
                                    IF e.ir[d] \in Accesses /\ e.answer = "OK"
                                    THEN Slice(z, d) ELSE <<>>]
  BY <1>10 DEF Ended
<1>12. ASSUME Described
       PROVE  /\ wire'.ir = Selected(index, x)
              /\ \A d \in Devices \ {index} : wire'.taken[d] = <<>>
              /\ ack = "OK" =>
                    IF IsRead(k)
                    THEN /\ SubSeq(wire'.taken[index], 1, 3) = Request
                         /\ last'.read = [j \in 1 .. DataBits |-> <<"device", index, j + 3>>]
                    ELSE wire'.taken[index] = Request \o Word(k)
  <2>1. wire'.ir = Selected(index, x) /\ e.ir = Selected(index, x) /\ index \in Devices
    BY <1>1, <1>4, <1>9, <1>10, <1>12 DEF x, index, Ended
  <2>2. \A d \in Devices : e.ir[d] = IF d = index THEN x ELSE "BYPASS"
    BY <2>1 DEF Selected
  <2>3. "BYPASS" \notin Accesses
    BY DEF Accesses
  <2>4. \A d \in Devices \ {index} : wire'.taken[d] = <<>>
    BY <1>11, <2>2, <2>3
  <2>5. ASSUME ack = "OK"
        PROVE  IF IsRead(k)
               THEN /\ SubSeq(wire'.taken[index], 1, 3) = Request
                    /\ last'.read = [j \in 1 .. DataBits |-> <<"device", index, j + 3>>]
               ELSE wire'.taken[index] = Request \o Word(k)
    <3>1. a = "OK"
      <4>1. Acks(acked, index) = {a}
        BY <1>5, <1>12 DEF Acks
      <4>2. ack \in {a}
        BY <1>2, <4>1 DEF acked, index
      <4>. QED
        BY <2>5, <4>2
    <3>2. wire'.taken[index] = Slice(z, index)
      BY <1>3, <1>9, <1>11, <2>1, <2>2, <3>1
    <3>3. DrFed(e, x, index, Sent(k, index), m,
                ((index + 3) + DataBits) + ((Len(chain) - index) - 1)) /\ m \in Nat
      BY <1>1, <1>4, <1>6, <1>12, <2>5 DEF m
    <3>4. /\ SubSeq(Slice(z, index), 1, 3) = Request
          /\ ~IsRead(k) => Slice(z, index) = Request \o Word(k)
      BY <1>3, <1>11, <2>1, <3>3, TakenIs
    <3>5. ASSUME IsRead(k)
          PROVE  last'.read = [j \in 1 .. DataBits |-> <<"device", index, j + 3>>]
      <4>. DEFINE n == ((index + 3) + DataBits) + ((Len(chain) - index) - 1)
                  off == 3
                  p == m + (index + off)
      <4>1. DataBits \in Nat /\ off + DataBits <= DrLength(x) /\ n \in Nat
            /\ (index + off) + DataBits <= n /\ off \in Nat
        <5>1. DrLength(x) = 3 + DataBits /\ DataBits \in Nat
          BY <1>3, AccessLength
        <5>2. cnt \in Nat /\ cnt = (Len(chain) - index) - 1
          BY <1>4, <1>12
        <5>3. n = ((index + 3) + DataBits) + cnt
          BY <5>2
        <5>. QED
          BY <1>4, <5>1, <5>2, <5>3
      <4>2. DrFed(e, x, index, Sent(k, index), m, n)
        BY <3>3
      <4>3. last'.read = ReadAt(e.out, p)
        BY <1>5, <1>8, <1>12, <2>5, <3>5 DEF ReadAt
      <4>. HIDE DEF n, off
      <4>4. ReadAt(e.out, p) = DeviceFrom(index, off)
        <5>1. x \in Accesses \cup {"IDCODE"}
          BY <1>3
        <5>. QED
          BY <2>1, <3>3, <4>1, <4>2, <5>1, ReadIs
      <4>. QED
        BY <4>3, <4>4 DEF off, DeviceFrom
    <3>. QED
      BY <3>2, <3>4, <3>5
  <2>. QED
    BY <2>1, <2>4, <2>5
<1>. QED
  BY <1>3, <1>8, <1>10, <1>12 DEF index, Ended

\* The whole of dap_jtag_idcode.
LEMMA IdCodeDoes ==
  ASSUME Inv, Scanned, NEW index \in 0 .. DevCount - 1, IdCode(index)
  PROVE  /\ DOMAIN wire' = Fields /\ wire'.tap = "idle" /\ wire'.out = <<>> /\ wire'.tdi = One
         /\ last'.scan = "idcode"
         /\ Described =>
               /\ \A d \in Devices \ {index} : wire'.ir[d] = "BYPASS" /\ wire'.taken[d] = <<>>
               /\ last'.read = DeviceBits(index, DataBits)
<1>. DEFINE x == "IDCODE"
            start == [wire EXCEPT !.taken = Nothing]
            written == WriteIr(start, x, index)
            ready == ShiftDr(written, index)
            r == DataBits - 1
            e == Run(Raised(Run(ready, r)), 1)
            m == Len(written.out)
            X == [j \in Nat |-> One]
<1>1. /\ pc \in {"idle", "ops"} /\ Selectable(index)
      /\ wire' = Rest(Finish(e))
      /\ last' = [scan |-> "idcode", ack |-> "OK",
                  read |-> SubSeq(e.out, Len(ready.out) + 1, Len(ready.out) + DataBits)]
  BY DEF IdCode, Raised
<1>2. /\ DOMAIN start = Fields /\ start.tap = "idle" /\ start.out \in Seq(Tokens)
  <2>1. <<>> \in Seq(Tokens)
    OBVIOUS
  <2>2. DOMAIN wire = Fields /\ wire.tap = "idle" /\ wire.out = <<>>
    BY DEF Scanned, Resting, IdCode
  <2>. QED
    BY <2>1, <2>2 DEF Fields
<1>3. /\ x \in Accesses \cup {"IDCODE"} /\ x \notin Accesses /\ DrLength(x) = DataBits
      /\ DataBits \in Nat \ {0} /\ "BYPASS" \notin Accesses
  BY JtagAssumption DEF DrLength, Accesses
<1>4. /\ index \in Nat
      /\ Described => index \in Devices
  BY <1>1, IndexTypes
<1>. HIDE DEF start, x
<1>5. /\ DOMAIN written = Fields /\ written.tap = "idle" /\ written.tdi = One
      /\ Described => written.ir = Selected(index, x) /\ written.out \in Seq(Tokens)
  BY <1>1, <1>2, <1>3, WriteIrDoes
<1>. HIDE DEF written
<1>6. /\ DOMAIN ready = Fields /\ ready.tap = "shDR" /\ ~ready.tms /\ ready.tdi = One
      /\ ready.ir = written.ir
      /\ \A x1 \in Accesses \cup {"IDCODE"} : \A X1 :
            (/\ Inv /\ index \in Devices /\ written.ir = Selected(index, x1)
             /\ written.out \in Seq(Tokens) /\ written.tdi \in Tokens
             /\ \A k \in 1 .. index : X1[k] = written.tdi)
            => DrFed(ready, x1, index, X1, Len(written.out), index)
  BY <1>4, <1>5, ShiftDrDoes
<1>. HIDE DEF ready
<1>7. r \in Nat /\ r + 1 = DataBits
  BY <1>3
<1>8. One \in Tokens
  <2>1. "one" \in Sources
    BY DEF Sources
  <2>. QED
    BY <2>1, Token DEF One
<1>. HIDE DEF r
<1>9. /\ Exited(e, ready)
      /\ \A c \in Seq(Tokens) : \A X1 : \A m1 \in Nat, n \in Nat :
            (/\ Fed(ready, c, X1, m1, n) /\ n + (r + 1) <= Len(c) /\ ready.tdi \in Tokens
             /\ \A j \in 1 .. r + 1 : X1[n + j] = ready.tdi)
            => Fed(e, c, X1, m1, n + (r + 1))
  BY <1>6, <1>7, ReadOut
<1>. HIDE DEF e
<1>10. Ended(wire', e) /\ e.ir = written.ir
  <2>1. Ended(Rest(Finish(e)), e)
    <3>1. DOMAIN e = Fields /\ e.tap = "ex1DR" /\ e.tms
      BY <1>9 DEF Exited
    <3>2. \A n \in Nat : Ended(Rest(Finish(e)), e)
      BY <3>1, ScanEnds
    <3>3. 0 \in Nat
      OBVIOUS
    <3>. QED
      BY <3>2, <3>3
  <2>. QED
    BY <1>1, <1>6, <1>9, <2>1 DEF Exited
<1>11. ASSUME Described
       PROVE  /\ \A d \in Devices \ {index} : wire'.ir[d] = "BYPASS" /\ wire'.taken[d] = <<>>
              /\ last'.read = DeviceBits(index, DataBits)
  <2>1. index \in Devices /\ written.ir = Selected(index, x) /\ written.out \in Seq(Tokens)
        /\ m \in Nat
    BY <1>4, <1>5, <1>11
  <2>2. wire'.ir = Selected(index, x)
    BY <1>10, <2>1 DEF Ended
  <2>3. \A d \in Devices : wire'.taken[d] = <<>>
    <3>1. \A d \in Devices : e.ir[d] \notin Accesses
      BY <1>3, <1>10, <2>1 DEF Selected
    <3>. QED
      BY <1>10, <3>1 DEF Ended
  <2>4. \A j \in Nat : X[j] = One
    OBVIOUS
  <2>. HIDE DEF X, m
  <2>5. DrFed(ready, x, index, X, m, index)
    <3>1. \A k \in 1 .. index : X[k] = written.tdi
      BY <1>5, <2>4
    <3>2. written.tdi \in Tokens
      BY <1>5, <1>8
    <3>. QED
      BY <1>3, <1>6, <2>1, <3>1, <3>2 DEF m
  <2>6. PICK q : q.tap = "capDR" /\ q.ir = Selected(index, x)
                 /\ Fed(ready, Captured(q), X, m, index)
    BY <2>5 DEF DrFed
  <2>. DEFINE c == Captured(q)
  <2>7. /\ c \in Seq(Tokens) /\ Len(chain) \in Nat /\ Len(c) = (Len(chain) + DataBits) - 1
    BY <1>3, <2>1, <2>6, DrChain
  <2>. HIDE DEF c
  <2>8. Fed(e, c, X, m, index + (r + 1))
    <3>1. index + (r + 1) <= Len(c)
      BY <1>3, <1>7, <2>1, <2>7 DEF Devices
    <3>2. \A j \in 1 .. r + 1 : X[index + j] = ready.tdi
      BY <1>4, <1>6, <1>7, <2>4
    <3>3. Fed(ready, c, X, m, index)
      BY <2>6 DEF c
    <3>. QED
      BY <1>4, <1>6, <1>8, <1>9, <2>1, <2>7, <3>1, <3>2, <3>3 DEF m
  <2>. DEFINE n == index + (r + 1)
              off == 0
  <2>9. DrFed(e, x, index, X, m, n)
    BY <2>6, <2>8 DEF DrFed, c
  <2>10. /\ n \in Nat /\ off \in Nat /\ off + DataBits <= DrLength(x)
         /\ (index + off) + DataBits <= n
    BY <1>3, <1>4, <1>7
  <2>11. Len(ready.out) = m + index /\ index + off = index
    BY <1>4, <2>6 DEF Fed
  <2>12. DeviceFrom(index, off) = DeviceBits(index, DataBits)
    BY <1>3 DEF DeviceFrom, DeviceBits
  <2>. HIDE DEF n, off
  <2>13. ReadAt(e.out, m + (index + off)) = DeviceFrom(index, off)
    <3>1. /\ x \in Accesses \cup {"IDCODE"} /\ index \in Devices /\ m \in Nat /\ n \in Nat
          /\ off \in Nat /\ off + DataBits <= DrLength(x) /\ (index + off) + DataBits <= n
      BY <1>3, <2>1, <2>10
    <3>. QED
      BY <2>9, <3>1, ReadIs
  <2>14. last'.read = ReadAt(e.out, Len(ready.out))
    BY <1>1 DEF ReadAt
  <2>15. last'.read = DeviceBits(index, DataBits)
    BY <2>10, <2>11, <2>12, <2>13, <2>14
  <2>16. \A d \in Devices \ {index} : wire'.ir[d] = "BYPASS"
    BY <2>2 DEF Selected
  <2>. QED
    BY <2>3, <2>15, <2>16
<1>12. last'.scan = "idcode"
  BY <1>1
<1>. QED
  BY <1>10, <1>11, <1>12 DEF Ended

\* The walks of the sequences of the host.
LEMMA TapWalks ==
  /\ TapHigh["idle"] = "selDR" /\ TapHigh["selDR"] = "selIR" /\ TapHigh["selIR"] = "reset"
  /\ TapHigh["reset"] = "reset"
  /\ TapLow["selIR"] = "capIR" /\ TapLow["capIR"] = "shIR"
  /\ TapHigh["shIR"] = "ex1IR" /\ TapHigh["ex1IR"] = "upIR"
  /\ TapLow["upIR"] = "idle" /\ TapLow["reset"] = "idle"
BY DEF TapHigh, TapLow

\* One element of dap_jtag_sequence moves the controllers as TMS says.
LEMMA ElementTaps ==
  ASSUME NEW s, DOMAIN s = Fields, NEW e
  PROVE  LET t == Element(s, e)
         IN  /\ e.n = 1 => /\ DOMAIN t = Fields
                           /\ t.tap = IF e.v THEN TapHigh[s.tap] ELSE TapLow[s.tap]
             /\ e.n = 2 => /\ DOMAIN t = Fields
                           /\ e.v => t.tap = TapHigh[TapHigh[s.tap]]
                           /\ ~e.v => t.tap = TapLow[TapLow[s.tap]]
             /\ e.n = 5 /\ e.v /\ s.tap \in {"idle", "reset"} =>
                   DOMAIN t = Fields /\ t.tap = "reset"
<1>. DEFINE u == Tdi(Tms(s, e.v), e.b)
            On(w, x) == DOMAIN w = Fields /\ w.tap = NextTap(x) /\ w.tms = x.tms
            a == Clock(u)
            b == Clock(a)
            c == Clock(b)
            d == Clock(c)
            f == Clock(d)
<1>1. DOMAIN u = Fields /\ u.tap = s.tap /\ u.tms = e.v
  <2>. DEFINE v == Tms(s, e.v)
  <2>1. DOMAIN v = Fields /\ v.tap = s.tap /\ v.tms = e.v
    BY PinFields
  <2>. HIDE DEF v
  <2>2. /\ DOMAIN Tdi(v, e.b) = Fields /\ Tdi(v, e.b).tap = v.tap /\ Tdi(v, e.b).tms = v.tms
    BY <2>1, PinFields
  <2>. QED
    BY <2>1, <2>2 DEF v
<1>2. Element(s, e) = Run(u, e.n)
  BY DEF Element
<1>. HIDE DEF u
<1>3. Run(u, 1) = a /\ Run(u, 2) = b
  BY FewClocks
<1>4. Run(u, 5) = f
  <2>1. /\ Run(u, 2 + 1) = Clock(Run(u, 2)) /\ Run(u, 3 + 1) = Clock(Run(u, 3))
        /\ Run(u, 4 + 1) = Clock(Run(u, 4))
    BY RunNext
  <2>. QED
    BY <1>3, <2>1
<1>5. ASSUME NEW x, DOMAIN x = Fields PROVE On(Clock(x), x)
  BY <1>5, ClockFields DEF SameDrive
<1>. HIDE DEF On
<1>6. On(a, u)
  BY <1>1, <1>5
<1>. HIDE DEF a
<1>7. On(b, a)
  BY <1>5, <1>6 DEF On
<1>. HIDE DEF b
<1>8. On(c, b)
  BY <1>5, <1>7 DEF On
<1>. HIDE DEF c
<1>9. On(d, c)
  BY <1>5, <1>8 DEF On
<1>. HIDE DEF d
<1>10. On(f, d)
  BY <1>5, <1>9 DEF On
<1>. HIDE DEF f
<1>11. DOMAIN a = Fields /\ a.tap = (IF e.v THEN TapHigh[s.tap] ELSE TapLow[s.tap])
  BY <1>1, <1>6 DEF On, NextTap
<1>12. DOMAIN b = Fields /\ b.tap = (IF e.v THEN TapHigh[a.tap] ELSE TapLow[a.tap])
  BY <1>1, <1>6, <1>7 DEF On, NextTap
<1>13. e.v /\ s.tap \in {"idle", "reset"} => DOMAIN f = Fields /\ f.tap = "reset"
  <2>1. ASSUME e.v
        PROVE  /\ DOMAIN f = Fields /\ a.tap = TapHigh[s.tap] /\ b.tap = TapHigh[a.tap]
               /\ c.tap = TapHigh[b.tap] /\ d.tap = TapHigh[c.tap] /\ f.tap = TapHigh[d.tap]
    BY <1>1, <1>6, <1>7, <1>8, <1>9, <1>10, <2>1 DEF On, NextTap
  <2>. QED
    BY <2>1, TapWalks
<1>. QED
  BY <1>2, <1>3, <1>4, <1>11, <1>12, <1>13

LEMMA ElementsNext ==
  ASSUME NEW s, NEW request
  PROVE  /\ Elements!Iterated(s, request, 0) = s
         /\ \A n \in Nat :
               Elements!Iterated(s, request, n + 1)
                  = Element(Elements!Iterated(s, request, n), request[n + 1])
BY Elements!Unrolled

\* The sequences of the host leave the controllers out of a scan.
LEMMA SequenceDoes ==
  ASSUME DOMAIN wire = Fields, wire.tap \in {"idle", "reset"}, NEW request \in HostSequences
  PROVE  LET v == Elements!Iterated(wire, request, Len(request))
         IN  DOMAIN v = Fields /\ v.tap \in {"idle", "reset"}
<1>. DEFINE I(n) == Elements!Iterated(wire, request, n)
            Good(v) == DOMAIN v = Fields /\ v.tap \in {"idle", "reset"}
<1>1. I(0) = wire /\ \A n \in Nat : I(n + 1) = Element(I(n), request[n + 1])
  BY ElementsNext
<1>. HIDE DEF I
<1>2. I(1) = Element(wire, request[1])
  <2>1. 0 + 1 = 1 /\ 0 \in Nat
    OBVIOUS
  <2>2. I(0 + 1) = Element(I(0), request[0 + 1])
    BY <1>1
  <2>. QED
    BY <1>1, <2>1, <2>2
<1>3. CASE request = <<Clocks(TRUE, One, 5)>>
  <2>1. Len(request) = 1 /\ request[1].n = 5 /\ request[1].v
    BY <1>3 DEF Clocks
  <2>2. Good(Element(wire, request[1]))
    BY <2>1, ElementTaps
  <2>. QED
    BY <1>2, <2>1, <2>2 DEF I
<1>4. CASE wire.tap = "reset" /\ request = <<Clocks(FALSE, Low, 1)>>
  <2>1. Len(request) = 1 /\ request[1].n = 1 /\ ~request[1].v
    BY <1>4 DEF Clocks
  <2>2. DOMAIN Element(wire, request[1]) = Fields
        /\ Element(wire, request[1]).tap = TapLow[wire.tap]
    BY <2>1, ElementTaps
  <2>3. Good(Element(wire, request[1]))
    BY <1>4, <2>2, TapWalks
  <2>. QED
    BY <1>2, <2>1, <2>3 DEF I
<1>5. CASE /\ wire.tap = "idle"
           /\ request = <<Clocks(TRUE, Low, 2), Clocks(FALSE, Low, 2), Clocks(TRUE, Low, 2),
                          Clocks(FALSE, Low, 1)>>
  <2>1. /\ Len(request) = 4
        /\ request[1].n = 2 /\ request[1].v /\ request[2].n = 2 /\ ~request[2].v
        /\ request[3].n = 2 /\ request[3].v /\ request[4].n = 1 /\ ~request[4].v
    BY <1>5 DEF Clocks
  <2>2. /\ I(1 + 1) = Element(I(1), request[1 + 1]) /\ I(2 + 1) = Element(I(2), request[2 + 1])
        /\ I(3 + 1) = Element(I(3), request[3 + 1])
    BY <1>1
  <2>3. DOMAIN I(1) = Fields /\ I(1).tap = "selIR"
    <3>1. DOMAIN Element(wire, request[1]) = Fields
          /\ Element(wire, request[1]).tap = TapHigh[TapHigh[wire.tap]]
      BY <2>1, ElementTaps
    <3>2. TapHigh[TapHigh[wire.tap]] = "selIR"
      BY <1>5, TapWalks
    <3>. QED
      BY <1>2, <3>1, <3>2
  <2>4. DOMAIN I(2) = Fields /\ I(2).tap = "shIR"
    <3>1. DOMAIN Element(I(1), request[2]) = Fields
          /\ Element(I(1), request[2]).tap = TapLow[TapLow[I(1).tap]]
      BY <2>1, <2>3, ElementTaps
    <3>. QED
      BY <2>2, <2>3, <3>1, TapWalks
  <2>5. DOMAIN I(3) = Fields /\ I(3).tap = "upIR"
    <3>1. DOMAIN Element(I(2), request[3]) = Fields
          /\ Element(I(2), request[3]).tap = TapHigh[TapHigh[I(2).tap]]
      BY <2>1, <2>4, ElementTaps
    <3>. QED
      BY <2>2, <2>4, <3>1, TapWalks
  <2>6. DOMAIN I(4) = Fields /\ I(4).tap = "idle"
    <3>1. DOMAIN Element(I(3), request[4]) = Fields
          /\ Element(I(3), request[4]).tap = TapLow[I(3).tap]
      BY <2>1, <2>5, ElementTaps
    <3>. QED
      BY <2>2, <2>5, <3>1, TapWalks
  <2>. QED
    BY <2>1, <2>6 DEF I
<1>. QED
  BY <1>3, <1>4, <1>5 DEF HostSequences

(***************************************************************************)
(* The invariant is inductive.                                             *)
(***************************************************************************)

LEMMA ScannedInit == Init => Scanned
<1>. SUFFICES ASSUME Init PROVE Scanned
  OBVIOUS
<1>1. Resting
  BY DEF Init, Resting, Fields
<1>2. pc # "ops"
  BY DEF Init
<1>. QED
  BY <1>1, <1>2 DEF Scanned, InRequest, OthersBypassed, ScanReachesDevice, EndsIdle

LEMMA OutOfRequest ==
  ASSUME Resting', pc' # "ops"
  PROVE  Scanned'
BY DEF Scanned, InRequest, OthersBypassed, ScanReachesDevice, EndsIdle

\* What the host has described does not change in a request.
LEMMA SameChain ==
  ASSUME UNCHANGED <<chain, positions>>
  PROVE  /\ Described' = Described /\ Devices' = Devices
         /\ \A j : Selectable(j)' = Selectable(j)
BY DEF positions, Described, Devices, Selectable

LEMMA ScannedStep == Inv /\ Scanned /\ [Next]_vars => Scanned'
<1>. SUFFICES ASSUME Inv, Scanned, [Next]_vars PROVE Scanned'
  OBVIOUS
<1>0. Resting
  BY DEF Scanned
<1>1. CASE Describe
  <2>1. pc \in {"idle", "before", "after"} /\ pc' # "ops" /\ UNCHANGED <<wire, dap_idle_cycles>>
    BY <1>1 DEF Describe, Configure, Before, BeforeEnd, After, AfterEnd
  <2>. QED
    BY <1>0, <2>1, OutOfRequest DEF Resting
<1>2. ASSUME NEW index \in 0 .. DevCount - 1, Begin(index) PROVE Scanned'
  <2>1. /\ UNCHANGED <<chain, positions, wire, dap_idle_cycles>>
        /\ dap_jtag_dev_index' = index /\ dap_jtag_ir' = "invalid" /\ wire.tap = "idle"
        /\ last'.scan = "none" /\ last'.ack = "none" /\ Selectable(index)
    BY <1>2 DEF Begin
  <2>2. Resting'
    BY <1>0, <2>1 DEF Resting
  <2>3. InRequest'
    BY <2>1, SameChain DEF InRequest
  <2>. QED
    BY <2>1, <2>2, <2>3 DEF Scanned, OthersBypassed, ScanReachesDevice, EndsIdle
<1>3. ASSUME NEW index \in 0 .. DevCount - 1, IdCode(index) PROVE Scanned'
  <2>1. /\ UNCHANGED <<chain, positions, dap_idle_cycles>>
        /\ dap_jtag_dev_index' = index /\ dap_jtag_ir' = "invalid" /\ Selectable(index)
    BY <1>3 DEF IdCode
  <2>2. /\ DOMAIN wire' = Fields /\ wire'.tap = "idle" /\ wire'.out = <<>> /\ wire'.tdi = One
        /\ last'.scan = "idcode"
        /\ Described =>
              /\ \A d \in Devices \ {index} : wire'.ir[d] = "BYPASS" /\ wire'.taken[d] = <<>>
              /\ last'.read = DeviceBits(index, DataBits)
    BY <1>3, IdCodeDoes
  <2>3. Described' = Described /\ Devices' = Devices /\ Selectable(index)' = Selectable(index)
    BY <2>1, SameChain
  <2>4. Resting'
    BY <1>0, <2>1, <2>2 DEF Resting
  <2>5. InRequest'
    BY <2>1, <2>2, <2>3 DEF InRequest
  <2>6. OthersBypassed'
    BY <2>1, <2>2, <2>3 DEF OthersBypassed
  <2>7. ScanReachesDevice'
    BY <2>1, <2>2, <2>3 DEF ScanReachesDevice, IsRead
  <2>. QED
    BY <2>2, <2>4, <2>5, <2>6, <2>7 DEF Scanned, EndsIdle
<1>4. ASSUME NEW k \in Kinds, NEW a \in Answers, Operation(k, a) PROVE Scanned'
  <2>. DEFINE index == dap_jtag_dev_index
  <2>1. /\ UNCHANGED <<chain, positions, dap_jtag_dev_index, dap_idle_cycles, pc>> /\ pc = "ops"
        /\ dap_jtag_ir' = Instruction(k)
    BY <1>4 DEF Operation
  <2>2. /\ DOMAIN wire' = Fields /\ wire'.tap = "idle" /\ wire'.out = <<>> /\ wire'.tdi = One
        /\ last'.scan = k
        /\ Described =>
              /\ wire'.ir = Selected(index, Instruction(k))
              /\ \A d \in Devices \ {index} : wire'.taken[d] = <<>>
              /\ last'.ack = "OK" =>
                    IF IsRead(k)
                    THEN /\ SubSeq(wire'.taken[index], 1, 3) = Request
                         /\ last'.read = [j \in 1 .. DataBits |-> <<"device", index, j + 3>>]
                    ELSE wire'.taken[index] = Request \o Word(k)
    BY <1>4, OperationDoes
  <2>3. Described' = Described /\ Devices' = Devices /\ Selectable(index)' = Selectable(index)
    BY <2>1, SameChain
  <2>4. Resting'
    BY <1>0, <2>1, <2>2 DEF Resting
  <2>5. InRequest'
    <3>1. index \in 0 .. DevCount - 1 /\ Selectable(index)
      BY <2>1 DEF Scanned, InRequest
    <3>2. Selected(index, Instruction(k))' = Selected(index, Instruction(k))
      BY <2>1, <2>3 DEF Selected, Instruction
    <3>. QED
      BY <2>1, <2>2, <2>3, <3>1, <3>2 DEF InRequest
  <2>6. OthersBypassed'
    <3>1. Described => \A d \in Devices \ {index} : wire'.ir[d] = "BYPASS"
      BY <2>2 DEF Selected
    <3>. QED
      BY <2>1, <2>2, <2>3, <3>1 DEF OthersBypassed
  <2>7. ScanReachesDevice'
    <3>1. k # "idcode"
      BY DEF Kinds
    <3>. QED
      BY <2>1, <2>2, <2>3, <3>1 DEF ScanReachesDevice
  <2>. QED
    BY <2>2, <2>4, <2>5, <2>6, <2>7 DEF Scanned, EndsIdle
<1>5. CASE End
  <2>1. Resting'
    BY <1>0, <1>5 DEF End, Resting, Fields
  <2>. QED
    BY <1>5, <2>1, OutOfRequest DEF End
<1>6. ASSUME NEW request \in HostSequences, JtagSequence(request) PROVE Scanned'
  <2>. DEFINE v == Elements!Iterated(wire, request, Len(request))
  <2>1. DOMAIN v = Fields /\ v.tap \in {"idle", "reset"}
    BY <1>0, SequenceDoes DEF Resting
  <2>2. wire' = Rest(v) /\ dap_idle_cycles' = dap_idle_cycles /\ pc' # "ops"
    BY <1>6 DEF JtagSequence
  <2>. HIDE DEF v
  <2>3. Resting'
    BY <1>0, <2>1, <2>2, RestFields DEF Resting
  <2>. QED
    BY <2>2, <2>3, OutOfRequest
<1>7. ASSUME NEW n \in IdleCycles, TransferConfigure(n) PROVE Scanned'
  <2>1. dap_idle_cycles' \in Nat /\ wire' = wire /\ pc' # "ops"
    BY <1>7, JtagAssumption DEF TransferConfigure
  <2>. QED
    BY <1>0, <2>1, OutOfRequest DEF Resting
<1>8. CASE DapInit
  <2>1. dap_idle_cycles' \in Nat /\ wire' = wire /\ pc' # "ops"
    BY <1>8 DEF DapInit
  <2>. QED
    BY <1>0, <2>1, OutOfRequest DEF Resting
<1>9. CASE UNCHANGED vars
  <2>1. UNCHANGED <<chain, wire, dap_jtag_dev_index, positions, dap_jtag_ir,
                    dap_idle_cycles, pc, last>>
    BY <1>9 DEF vars
  <2>2. Described' = Described /\ Devices' = Devices /\ \A j : Selectable(j)' = Selectable(j)
    BY <2>1, SameChain
  <2>3. Resting'
    BY <1>0, <2>1 DEF Resting
  <2>4. InRequest'
    BY <2>1, <2>2 DEF Scanned, InRequest, Selected
  <2>5. OthersBypassed' /\ ScanReachesDevice' /\ EndsIdle'
    BY <2>1, <2>2 DEF Scanned, OthersBypassed, ScanReachesDevice, EndsIdle
  <2>. QED
    BY <2>3, <2>4, <2>5 DEF Scanned
<1>. QED
  BY <1>1, <1>2, <1>3, <1>4, <1>5, <1>6, <1>7, <1>8, <1>9 DEF Next, Scan

LEMMA AlwaysScanned == Spec => [](Inv /\ Scanned)
BY InvInit, InvStep, ScannedInit, ScannedStep, PTL DEF Spec

\* A scan leaves the controllers in Run-Test/Idle with TDI high, if the device has
\* refused it and if the chain is not the one that was described.
THEOREM EndsInIdle == Spec => []EndsIdle
<1>1. Scanned => EndsIdle
  BY DEF Scanned
<1>. QED
  BY <1>1, AlwaysScanned, PTL

\* The scan of the instruction is spared only if the device has that instruction.
THEOREM CacheIsHonest == Spec => []CacheHonest
<1>1. Inv /\ Scanned => CacheHonest
  <2>. SUFFICES ASSUME Inv, Scanned, Described, pc = "ops", dap_jtag_ir # "invalid"
                PROVE  wire.ir[dap_jtag_dev_index] = dap_jtag_ir
    BY DEF CacheHonest
  <2>1. wire.ir = Selected(dap_jtag_dev_index, dap_jtag_ir)
        /\ dap_jtag_dev_index \in 0 .. DevCount - 1 /\ Selectable(dap_jtag_dev_index)
    BY DEF Scanned, InRequest
  <2>2. dap_jtag_dev_index \in Devices
    BY <2>1, IndexTypes
  <2>. QED
    BY <2>1, <2>2 DEF Selected
<1>. QED
  BY <1>1, AlwaysScanned, PTL

\* A scan touches one device: whatever it was for, the others are in BYPASS and have
\* taken no access.
THEOREM OneDeviceOnly == Spec => []OthersBypassed
<1>1. Scanned => OthersBypassed
  BY DEF Scanned
<1>. QED
  BY <1>1, AlwaysScanned, PTL

\* Through any chain, with any number of devices ahead and behind and with registers of
\* any length, a scan that is answered OK brings to its device what was sent and to the
\* probe what the device has shifted out, each bit in its place.
THEOREM ScansReach == Spec => []ScanReachesDevice
<1>1. Scanned => ScanReachesDevice
  BY DEF Scanned
<1>. QED
  BY <1>1, AlwaysScanned, PTL
=============================================================================
