------------------------------- MODULE SwdWire -------------------------------
(***************************************************************************)
(* One operation on the serial wire, dap_swd_operation of                  *)
(* src/applications/free-dap/dap.c, clock by clock against a debug port.   *)
(*                                                                         *)
(* SWDIO belongs to the probe and to the target in turn, and nothing on    *)
(* the wire says whose turn it is: both count clocks, each with its own    *)
(* settings.  The level is what the probe writes if its pin and the level  *)
(* shifter point out, else what the target drives, else high (pull-up).    *)
(* The target hears of a clock only if SWCLK is driven.                    *)
(***************************************************************************)
EXTENDS TargetPins, FiniteSets

CONSTANTS
    DataBits,   \* bits of a data word; 32 in the code
    ResetOnes   \* ones in a row that reset the line; 50 for a debug port

ASSUME WireAssumption ==
    /\ DataBits \in Nat \ {0}
    /\ ResetOnes \in Nat
    \* Neither a header nor a word with its parity is a line reset.
    /\ ResetOnes > 8 /\ ResetOnes > DataBits + 1

\* dap_parity
Odd(b) == Cardinality({k \in DOMAIN b : b[k]}) % 2 = 1

(***************************************************************************)
(* The debug port.  It is idle, lost (silent until a line reset), or has   *)
(* seen a line reset.  Once it has a header it follows a plan, one slot a  *)
(* clock: to drive the line, to leave it, or to take the level.            *)
(***************************************************************************)

\* What a port can do with the next operation.
Reply(ack, word, bad) == [ack |-> ack, word |-> word, bad |-> bad]

\* settings.trn: clocks of turnaround.  settings.phase: a data phase whatever the
\* answer.
Target(settings) ==
    [st |-> "lost", settings |-> settings, reply |-> Reply("none", <<>>, FALSE),
     ones |-> 0, got |-> <<>>, plan |-> <<>>, taken |-> <<>>]

Leave(n) == [k \in 1 .. n |-> "leave"]
Take(n) == [k \in 1 .. n |-> "take"]
Driven(b) == [k \in DOMAIN b |-> IF b[k] THEN "high" ELSE "low"]

AckBits == [OK |-> <<TRUE, FALSE, FALSE>>,
            WAIT |-> <<FALSE, TRUE, FALSE>>,
            FAULT |-> <<FALSE, FALSE, TRUE>>]

\* After a valid header; rnw says that it is a read.
Plan(t, rnw) ==
    LET r == t.reply
        turn == Leave(t.settings.trn)
        data == IF r.ack = "OK" /\ rnw THEN Driven(Append(r.word, Odd(r.word) # r.bad))
                ELSE IF r.ack = "OK" \/ t.settings.phase THEN Take(DataBits + 1)
                ELSE <<>>
    IN  turn \o Driven(AckBits[r.ack]) \o (IF rnw THEN data \o turn ELSE turn \o data)

\* A word is taken with the right parity, after the answer OK.
Taken(t) ==
    LET word == SubSeq(t.got, 1, DataBits)
    IN  IF t.reply.ack = "OK" /\ Len(t.got) = DataBits + 1
           /\ t.got[DataBits + 1] = Odd(word)
        THEN word ELSE <<>>

\* A clock of the plan.
Follow(t, level) ==
    LET next == [t EXCEPT !.plan = Tail(@),
                          !.got = IF Head(t.plan) = "take" THEN Append(@, level) ELSE @]
    IN  IF next.plan # <<>> \/ t.st = "lost" THEN next
        ELSE [next EXCEPT !.taken = Taken(next), !.got = <<>>]

\* The header is start, APnDP, RnW, A2, A3, parity, stop, park.
Header(t) ==
    IF Len(t.got) < 8 THEN t
    ELSE IF t.got[6] # Odd(SubSeq(t.got, 2, 5)) \/ t.got[7] \/ ~t.got[8]
      THEN [t EXCEPT !.st = "error", !.got = <<>>]
    ELSE IF t.reply.ack = "none" THEN [t EXCEPT !.st = "lost", !.got = <<>>]
    ELSE [t EXCEPT !.plan = Plan(t, t.got[3]), !.ones = 0, !.got = <<>>]

\* The rising edge of SWCLK.  A line reset is counted on what the probe drives.
Edge(t, level, probe) ==
    LET n == IF level /\ probe THEN t.ones + 1 ELSE 0
        counted == [t EXCEPT !.ones = n]
    IN  IF t.plan # <<>> THEN Follow(t, level)
        ELSE IF n >= ResetOnes THEN [t EXCEPT !.st = "reset", !.ones = 0, !.got = <<>>]
        ELSE IF t.st = "reset" THEN IF level THEN t ELSE [t EXCEPT !.st = "idle", !.ones = 0]
        ELSE IF t.st = "idle" /\ (level \/ t.got # <<>>)
          THEN Header([counted EXCEPT !.got = Append(@, level)])
        ELSE counted

(***************************************************************************)
(* The primitives of the probe, on a wire: the pins, what the probe writes *)
(* on SWDIO, what it has sampled, the target, and whether both have driven *)
(* the line at the same time.                                              *)
(***************************************************************************)

Wire(target) ==
    [mode |-> mode, dir |-> dir, level |-> TRUE, in |-> <<>>, target |-> target,
     fought |-> FALSE]

Pulses(w) == w.mode["SWCLK"] = "out" /\ w.dir["SWCLK"] = "out"
Drives(w) == w.mode["SWDIO"] = "out" /\ w.dir["SWDIO"] = "out"

\* One period of SWCLK: low, sample, high.
Clock(w) ==
    LET slot == IF w.target.plan = <<>> THEN "leave" ELSE Head(w.target.plan)
        line == IF Drives(w) THEN w.level ELSE slot # "low"
        seen == [w EXCEPT !.in = Append(@, line),
                          !.fought = @ \/ (Drives(w) /\ slot \in {"high", "low"})]
    IN  IF Pulses(w) THEN [seen EXCEPT !.target = Edge(@, line, Drives(w))] ELSE seen

\* dap_swj_run
Clocks == INSTANCE Iteration WITH Body <- LAMBDA w, b, k : Clock(w)
Run(w, n) == Clocks!Iterated(w, <<>>, n)

\* dap_swd_read; the result is in the field in.
Read(w, n) == Run([w EXCEPT !.in = <<>>], n)

\* DAP_CONFIG_SWDIO_TMS_write
Level(w, b) == [w EXCEPT !.level = b]

\* dap_swd_write
Bits == INSTANCE Iteration WITH Body <- LAMBDA w, b, k : Clock(Level(w, b[k]))
Write(w, b) == Bits!Iterated(w, b, Len(b))

\* DAP_CONFIG_SWDIO_TMS_in and _out
TMS_in(w) == DoOps(w, HAL_SWDIO_TMS_in)
TMS_out(w) == DoOps(w, HAL_SWDIO_TMS_out)

(***************************************************************************)
(* dap_swd_operation.  A request is <<APnDP, RnW, A2, A3>>; settings are   *)
(* dap_swd_turnaround and dap_swd_data_phase, idle is dap_idle_cycles.     *)
(***************************************************************************)

\* Mutant: the line is not turned round.
AcknowledgeDriven(w, req, turnaround) ==
    LET header == <<TRUE>> \o req \o <<Odd(req), FALSE, TRUE>>
    IN  Read(Run(Write(w, header), turnaround), 3)

\* From the header to the acknowledge.
Acknowledge(w, req, turnaround) ==
    LET header == <<TRUE>> \o req \o <<Odd(req), FALSE, TRUE>>
    IN  Read(Run(TMS_in(Write(w, header)), turnaround), 3)

Result(w, ack, value) == [wire |-> w, ack |-> ack, value |-> value]

\* Mutant: the parity is clocked and not looked at.
ReadPhaseUnchecked(w, settings, idle) ==
    LET data == Read(w, DataBits)
    IN  Result(Run(Level(TMS_out(Run(data, 1 + settings.trn)), FALSE), idle), "OK", data.in)

ReadPhase(w, settings, idle) ==
    LET data == Read(w, DataBits)
        parity == Read(data, 1)
    IN  Result(Run(Level(TMS_out(Run(parity, settings.trn)), FALSE), idle),
               IF parity.in[1] = Odd(data.in) THEN "OK" ELSE "ERROR", data.in)

WritePhase(w, word, settings, idle) ==
    LET data == Write(TMS_out(Run(w, settings.trn)), Append(word, Odd(word)))
    IN  Result(Run(Level(data, FALSE), idle), "OK", <<>>)

\* Mutants: the line is not turned back; the data phase of a refused write is forgotten.
DeclinedShort(w, ack, rnw, settings) ==
    Result(TMS_out(Run(w, settings.trn + IF settings.phase /\ rnw THEN DataBits + 1 ELSE 0)),
           ack, <<>>)

DeclinedUnturned(w, ack, rnw, settings) ==
    Result(Run(w, settings.trn + IF settings.phase THEN DataBits + 1 ELSE 0), ack, <<>>)

\* The answer was WAIT or FAULT.
Declined(w, ack, rnw, settings) ==
    LET turned == TMS_out(Run(w, settings.trn + IF settings.phase /\ rnw
                                                THEN DataBits + 1 ELSE 0))
    IN  Result(IF settings.phase /\ ~rnw THEN Run(Level(turned, FALSE), DataBits + 1)
                                         ELSE turned,
               ack, <<>>)

\* The line stays an input if the answer was none of the three; it is left high.
dap_swd_operation(w, req, word, settings, idle) ==
    LET w1 == Acknowledge(w, req, settings.trn)
        rnw == req[2]
        done ==
            IF w1.in = AckBits.OK
              THEN IF rnw THEN ReadPhase(w1, settings, idle)
                          ELSE WritePhase(w1, word, settings, idle)
            ELSE IF w1.in = AckBits.WAIT THEN Declined(w1, "WAIT", rnw, settings)
            ELSE IF w1.in = AckBits.FAULT THEN Declined(w1, "FAULT", rnw, settings)
            ELSE Result(Run(w1, settings.trn + DataBits + 1), "PROTOCOL", <<>>)
    IN  [done EXCEPT !.wire = Level(@, TRUE)]
=============================================================================
