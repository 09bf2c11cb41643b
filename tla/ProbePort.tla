------------------------------ MODULE ProbePort ------------------------------
(***************************************************************************)
(* The requests of src/applications/free-dap/dap.c that work on the port   *)
(* itself, composed: the pins, which Black Magic uses as well              *)
(* (TargetPins), the serial wire with a target at its end (SwdWire), and   *)
(* the clock and the delays (DapClock).                                    *)
(*                                                                         *)
(* The target follows the wire while it is in step.  It is out of step at  *)
(* first, when someone else has touched the lines, when the host sends     *)
(* what is no operation, and when its settings and those of the probe      *)
(* differ: then it may answer by chance, until the line is reset.          *)
(***************************************************************************)
EXTENDS SwdWire, DapClock

CONSTANTS
    Settings,     \* turnaround and data phase, of the probe and of the target
    Requests,     \* <<APnDP, RnW, A2, A3>> of the accesses
    Words,        \* data words
    IdleCycles,   \* what the host gives to dap_idle_cycles
    Frequencies,  \* requests of dap_swj_clock
    Delays,       \* requests of dap_delay
    Waits         \* requests of dap_swj_pins

DefaultSettings == [trn |-> 1, phase |-> FALSE]

ASSUME PortAssumption ==
    /\ DefaultSettings \in Settings
    /\ Settings \subseteq [trn : Nat \ {0}, phase : BOOLEAN]
    /\ Requests \subseteq [1 .. 4 -> BOOLEAN]
    /\ Words \subseteq [1 .. DataBits -> BOOLEAN]
    /\ IdleCycles \subseteq Nat
    /\ Delays \subseteq 0 .. HalfMax
    /\ \A x \in Frequencies \cup Waits : IsInt(x)

VARIABLES
    target,     \* the debug port, see SwdWire
    dap_swd,    \* dap_swd_turnaround, dap_swd_data_phase
    last        \* history: the request just done and what has come of it

portvars == <<vars, target, dap_swd, last>>

Nothing == [kind |-> "none"]

PortInit ==
    /\ Init
    /\ target = Target(DefaultSettings)
    /\ dap_swd = DefaultSettings
    /\ last = Nothing

\* The target is out of step, and keeps its settings.
Lost == target' = Target(target.settings)

(***************************************************************************)
(* Black Magic's thread, and the target by itself.                         *)
(***************************************************************************)

ThreadBegin ==
    /\ PlatformInit \/ Float \/ Drive \/ \E v \in {"in", "out"} : ClkOutputEnable(v)
    /\ UNCHANGED <<target, dap_swd>>

ThreadStep ==
    /\ Step
    /\ Lost
    /\ UNCHANGED dap_swd

\* What the host has written to the target's control registers takes effect.
Retune(settings) ==
    /\ target.st = "idle"
    /\ target' = [target EXCEPT !.settings = settings]
    /\ UNCHANGED <<vars, dap_swd>>

\* The target loses its power.
PowerCycle ==
    /\ target' = Target(DefaultSettings)
    /\ UNCHANGED <<vars, dap_swd>>

(***************************************************************************)
(* Set-up and connection.                                                  *)
(***************************************************************************)

\* dap_setup_clock; what it stores has a bearing on time only.
ClockSet(freq) == last' = [kind |-> "clock", asked |-> freq, clock |-> dap_setup_clock(freq)]

dap_init ==
    /\ DapInit
    /\ Lost
    /\ dap_swd' = DefaultSettings
    /\ ClockSet(DefaultClock)

\* The lines are set one by one, and the target may take that for a clock.
dap_connect ==
    /\ \/ (ConnectSwd \/ ConnectJtag) /\ Lost
       \/ ConnectOther /\ UNCHANGED target
    /\ UNCHANGED dap_swd

dap_disconnect ==
    /\ Disconnect
    /\ Lost
    /\ UNCHANGED dap_swd

(***************************************************************************)
(* The wire.                                                               *)
(***************************************************************************)

Linked == target.st = "idle" /\ target.settings = dap_swd

\* The target at the beginning of an operation to which it will give reply r, by
\* chance if it is out of step.
Ready(r) ==
    IF Linked THEN [target EXCEPT !.reply = r]
    ELSE [Target(target.settings) EXCEPT
            !.plan = Leave(8 + dap_swd.trn)
                        \o (IF r.ack = "none" THEN <<>> ELSE Driven(AckBits[r.ack]))]

\* The target between requests.
Resting(t) ==
    IF t.st = "lost" THEN Target(t.settings)
    ELSE [t EXCEPT !.reply = Reply("none", <<>>, FALSE), !.taken = <<>>]

Replies(read) ==
    (IF read THEN {Reply("OK", word, bad) : word \in Words, bad \in BOOLEAN}
             ELSE {Reply("OK", <<>>, FALSE)})
        \cup {Reply(ack, <<>>, FALSE) : ack \in {"WAIT", "FAULT", "none"}}

\* What there is to write.
Data(read) == IF read THEN {<<>>} ELSE Words

\* dap_swd_operation, for dap_transfer and dap_transfer_block.
Access(req, word, idle, r) ==
    /\ dap_port = "swd"
    /\ LET res == dap_swd_operation(Wire(Ready(r)), req, word, dap_swd, idle)
       IN  /\ mode' = res.wire.mode
           /\ dir' = res.wire.dir
           /\ target' = Resting(res.wire.target)
           /\ silent' = (res.ack = "PROTOCOL")
           /\ last' = [kind |-> "access", linked |-> Linked, read |-> req[2],
                       ack |-> res.ack, value |-> res.value, word |-> word, reply |-> r,
                       taken |-> res.wire.target.taken, fought |-> res.wire.fought]
    /\ torn' = (todo # <<>>)
    /\ UNCHANGED <<todo, booted, attached, dap_port, foreign, clock_off, dap_swd>>

\* dap_write_abort: a write of the ABORT register, whose answer is not looked at.
dap_write_abort(word, idle, r) == Access(<<FALSE, FALSE, FALSE, FALSE>>, word, idle, r)

\* What the host sends: a line reset, idle clocks, and part of a header.
LineReset == [k \in 1 .. ResetOnes |-> TRUE] \o <<FALSE, FALSE>>
Zeros == <<FALSE, FALSE>>
Junk == <<TRUE, FALSE, TRUE>>

\* The bits b have been sent on the wire w: a target that is left with part of a
\* header is out of step.
Sent(w) ==
    target' = IF w.target.st \in {"idle", "reset"} /\ w.target.got = <<>>
              THEN Resting(w.target) ELSE Target(w.target.settings)

\* dap_swj_sequence writes, to whatever the line is connected to.
dap_swj_sequence(b) ==
    /\ attached
    /\ Sent(Write(Wire(target), b))
    /\ last' = [kind |-> "sequence", bits |-> b]
    /\ UNCHANGED <<vars, dap_swd>>

\* A part of a sequence: bits to write, or to read, after the line is turned.
Part(din, b) == [din |-> din, bits |-> b]

Play(w, part) ==
    IF part.din THEN Run(TMS_in(w), Len(part.bits)) ELSE Write(TMS_out(w), part.bits)

Parts == INSTANCE Iteration WITH Body <- LAMBDA w, parts, k : Play(w, parts[k])

\* Mutant: the line is left as the last part wanted it.
SequenceOpen(parts) == Parts!Iterated(Wire(target), parts, Len(parts))

Sequence(parts) == TMS_out(Parts!Iterated(Wire(target), parts, Len(parts)))

\* dap_swd_sequence
dap_swd_sequence(parts) ==
    /\ dap_port = "swd"
    /\ LET w == Sequence(parts)
       IN  mode' = w.mode /\ dir' = w.dir /\ Sent(w)
    /\ silent' = FALSE
    /\ torn' = (todo # <<>>)
    /\ last' = [kind |-> "sequence", bits |-> parts[Len(parts)].bits]
    /\ UNCHANGED <<todo, booted, attached, dap_port, foreign, clock_off, dap_swd>>

\* dap_swd_configure
dap_swd_configure(settings) ==
    /\ attached
    /\ dap_swd' = settings
    /\ UNCHANGED <<vars, target>>

(***************************************************************************)
(* Time.                                                                   *)
(***************************************************************************)

dap_swj_clock(freq) ==
    /\ attached
    /\ ClockSet(freq)
    /\ UNCHANGED <<vars, target, dap_swd>>

dap_delay(half, wide) ==
    /\ attached
    /\ last' = [kind |-> "wait", asked |-> half, counts |-> dap_delay_us(half, wide)]
    /\ UNCHANGED <<vars, target, dap_swd>>

\* dap_swj_pins: the levels of some lines, then the wait.
dap_swj_pins(lines, wait, wide) ==
    /\ attached
    /\ IF lines THEN Lost ELSE UNCHANGED target
    /\ last' = [kind |-> "wait", asked |-> wait * Kilo, counts |-> PinsWaited(wait, wide)]
    /\ UNCHANGED <<vars, dap_swd>>

(***************************************************************************)
(* The specification.                                                      *)
(***************************************************************************)

\* The requests with a result that is looked at below, and those without.
Reporting ==
    \/ dap_init
    \/ \E idle \in IdleCycles :
          \/ \E req \in Requests : \E word \in Data(req[2]), r \in Replies(req[2]) :
                Access(req, word, idle, r)
          \/ \E word \in Data(FALSE), r \in Replies(FALSE) : dap_write_abort(word, idle, r)
    \/ \E b \in {LineReset, Zeros, Junk} :
          \/ dap_swj_sequence(b)
          \/ \E din \in BOOLEAN : dap_swd_sequence(<<Part(din, Zeros), Part(FALSE, b)>>)
          \/ dap_swd_sequence(<<Part(FALSE, b), Part(TRUE, Zeros)>>)
    \/ \E freq \in Frequencies : dap_swj_clock(freq)
    \/ \E wide \in BOOLEAN :
          \/ \E half \in Delays : dap_delay(half, wide)
          \/ \E wait \in Waits, lines \in BOOLEAN : dap_swj_pins(lines, wait, wide)

Unreported ==
    \/ dap_connect \/ dap_disconnect
    \/ \E settings \in Settings : dap_swd_configure(settings)
    \/ ThreadBegin \/ ThreadStep
    \/ \E settings \in Settings : Retune(settings)
    \/ PowerCycle

\* The result is forgotten before anything else happens.
Forget ==
    /\ last # Nothing
    /\ last' = Nothing
    /\ UNCHANGED <<vars, target, dap_swd>>

PortNext ==
    \/ last = Nothing /\ Reporting
    \/ last = Nothing /\ Unreported /\ UNCHANGED last
    \/ Forget

PortSpec == PortInit /\ [][PortNext]_portvars

(***************************************************************************)
(* Properties.                                                             *)
(***************************************************************************)

PortTypeOK ==
    /\ TypeOK
    /\ target.st \in {"idle", "lost", "reset", "error"}
    /\ {target.settings, dap_swd} \subseteq Settings
    /\ target.ones \in 0 .. ResetOnes

\* The turns on SWDIO: as long as probe and target have the same settings, they
\* never drive the line at the same time, whatever the answer, the direction, the
\* turnaround and the data phase.  A target with settings of its own is not covered:
\* it turns the line in its own time, and does fight the probe.
LineNotFought == (last.kind = "access" /\ last.linked) => ~last.fought

\* What an operation reports is what has happened at the target: a word that is
\* read with OK is the word the target has sent, a word that is damaged is
\* reported, a write is taken if and only if the answer is OK, and no answer is
\* made up.
OperationHonest ==
    (last.kind = "access" /\ last.linked) =>
        LET r == last.reply
        IN  /\ r.ack = "none" => last.ack = "PROTOCOL" /\ last.taken = <<>>
            /\ r.ack \in {"WAIT", "FAULT"} => last.ack = r.ack /\ last.taken = <<>>
            /\ r.ack = "OK" =>
                  IF last.read
                    THEN IF r.bad THEN last.ack = "ERROR"
                                  ELSE last.ack = "OK" /\ last.value = r.word
                    ELSE last.ack = "OK" /\ last.taken = last.word

\* Probe and target count the same clocks: after each operation a target that has
\* answered is ready for the next one, and none sees a header that is not one.  A
\* target that is out of step is brought back by a line reset on a connected
\* port, unless the last operation was not answered: then the probe does not
\* drive SWDIO, and the reset does not leave it.
StaysInStep ==
    /\ target.st \in {"idle", "lost"} /\ target.plan = <<>> /\ target.got = <<>>
    /\ (last.kind = "access" /\ last.linked /\ last.reply.ack # "none")
          => target.st = "idle"
    /\ (/\ last.kind = "sequence" /\ last.bits = LineReset
        /\ dap_port = "swd" /\ ~silent /\ ~foreign)
          => target.st = "idle"

\* Times are as asked.  Half a period is the largest number of counts that does
\* not make the clock slower than a positive frequency asks for, or none above
\* FastClock; a wait takes the counts of its time if their product with the delay
\* constant is an int, which it is for each half-word (dap_delay).
TimesAsAsked ==
    /\ (last.kind = "clock" /\ last.asked > 0) =>
          LET h == HalfPeriod(last.clock)
          IN  IF last.asked > FastClock THEN last.clock.fast
              ELSE /\ h * last.asked <= DelayConstant * Kilo
                   /\ (h + 1) * last.asked > DelayConstant * Kilo
    /\ (last.kind = "wait" /\ 2 * DelayConstant * last.asked \in 0 .. IntMax) =>
          /\ last.counts * Kilo <= 2 * DelayConstant * last.asked
          /\ (last.counts + 1) * Kilo > 2 * DelayConstant * last.asked

\* The operations, clock by clock, turn the lines as the specification of the pins
\* says, whatever the target does.
PinsImplemented == Spec
=============================================================================
