------------------------------ MODULE DapClock ------------------------------
(***************************************************************************)
(* The arithmetic on time of src/applications/free-dap/dap.c: the delay    *)
(* loop counts that a frequency or a time in a request becomes, with the   *)
(* width and the sign of a C int.  A time passes as counts of the loop     *)
(* DAP_CONFIG_DELAY.                                                       *)
(***************************************************************************)
EXTENDS Integers

CONSTANTS
    IntMax,         \* the largest int; 2^31 - 1 in the code
    HalfMax,        \* the largest half-word; 2^16 - 1
    DelayConstant,  \* DAP_CONFIG_DELAY_CONSTANT, counts in half a period of 1 kHz
    Kilo,           \* the code's 1000
    FastClock,      \* DAP_CONFIG_FAST_CLOCK
    DefaultClock,   \* DAP_CONFIG_DEFAULT_CLOCK
    Round           \* the longest single wait of dap_delay_us

ASSUME ClockAssumption ==
    /\ {IntMax, HalfMax, DelayConstant, Kilo, FastClock, DefaultClock, Round}
          \subseteq Nat \ {0}
    /\ DelayConstant * Kilo <= IntMax
    /\ HalfMax <= Round
    /\ 2 * DelayConstant * HalfMax <= IntMax
    /\ 2 * DelayConstant * Round > IntMax

IsInt(x) == x \in -IntMax - 1 .. IntMax

\* Two's complement, and the same bits as a uint32_t.
Wrapped(x) == ((x + IntMax + 1) % (2 * IntMax + 2)) - IntMax - 1
Unsigned(x) == x % (2 * IntMax + 2)

\* The outcome of an int expression with the value x: the build may keep more
\* bits of one that overflows (wide).
Computed(x, wide) == IF wide THEN x ELSE Wrapped(x)

\* a / b of C, b > 0
Quotient(a, b) == IF a >= 0 THEN a \div b ELSE -((-a) \div b)

(***************************************************************************)
(* dap_setup_clock.                                                        *)
(***************************************************************************)

\* dap_clock_delay, and whether the functions without delay loops are used.
Clocked(delay, fast) == [delay |-> delay, fast |-> fast]

\* Mutant: the frequency is taken for kHz.
SetupClockKilo(freq) ==
    CASE freq > FastClock -> Clocked(0, TRUE)
      [] freq <= 0 -> Clocked(0, FALSE)
      [] OTHER -> Clocked(DelayConstant \div freq, FALSE)

\* The division by 0 yields 0 on the processor of the probe.
dap_setup_clock(freq) ==
    CASE freq > FastClock -> Clocked(0, TRUE)
      [] freq = 0 -> Clocked(0, FALSE)
      [] freq < 0 -> Clocked(-((DelayConstant * Kilo) \div (-freq)), FALSE)
      [] OTHER -> Clocked((DelayConstant * Kilo) \div freq, FALSE)

\* The counts that half a period takes: dap_swj_run_slow and its like convert the
\* delay to unsigned.
HalfPeriod(clock) == IF clock.fast THEN 0 ELSE Unsigned(clock.delay)

(***************************************************************************)
(* dap_delay_us: the counts that it takes.                                 *)
(***************************************************************************)

\* One round of the loop.
Spin(del, wide) ==
    Unsigned(Quotient(Computed(DelayConstant * 2 * del, wide), Kilo))

\* A negative delay is one round.
dap_delay_us(delay, wide) ==
    LET full == IF delay > 0 THEN delay \div Round ELSE 0
        rest == IF delay > 0 THEN delay % Round ELSE delay
    IN  full * Spin(Round, wide) + (IF rest = 0 THEN 0 ELSE Spin(rest, wide))

\* The wait of dap_swj_pins, in thousands: the product is passed on as an int.
PinsWaited(wait, wide) == dap_delay_us(Wrapped(wait * Kilo), wide)
=============================================================================
