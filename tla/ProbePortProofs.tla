--------------------------- MODULE ProbePortProofs ---------------------------
(***************************************************************************)
(* Theorems about ProbePort, for every width of an int and every setting   *)
(* of the delay constants.                                                 *)
(***************************************************************************)
EXTENDS ProbePort, TLAPS

(***************************************************************************)
(* Arithmetic.                                                             *)
(***************************************************************************)

LEMMA Division ==
  ASSUME NEW a \in Nat, NEW b \in Nat \ {0}
  PROVE  /\ a \div b \in Nat
         /\ (a \div b) * b <= a
         /\ ((a \div b) + 1) * b > a
         /\ a \div b <= a
  OBVIOUS

LEMMA Remains ==
  ASSUME NEW a \in Nat, NEW b \in Nat, a < b
  PROVE  /\ a % b = a
         /\ a \div b = 0
  OBVIOUS

\* What is an int is not changed by the conversions.
LEMMA Fits ==
  ASSUME NEW x \in Nat, x <= IntMax, IntMax \in Nat
  PROVE  /\ Unsigned(x) = x
         /\ Wrapped(x) = x
         /\ \A wide \in BOOLEAN : Computed(x, wide) = x
<1>1. Unsigned(x) = x
  BY Remains DEF Unsigned
<1>2. Wrapped(x) = x
  <2>1. (x + IntMax + 1) % (2 * IntMax + 2) = x + IntMax + 1
    BY Remains
  <2>. QED
    BY <2>1 DEF Wrapped
<1>. QED
  BY <1>1, <1>2 DEF Computed

\* The products of constants and small arguments are natural numbers.
LEMMA Constants ==
  /\ IntMax \in Nat /\ Kilo \in Nat \ {0} /\ DelayConstant \in Nat \ {0} /\ Round \in Nat \ {0}
  /\ DelayConstant * Kilo \in Nat /\ DelayConstant * Kilo <= IntMax
  /\ 2 * DelayConstant * Round > IntMax
BY ClockAssumption

(***************************************************************************)
(* The three requests that take a time or a frequency.                     *)
(***************************************************************************)

\* Half a period, from dap_setup_clock.
LEMMA ClockAsAsked ==
  ASSUME NEW freq, freq > 0, freq \in Int
  PROVE  LET h == HalfPeriod(dap_setup_clock(freq))
         IN  IF freq > FastClock THEN dap_setup_clock(freq).fast
             ELSE /\ h * freq <= DelayConstant * Kilo
                  /\ (h + 1) * freq > DelayConstant * Kilo
<1>. DEFINE c == DelayConstant * Kilo
<1>0. FastClock \in Nat
  BY ClockAssumption
<1>1. CASE freq > FastClock
  BY <1>1, <1>0 DEF dap_setup_clock, Clocked
<1>2. CASE ~(freq > FastClock)
  <2>1. freq \in Nat \ {0} /\ c \in Nat /\ c <= IntMax
    BY Constants
  <2>. HIDE DEF c
  <2>2. dap_setup_clock(freq) = Clocked(c \div freq, FALSE)
    <3>1. freq # 0 /\ ~(freq < 0)
      BY <2>1
    <3>. QED
      BY <1>2, <3>1, Zenon DEF dap_setup_clock, c
  <2>3. /\ c \div freq \in Nat /\ c \div freq <= IntMax
        /\ (c \div freq) * freq <= c /\ ((c \div freq) + 1) * freq > c
    BY <2>1, Division, Constants
  <2>4. HalfPeriod(Clocked(c \div freq, FALSE)) = Unsigned(c \div freq)
    BY DEF HalfPeriod, Clocked
  <2>5. Unsigned(c \div freq) = c \div freq
    BY <2>3, Fits, Constants
  <2>. QED
    BY <1>2, <2>2, <2>3, <2>4, <2>5 DEF c
<1>. QED
  BY <1>1, <1>2

LEMMA SpinIsNat ==
  ASSUME NEW del \in Int, NEW wide \in BOOLEAN
  PROVE  Spin(del, wide) \in Nat
<1>. DEFINE p == DelayConstant * 2 * del
            c == Computed(p, wide)
            q == Quotient(c, Kilo)
<1>1. p \in Int
  BY Constants
<1>2. c \in Int
  BY <1>1, Constants DEF Computed, Wrapped
<1>3. q \in Int
  <2>1. CASE c >= 0
    BY <1>2, <2>1, Constants DEF Quotient
  <2>2. CASE ~(c >= 0)
    BY <1>2, <2>2, Constants DEF Quotient
  <2>. QED
    BY <2>1, <2>2
<1>4. Unsigned(q) \in Nat
  BY <1>3, Constants DEF Unsigned
<1>. QED
  BY <1>4 DEF Spin

\* A wait whose product with the delay constant is an int is one round.
LEMMA DelayAsAsked ==
  ASSUME NEW delay \in Int, NEW wide \in BOOLEAN,
         2 * DelayConstant * delay \in 0 .. IntMax
  PROVE  /\ dap_delay_us(delay, wide) * Kilo <= 2 * DelayConstant * delay
         /\ (dap_delay_us(delay, wide) + 1) * Kilo > 2 * DelayConstant * delay
<1>. DEFINE p == DelayConstant * 2 * delay
<1>1. p = 2 * DelayConstant * delay /\ p \in Nat /\ p <= IntMax
  BY Constants
<1>2. delay \in Nat /\ delay < Round
  BY Constants, <1>1
<1>3. dap_delay_us(delay, wide) = IF delay = 0 THEN 0 ELSE Spin(delay, wide)
  <2>1. CASE delay = 0
    <3>1. 0 * Spin(Round, wide) = 0
      BY SpinIsNat, Constants
    <3>. QED
      BY <2>1, <3>1 DEF dap_delay_us
  <2>2. CASE delay # 0
    <3>1. delay > 0 /\ delay \div Round = 0 /\ delay % Round = delay
      BY <1>2, <2>2, Remains, Constants
    <3>2. dap_delay_us(delay, wide) = 0 * Spin(Round, wide) + Spin(delay, wide)
      BY <2>2, <3>1 DEF dap_delay_us
    <3>3. Spin(Round, wide) \in Nat /\ Spin(delay, wide) \in Nat
      BY SpinIsNat, Constants
    <3>. QED
      BY <2>2, <3>2, <3>3
  <2>. QED
    BY <2>1, <2>2
<1>4. Spin(delay, wide) = p \div Kilo
  <2>1. Computed(p, wide) = p
    BY <1>1, Fits, Constants
  <2>2. Quotient(p, Kilo) = p \div Kilo
    BY <1>1 DEF Quotient
  <2>3. p \div Kilo \in Nat /\ p \div Kilo <= IntMax
    BY <1>1, Division, Constants
  <2>4. Unsigned(p \div Kilo) = p \div Kilo
    BY <2>3, Fits, Constants
  <2>. QED
    BY <2>1, <2>2, <2>4 DEF Spin
<1>5. delay = 0 => p = 0
  BY Constants
<1>. HIDE DEF p
<1>6. (p \div Kilo) * Kilo <= p /\ ((p \div Kilo) + 1) * Kilo > p
  BY <1>1, Division, Constants
<1>7. CASE delay = 0
  BY <1>1, <1>3, <1>5, <1>7, Constants
<1>8. CASE delay # 0
  BY <1>1, <1>3, <1>4, <1>6, <1>8
<1>. QED
  BY <1>7, <1>8
(***************************************************************************)
(* Times are as asked.                                                     *)
(***************************************************************************)

\* Requests without a time in them.
LEMMA NoTime ==
  ASSUME last.kind \notin {"clock", "wait"}
  PROVE  TimesAsAsked
BY DEF TimesAsAsked

LEMMA ClockSetHonest ==
  ASSUME NEW freq \in Int, ClockSet(freq)
  PROVE  TimesAsAsked'
<1>1. /\ last'.kind = "clock" /\ last'.asked = freq
      /\ last'.clock = dap_setup_clock(freq)
  BY DEF ClockSet
<1>. QED
  BY <1>1, ClockAsAsked DEF TimesAsAsked

LEMMA WaitHonest ==
  ASSUME NEW asked \in Int, NEW wide \in BOOLEAN,
         last' = [kind |-> "wait", asked |-> asked, counts |-> dap_delay_us(asked, wide)]
         \/ (/\ 2 * DelayConstant * asked \notin 0 .. IntMax
             /\ last'.kind = "wait" /\ last'.asked = asked)
  PROVE  TimesAsAsked'
<1>1. last'.kind = "wait" /\ last'.asked = asked
  OBVIOUS
<1>2. CASE 2 * DelayConstant * asked \in 0 .. IntMax
  <2>1. last'.counts = dap_delay_us(asked, wide)
    BY <1>2
  <2>. QED
    BY <1>1, <1>2, <2>1, DelayAsAsked DEF TimesAsAsked
<1>3. CASE 2 * DelayConstant * asked \notin 0 .. IntMax
  BY <1>1, <1>3 DEF TimesAsAsked
<1>. QED
  BY <1>2, <1>3

LEMMA TimesStep == TimesAsAsked /\ [PortNext]_portvars => TimesAsAsked'
<1>. SUFFICES ASSUME TimesAsAsked, [PortNext]_portvars PROVE TimesAsAsked'
  OBVIOUS
<1>1. CASE dap_init
  <2>1. DefaultClock \in Int
    BY ClockAssumption
  <2>. QED
    BY <1>1, <2>1, ClockSetHonest DEF dap_init
<1>2. ASSUME NEW req, NEW word, NEW idle, NEW r, Access(req, word, idle, r)
      PROVE  TimesAsAsked'
  <2>1. last'.kind = "access"
    BY <1>2 DEF Access
  <2>. QED
    BY <2>1 DEF TimesAsAsked
<1>3. ASSUME NEW b, dap_swj_sequence(b) PROVE TimesAsAsked'
  <2>1. last'.kind = "sequence"
    BY <1>3 DEF dap_swj_sequence
  <2>. QED
    BY <2>1 DEF TimesAsAsked
<1>4. ASSUME NEW parts, dap_swd_sequence(parts) PROVE TimesAsAsked'
  <2>1. last'.kind = "sequence"
    BY <1>4 DEF dap_swd_sequence
  <2>. QED
    BY <2>1 DEF TimesAsAsked
<1>5. ASSUME NEW freq \in Frequencies, dap_swj_clock(freq) PROVE TimesAsAsked'
  <2>1. freq \in Int
    BY PortAssumption, Constants DEF IsInt
  <2>. QED
    BY <1>5, <2>1, ClockSetHonest DEF dap_swj_clock
<1>6. ASSUME NEW wide \in BOOLEAN, NEW half \in Delays, dap_delay(half, wide)
      PROVE  TimesAsAsked'
  <2>1. half \in Int
    BY PortAssumption, ClockAssumption
  <2>. QED
    BY <1>6, <2>1, WaitHonest DEF dap_delay
<1>7. ASSUME NEW wide \in BOOLEAN, NEW wait \in Waits, NEW lines, dap_swj_pins(lines, wait, wide)
      PROVE  TimesAsAsked'
  <2>. DEFINE asked == wait * Kilo
  <2>1. wait \in Int /\ asked \in Int
    BY PortAssumption, Constants DEF IsInt
  <2>2. last' = [kind |-> "wait", asked |-> asked, counts |-> PinsWaited(wait, wide)]
    BY <1>7 DEF dap_swj_pins
  <2>. HIDE DEF asked
  <2>3. CASE 2 * DelayConstant * asked \in 0 .. IntMax
    <3>1. asked \in Nat /\ asked <= IntMax
      BY <2>1, <2>3, Constants
    <3>2. Wrapped(asked) = asked
      BY <3>1, Fits, Constants
    <3>3. PinsWaited(wait, wide) = dap_delay_us(asked, wide)
      BY <3>2 DEF PinsWaited, asked
    <3>. QED
      BY <2>1, <2>2, <3>3, WaitHonest
  <2>4. CASE 2 * DelayConstant * asked \notin 0 .. IntMax
    BY <2>1, <2>2, <2>4, WaitHonest
  <2>. QED
    BY <2>3, <2>4
<1>8. CASE last = Nothing /\ Unreported /\ UNCHANGED last
  BY <1>8 DEF TimesAsAsked
<1>9. CASE Forget
  <2>1. last'.kind = "none"
    BY <1>9 DEF Forget, Nothing
  <2>. QED
    BY <2>1 DEF TimesAsAsked
<1>10. CASE UNCHANGED portvars
  BY <1>10 DEF portvars, TimesAsAsked
<1>11. CASE last = Nothing /\ Reporting
  BY <1>1, <1>2, <1>3, <1>4, <1>5, <1>6, <1>7, <1>11 DEF Reporting, dap_write_abort
<1>. QED
  BY <1>8, <1>9, <1>10, <1>11 DEF PortNext

\* dap_setup_clock and dap_delay_us, for every width of an int, every delay
\* constant and every request: half a period is the greatest number of counts that
\* does not make the clock slower than a positive frequency asks for, so the clock is
\* the slowest one that is not slower than asked, and may be faster (with the
\* constant of 14300, 700 kHz asked: 20 counts, 715 kHz); above FastClock no delay.
\* A wait that does not overflow is not longer than asked and less than a count shorter.
THEOREM TimesCorrect == PortSpec => []TimesAsAsked
<1>1. PortInit => TimesAsAsked
  BY NoTime DEF PortInit, Nothing
<1>. QED
  BY <1>1, TimesStep, PTL DEF PortSpec

(***************************************************************************)
(* Pin operations.                                                         *)
(***************************************************************************)

\* What has the lines of the probe: the state of the pins, and a wire.
HasLines(s) == {"mode", "dir"} \subseteq DOMAIN s

Put(f, p, v) == [f EXCEPT ![p] = v]

LEMMA PinDone ==
  ASSUME NEW s, NEW p, NEW v
  PROVE  /\ Do(s, Mode(p, v)) = [s EXCEPT !.mode = Put(s.mode, p, v)]
         /\ Do(s, Dir(p, v)) = [s EXCEPT !.dir = Put(s.dir, p, v)]
BY DEF Do, Mode, Dir, Put

LEMMA ModeDone ==
  ASSUME NEW s, HasLines(s), NEW p, NEW v
  PROVE  /\ HasLines(Do(s, Mode(p, v)))
         /\ Do(s, Mode(p, v)).mode = Put(s.mode, p, v)
         /\ Do(s, Mode(p, v)).dir = s.dir
BY PinDone DEF HasLines, Put

LEMMA DirDone ==
  ASSUME NEW s, HasLines(s), NEW p, NEW v
  PROVE  /\ HasLines(Do(s, Dir(p, v)))
         /\ Do(s, Dir(p, v)).dir = Put(s.dir, p, v)
         /\ Do(s, Dir(p, v)).mode = s.mode
BY PinDone DEF HasLines, Put

LEMMA OneDone ==
  ASSUME NEW s, NEW a
  PROVE  DoOps(s, <<a>>) = Do(s, a)
<1>1. /\ Ops!Iterated(s, <<a>>, 0) = s
      /\ Ops!Iterated(s, <<a>>, 0 + 1) = Do(Ops!Iterated(s, <<a>>, 0), <<a>>[0 + 1])
  BY Ops!Unrolled
<1>. QED
  BY <1>1 DEF DoOps

LEMMA TwoDone ==
  ASSUME NEW s, NEW a, NEW b
  PROVE  DoOps(s, <<a, b>>) = Do(Do(s, a), b)
<1>. DEFINE ops == <<a, b>>
<1>1. /\ Ops!Iterated(s, ops, 0) = s
      /\ Ops!Iterated(s, ops, 0 + 1) = Do(Ops!Iterated(s, ops, 0), ops[0 + 1])
      /\ Ops!Iterated(s, ops, 1 + 1) = Do(Ops!Iterated(s, ops, 1), ops[1 + 1])
  BY Ops!Unrolled
<1>. QED
  BY <1>1 DEF DoOps

LEMMA FourDone ==
  ASSUME NEW s, NEW a, NEW b, NEW c, NEW d
  PROVE  DoOps(s, <<a, b>> \o <<c, d>>) = DoOps(DoOps(s, <<a, b>>), <<c, d>>)
<1>. DEFINE ops == <<a, b>> \o <<c, d>>
            R(n) == Ops!Iterated(s, ops, n)
<1>1. Len(ops) = 4 /\ ops[1] = a /\ ops[2] = b /\ ops[3] = c /\ ops[4] = d
  OBVIOUS
<1>. HIDE DEF ops
<1>2. /\ R(0) = s
      /\ R(0 + 1) = Do(R(0), ops[0 + 1]) /\ R(1 + 1) = Do(R(1), ops[1 + 1])
      /\ R(2 + 1) = Do(R(2), ops[2 + 1]) /\ R(3 + 1) = Do(R(3), ops[3 + 1])
  BY Ops!Unrolled
<1>. HIDE DEF R
<1>3. R(4) = Do(Do(Do(Do(s, a), b), c), d)
  BY <1>1, <1>2
<1>4. DoOps(s, ops) = R(4)
  BY <1>1 DEF DoOps, R
<1>. QED
  BY <1>3, <1>4, TwoDone DEF ops

LEMMA SevenDone ==
  ASSUME NEW s, NEW a, NEW b, NEW c, NEW d, NEW e, NEW f, NEW g, NEW ops,
         Len(ops) = 7,
         ops[1] = a, ops[2] = b, ops[3] = c, ops[4] = d, ops[5] = e, ops[6] = f, ops[7] = g
  PROVE  DoOps(s, ops) = Do(Do(Do(Do(Do(Do(Do(s, a), b), c), d), e), f), g)
<1>. DEFINE R(n) == Ops!Iterated(s, ops, n)
<1>1. /\ R(0) = s
      /\ R(0 + 1) = Do(R(0), ops[0 + 1]) /\ R(1 + 1) = Do(R(1), ops[1 + 1])
      /\ R(2 + 1) = Do(R(2), ops[2 + 1]) /\ R(3 + 1) = Do(R(3), ops[3 + 1])
      /\ R(4 + 1) = Do(R(4), ops[4 + 1]) /\ R(5 + 1) = Do(R(5), ops[5 + 1])
      /\ R(6 + 1) = Do(R(6), ops[6 + 1])
  BY Ops!Unrolled
<1>2. DoOps(s, ops) = R(7)
  BY DEF DoOps
<1>. HIDE DEF R
<1>. QED
  BY <1>1, <1>2

\* SWDIO / TMS is turned: the pin of the probe, and its level shifter.
LEMMA Turned ==
  ASSUME NEW s, HasLines(s)
  PROVE  /\ HasLines(DoOps(s, HAL_SWDIO_TMS_in)) /\ HasLines(DoOps(s, HAL_SWDIO_TMS_out))
         /\ DoOps(s, HAL_SWDIO_TMS_in).mode = Put(s.mode, "SWDIO", "in")
         /\ DoOps(s, HAL_SWDIO_TMS_in).dir = Put(s.dir, "SWDIO", "in")
         /\ DoOps(s, HAL_SWDIO_TMS_out).mode = Put(s.mode, "SWDIO", "out")
         /\ DoOps(s, HAL_SWDIO_TMS_out).dir = Put(s.dir, "SWDIO", "out")
<1>1. ASSUME NEW v
      PROVE  /\ HasLines(DoOps(s, <<Dir("SWDIO", v), Mode("SWDIO", v)>>))
             /\ DoOps(s, <<Dir("SWDIO", v), Mode("SWDIO", v)>>).mode = Put(s.mode, "SWDIO", v)
             /\ DoOps(s, <<Dir("SWDIO", v), Mode("SWDIO", v)>>).dir = Put(s.dir, "SWDIO", v)
  <2>. DEFINE t == Do(s, Dir("SWDIO", v))
  <2>1. HasLines(t) /\ t.dir = Put(s.dir, "SWDIO", v) /\ t.mode = s.mode
    BY DirDone
  <2>2. /\ HasLines(Do(t, Mode("SWDIO", v)))
        /\ Do(t, Mode("SWDIO", v)).mode = Put(t.mode, "SWDIO", v)
        /\ Do(t, Mode("SWDIO", v)).dir = t.dir
    BY <2>1, ModeDone
  <2>3. DoOps(s, <<Dir("SWDIO", v), Mode("SWDIO", v)>>) = Do(t, Mode("SWDIO", v))
    BY TwoDone
  <2>. QED
    BY <2>1, <2>2, <2>3
<1>. QED
  BY <1>1 DEF HAL_SWDIO_TMS_in, HAL_SWDIO_TMS_out

\* Pins of which each has a direction.
Whole(s) ==
    /\ HasLines(s)
    /\ s.mode \in [Pins -> {"in", "out"}]
    /\ s.dir \in [Shifted -> {"in", "out"}]

\* platform_init drives the clock and SWDIO through their shifters.
LEMMA InitDone ==
  ASSUME NEW s, Whole(s)
  PROVE  LET t == DoOps(s, platform_init)
         IN  /\ Whole(t)
             /\ t.mode["SWCLK"] = "out" /\ t.dir["SWCLK"] = "out"
             /\ t.mode["SWDIO"] = "out" /\ t.dir["SWDIO"] = "out"
<1>. DEFINE s1 == Do(s, Mode("NRST_OUT", "out"))
            s2 == Do(s1, Mode("SWCLK", "out"))
            s3 == Do(s2, Mode("SWDIO", "out"))
            s4 == Do(s3, Dir("SWCLK", "out"))
            s5 == Do(s4, Dir("SWDIO", "out"))
            s6 == Do(s5, Mode("TDO", "in"))
            s7 == Do(s6, Mode("TDO", "out"))
<1>1. DoOps(s, platform_init) = s7
  BY SevenDone DEF platform_init
<1>2. HasLines(s1) /\ s1.mode = Put(s.mode, "NRST_OUT", "out") /\ s1.dir = s.dir
  BY ModeDone DEF Whole
<1>. HIDE DEF s1
<1>3. HasLines(s2) /\ s2.mode = Put(s1.mode, "SWCLK", "out") /\ s2.dir = s1.dir
  BY <1>2, ModeDone
<1>. HIDE DEF s2
<1>4. HasLines(s3) /\ s3.mode = Put(s2.mode, "SWDIO", "out") /\ s3.dir = s2.dir
  BY <1>3, ModeDone
<1>. HIDE DEF s3
<1>5. HasLines(s4) /\ s4.dir = Put(s3.dir, "SWCLK", "out") /\ s4.mode = s3.mode
  BY <1>4, DirDone
<1>. HIDE DEF s4
<1>6. HasLines(s5) /\ s5.dir = Put(s4.dir, "SWDIO", "out") /\ s5.mode = s4.mode
  BY <1>5, DirDone
<1>. HIDE DEF s5
<1>7. HasLines(s6) /\ s6.mode = Put(s5.mode, "TDO", "in") /\ s6.dir = s5.dir
  BY <1>6, ModeDone
<1>. HIDE DEF s6
<1>8. HasLines(s7) /\ s7.mode = Put(s6.mode, "TDO", "out") /\ s7.dir = s6.dir
  BY <1>7, ModeDone
<1>. HIDE DEF s7
<1>. QED
  BY <1>1, <1>2, <1>3, <1>4, <1>5, <1>6, <1>7, <1>8 DEF Whole, Put, Pins, Shifted

\* So does dap_connect, which makes an input of TDO and of TDI what the port needs.
LEMMA ConnectState ==
  ASSUME NEW s, Whole(s), NEW v \in {"in", "out"}
  PROVE  LET s1 == Do(s, Dir("SWDIO", "out"))
             s2 == Do(s1, Mode("SWDIO", "out"))
             s3 == Do(s2, Dir("SWCLK", "out"))
             s4 == Do(s3, Mode("SWCLK", "out"))
             s5 == Do(s4, Mode("NRST_OUT", "out"))
             s6 == Do(s5, Mode("TDO", "in"))
             t == Do(s6, Mode("TDI", v))
         IN  /\ Whole(t)
             /\ t.mode["SWCLK"] = "out" /\ t.dir["SWCLK"] = "out"
             /\ t.mode["SWDIO"] = "out" /\ t.dir["SWDIO"] = "out"
             /\ t.mode["TDO"] = "in" /\ t.mode["TDI"] = v
<1>. DEFINE s1 == Do(s, Dir("SWDIO", "out"))
            s2 == Do(s1, Mode("SWDIO", "out"))
            s3 == Do(s2, Dir("SWCLK", "out"))
            s4 == Do(s3, Mode("SWCLK", "out"))
            s5 == Do(s4, Mode("NRST_OUT", "out"))
            s6 == Do(s5, Mode("TDO", "in"))
            s7 == Do(s6, Mode("TDI", v))
<1>. SUFFICES /\ Whole(s7)
              /\ s7.mode["SWCLK"] = "out" /\ s7.dir["SWCLK"] = "out"
              /\ s7.mode["SWDIO"] = "out" /\ s7.dir["SWDIO"] = "out"
              /\ s7.mode["TDO"] = "in" /\ s7.mode["TDI"] = v
  OBVIOUS
<1>2. HasLines(s1) /\ s1.dir = Put(s.dir, "SWDIO", "out") /\ s1.mode = s.mode
  BY DirDone DEF Whole
<1>. HIDE DEF s1
<1>3. HasLines(s2) /\ s2.mode = Put(s1.mode, "SWDIO", "out") /\ s2.dir = s1.dir
  BY <1>2, ModeDone
<1>. HIDE DEF s2
<1>4. HasLines(s3) /\ s3.dir = Put(s2.dir, "SWCLK", "out") /\ s3.mode = s2.mode
  BY <1>3, DirDone
<1>. HIDE DEF s3
<1>5. HasLines(s4) /\ s4.mode = Put(s3.mode, "SWCLK", "out") /\ s4.dir = s3.dir
  BY <1>4, ModeDone
<1>. HIDE DEF s4
<1>6. HasLines(s5) /\ s5.mode = Put(s4.mode, "NRST_OUT", "out") /\ s5.dir = s4.dir
  BY <1>5, ModeDone
<1>. HIDE DEF s5
<1>7. HasLines(s6) /\ s6.mode = Put(s5.mode, "TDO", "in") /\ s6.dir = s5.dir
  BY <1>6, ModeDone
<1>. HIDE DEF s6
<1>8. HasLines(s7) /\ s7.mode = Put(s6.mode, "TDI", v) /\ s7.dir = s6.dir
  BY <1>7, ModeDone
<1>. HIDE DEF s7
<1>. QED
  BY <1>2, <1>3, <1>4, <1>5, <1>6, <1>7, <1>8 DEF Whole, Put, Pins, Shifted

LEMMA ConnectDone ==
  ASSUME NEW s, Whole(s), NEW v \in {"in", "out"}, NEW ops, Len(ops) = 7,
         ops[1] = Dir("SWDIO", "out"), ops[2] = Mode("SWDIO", "out"),
         ops[3] = Dir("SWCLK", "out"), ops[4] = Mode("SWCLK", "out"),
         ops[5] = Mode("NRST_OUT", "out"), ops[6] = Mode("TDO", "in"),
         ops[7] = Mode("TDI", v)
  PROVE  LET t == DoOps(s, ops)
         IN  /\ Whole(t)
             /\ t.mode["SWCLK"] = "out" /\ t.dir["SWCLK"] = "out"
             /\ t.mode["SWDIO"] = "out" /\ t.dir["SWDIO"] = "out"
             /\ t.mode["TDO"] = "in" /\ t.mode["TDI"] = v
BY SevenDone, ConnectState

(***************************************************************************)
(* Who drives the lines: the invariant.                                    *)
(***************************************************************************)

Operations ==
    {Mode(p, v) : p \in Pins, v \in {"in", "out"}}
        \cup {Dir(p, v) : p \in Shifted, v \in {"in", "out"}}

\* What the gdb server thread has still to do.
Wanted == {todo[k] : k \in 1 .. Len(todo)}

\* The thread does not leave two outputs on the clock, except by switching it off.
ClockFree ==
    /\ Contention("SWCLK") => clock_off \/ Dir("SWCLK", "out") \in Wanted
    /\ Mode("SWCLK", "in") \notin Wanted
    /\ Mode("SWCLK", "out") \in Wanted =>
          /\ Dir("SWCLK", "in") \notin Wanted
          /\ Dir("SWCLK", "out") \in Wanted \/ dir["SWCLK"] = "out"

\* What it does next to SWDIO goes one way, and ends two outputs on it, if no
\* request has come in between.
DataFree ==
    /\ \/ {Mode("SWDIO", "in"), Dir("SWDIO", "in")} \cap Wanted = {}
       \/ {Mode("SWDIO", "out"), Dir("SWDIO", "out")} \cap Wanted = {}
    /\ torn \/
          /\ Contention("SWDIO") =>
                Dir("SWDIO", "out") \in Wanted \/ Mode("SWDIO", "in") \in Wanted
          /\ Mode("SWDIO", "out") \in Wanted =>
                Dir("SWDIO", "out") \in Wanted \/ dir["SWDIO"] = "out"
          /\ Dir("SWDIO", "in") \in Wanted =>
                Mode("SWDIO", "in") \in Wanted \/ mode["SWDIO"] = "in"

PinsIInv == TypeOK /\ todo \in Seq(Operations) /\ ClockFree /\ DataFree /\ ConnectedLines

LEMMA NothingWanted ==
  todo = <<>> => Wanted = {}
BY DEF Wanted

\* A step of the thread takes the first of its operations away.
LEMMA StepTakes ==
  ASSUME TypeOK, todo \in Seq(Operations), Step
  PROVE  /\ Head(todo) \in Operations /\ Head(todo) \in Wanted
         /\ todo' \in Seq(Operations) /\ Len(todo') <= Len(platform_init)
         /\ Wanted' \subseteq Wanted /\ Wanted \subseteq Wanted' \cup {Head(todo)}
<1>1. todo # <<>> /\ todo' = Tail(todo)
  BY DEF Step
<1>2. /\ Len(todo) \in Nat /\ Len(todo) > 0
      /\ Len(todo') = Len(todo) - 1
      /\ \A k \in 1 .. Len(todo') : todo'[k] = todo[k + 1]
      /\ Head(todo) = todo[1] /\ todo[1] \in Operations
      /\ todo' \in Seq(Operations)
  BY <1>1
<1>3. Len(todo') <= Len(platform_init)
  BY <1>2 DEF TypeOK, platform_init
<1>4. Head(todo) \in Wanted
  BY <1>2 DEF Wanted
<1>5. Wanted' = {todo'[k] : k \in 1 .. Len(todo')}
  BY DEF Wanted
<1>6. ASSUME NEW x \in Wanted' PROVE x \in Wanted
  <2>1. PICK k \in 1 .. Len(todo') : x = todo'[k]
    BY <1>5
  <2>2. k + 1 \in 1 .. Len(todo) /\ x = todo[k + 1]
    BY <1>2, <2>1
  <2>. QED
    BY <2>2 DEF Wanted
<1>7. ASSUME NEW x \in Wanted, x # Head(todo) PROVE x \in Wanted'
  <2>1. PICK k \in 1 .. Len(todo) : x = todo[k]
    BY DEF Wanted
  <2>2. k # 1
    BY <1>2, <1>7, <2>1
  <2>3. k - 1 \in 1 .. Len(todo') /\ x = todo'[k - 1]
    BY <1>2, <2>1, <2>2
  <2>. QED
    BY <1>5, <2>3
<1>. QED
  BY <1>2, <1>3, <1>4, <1>6, <1>7

\* What becomes of the lines in a step.
LEMMA StepDone ==
  ASSUME TypeOK, Head(todo) \in Operations, Step
  PROVE  \/ \E p \in Pins, v \in {"in", "out"} :
               Head(todo) = Mode(p, v) /\ mode' = Put(mode, p, v) /\ dir' = dir
         \/ \E p \in Shifted, v \in {"in", "out"} :
               Head(todo) = Dir(p, v) /\ dir' = Put(dir, p, v) /\ mode' = mode
<1>. DEFINE s == [mode |-> mode, dir |-> dir]
<1>1. HasLines(s) /\ s.mode = mode /\ s.dir = dir
  BY DEF HasLines
<1>2. mode' = Do(s, Head(todo)).mode /\ dir' = Do(s, Head(todo)).dir
  BY OneDone DEF Step, DoAll
<1>. HIDE DEF s
<1>3. ASSUME NEW p, NEW v, Head(todo) = Mode(p, v)
      PROVE  mode' = Put(mode, p, v) /\ dir' = dir
  BY <1>1, <1>2, <1>3, ModeDone
<1>4. ASSUME NEW p, NEW v, Head(todo) = Dir(p, v)
      PROVE  dir' = Put(dir, p, v) /\ mode' = mode
  BY <1>1, <1>2, <1>4, DirDone
<1>. QED
  BY <1>3, <1>4 DEF Operations

LEMMA StepKeeps ==
  ASSUME PinsIInv, Step
  PROVE  PinsIInv'
<1>. USE DEF PinsIInv
<1>1. /\ Head(todo) \in Operations /\ Head(todo) \in Wanted
      /\ todo' \in Seq(Operations) /\ Len(todo') <= Len(platform_init)
      /\ Wanted' \subseteq Wanted /\ Wanted \subseteq Wanted' \cup {Head(todo)}
  BY StepTakes
<1>2. \/ \E p \in Pins, v \in {"in", "out"} :
            Head(todo) = Mode(p, v) /\ mode' = Put(mode, p, v) /\ dir' = dir
      \/ \E p \in Shifted, v \in {"in", "out"} :
            Head(todo) = Dir(p, v) /\ dir' = Put(dir, p, v) /\ mode' = mode
  BY <1>1, StepDone
<1>3. /\ foreign' = TRUE /\ torn' = torn /\ dap_port' = dap_port
      /\ booted' = booted /\ attached' = attached /\ silent' = silent
      /\ clock_off' = IF Head(todo).what = "dir" /\ Head(todo).pin = "SWCLK"
                      THEN Head(todo).to = "in" ELSE clock_off
  BY DEF Step
<1>4. mode' \in [Pins -> {"in", "out"}] /\ dir' \in [Shifted -> {"in", "out"}]
  BY <1>2 DEF TypeOK, Put
<1>5. TypeOK'
  <2>1. clock_off' \in BOOLEAN
    BY <1>3 DEF TypeOK
  <2>2. {booted', attached', silent', torn', foreign', clock_off'} \subseteq BOOLEAN
    BY <1>3, <2>1, Zenon DEF TypeOK
  <2>. QED
    BY <1>1, <1>3, <1>4, <2>2 DEF TypeOK, platform_init
<1>6. ConnectedLines'
  BY <1>3 DEF ConnectedLines
<1>7. ClockFree'
  <2>1. ASSUME NEW p \in Pins, NEW v \in {"in", "out"},
               Head(todo) = Mode(p, v), mode' = Put(mode, p, v), dir' = dir
        PROVE  ClockFree'
    <3>1. clock_off' = clock_off
      BY <1>3, <2>1 DEF Mode
    <3>2. /\ mode'["SWCLK"] = IF p = "SWCLK" THEN v ELSE mode["SWCLK"]
          /\ dir'["SWCLK"] = dir["SWCLK"]
      BY <2>1 DEF Put, TypeOK, Pins, Shifted
    <3>3. \A u : Dir("SWCLK", u) \in Wanted <=> Dir("SWCLK", u) \in Wanted'
      BY <1>1, <2>1 DEF Mode, Dir
    <3>4. p = "SWCLK" => v = "out"
      BY <1>1, <2>1 DEF ClockFree
    <3>5. CASE p = "SWCLK"
      BY <1>1, <2>1, <3>1, <3>2, <3>3, <3>4, <3>5 DEF ClockFree, Contention
    <3>6. CASE p # "SWCLK"
      BY <1>1, <3>1, <3>2, <3>3, <3>6 DEF ClockFree, Contention
    <3>. QED
      BY <3>5, <3>6
  <2>2. ASSUME NEW p \in Shifted, NEW v \in {"in", "out"},
               Head(todo) = Dir(p, v), dir' = Put(dir, p, v), mode' = mode
        PROVE  ClockFree'
    <3>1. clock_off' = IF p = "SWCLK" THEN v = "in" ELSE clock_off
      BY <1>3, <2>2 DEF Dir
    <3>2. /\ dir'["SWCLK"] = IF p = "SWCLK" THEN v ELSE dir["SWCLK"]
          /\ mode'["SWCLK"] = mode["SWCLK"]
      BY <2>2 DEF Put, TypeOK, Pins, Shifted
    <3>3. CASE p = "SWCLK"
      <4>1. dir'["SWCLK"] = v /\ clock_off' = (v = "in")
        BY <3>1, <3>2, <3>3
      <4>2. Contention("SWCLK")' => clock_off'
        BY <4>1 DEF Contention
      <4>3. Mode("SWCLK", "out") \in Wanted' => Dir("SWCLK", "in") \notin Wanted' /\ v = "out"
        BY <1>1, <2>2, <3>3 DEF ClockFree
      <4>. QED
        BY <1>1, <4>1, <4>2, <4>3 DEF ClockFree
    <3>4. CASE p # "SWCLK"
      <4>1. clock_off' = clock_off /\ dir'["SWCLK"] = dir["SWCLK"]
        BY <3>1, <3>2, <3>4
      <4>2. \A u : Dir("SWCLK", u) \in Wanted <=> Dir("SWCLK", u) \in Wanted'
        BY <1>1, <2>2, <3>4 DEF Dir
      <4>. QED
        BY <1>1, <3>2, <4>1, <4>2 DEF ClockFree, Contention
    <3>. QED
      BY <3>3, <3>4
  <2>. QED
    BY <1>2, <2>1, <2>2
<1>8. DataFree'
  <2>1. ASSUME NEW p \in Pins, NEW v \in {"in", "out"},
               Head(todo) = Mode(p, v), mode' = Put(mode, p, v), dir' = dir
        PROVE  DataFree'
    BY <1>1, <1>3, <2>1 DEF DataFree, Contention, Put, Mode, Dir, TypeOK, Pins, Shifted
  <2>2. ASSUME NEW p \in Shifted, NEW v \in {"in", "out"},
               Head(todo) = Dir(p, v), dir' = Put(dir, p, v), mode' = mode
        PROVE  DataFree'
    BY <1>1, <1>3, <2>2 DEF DataFree, Contention, Put, Mode, Dir, TypeOK, Pins, Shifted
  <2>. QED
    BY <1>2, <2>1, <2>2
<1>. QED
  BY <1>1, <1>5, <1>6, <1>7, <1>8

\* What the thread begins, it does on lines that are at rest.
LEMMA BeginKeeps ==
  ASSUME PinsIInv, NEW ops \in Seq(Operations), Begin(ops), Len(ops) <= Len(platform_init),
         NEW W, W = {ops[k] : k \in 1 .. Len(ops)},
         Mode("SWCLK", "in") \notin W,
         Mode("SWCLK", "out") \in W => Dir("SWCLK", "in") \notin W /\ Dir("SWCLK", "out") \in W,
         \/ W \cap {Mode("SWDIO", v) : v \in {"in", "out"}} = {}
            /\ W \cap {Dir("SWDIO", v) : v \in {"in", "out"}} = {}
         \/ \E v \in {"in", "out"} :
               /\ Mode("SWDIO", v) \in W /\ Dir("SWDIO", v) \in W
               /\ \A u \in {"in", "out"} \ {v} :
                     Mode("SWDIO", u) \notin W /\ Dir("SWDIO", u) \notin W
  PROVE  PinsIInv'
<1>1. todo = <<>> /\ todo' = ops /\ Wanted = {}
  BY NothingWanted DEF Begin
<1>2. Wanted' = W
  BY <1>1 DEF Wanted
<1>3. /\ mode' = mode /\ dir' = dir /\ booted' = TRUE /\ attached' = attached
      /\ dap_port' = dap_port /\ silent' = silent /\ foreign' = foreign
      /\ clock_off' = clock_off
      /\ torn' = (torn /\ \A k \in 1 .. Len(ops) : ops[k].pin # "SWDIO")
  BY DEF Begin, pins
<1>4. TypeOK'
  <2>1. {booted', attached', silent', torn', foreign', clock_off'} \subseteq BOOLEAN
    <3>1. torn' \in BOOLEAN
      BY <1>3
    <3>. QED
      BY <1>3, <3>1, Zenon DEF PinsIInv, TypeOK
  <2>. QED
    BY <1>1, <1>3, <2>1 DEF PinsIInv, TypeOK, platform_init
<1>5. ConnectedLines'
  BY <1>3 DEF PinsIInv, ConnectedLines
<1>6. ClockFree'
  BY <1>1, <1>2, <1>3 DEF PinsIInv, ClockFree, Contention
<1>7. CASE \A k \in 1 .. Len(ops) : ops[k].pin # "SWDIO"
  <2>1. \A v \in {"in", "out"} : Mode("SWDIO", v) \notin W /\ Dir("SWDIO", v) \notin W
    BY <1>7 DEF Mode, Dir
  <2>2. torn' = torn
    BY <1>3, <1>7 DEF PinsIInv, TypeOK
  <2>3. DataFree'
    BY <1>1, <1>2, <1>3, <2>1, <2>2 DEF PinsIInv, DataFree, Contention
  <2>. QED
    BY <1>1, <1>4, <1>5, <1>6, <2>3 DEF PinsIInv
<1>8. CASE \E k \in 1 .. Len(ops) : ops[k].pin = "SWDIO"
  <2>1. PICK v \in {"in", "out"} :
           /\ Mode("SWDIO", v) \in W /\ Dir("SWDIO", v) \in W
           /\ \A u \in {"in", "out"} \ {v} :
                 Mode("SWDIO", u) \notin W /\ Dir("SWDIO", u) \notin W
    <3>1. PICK k \in 1 .. Len(ops) : ops[k].pin = "SWDIO"
      BY <1>8
    <3>2. ops[k] \in Operations /\ ops[k] \in W
      OBVIOUS
    <3>3. \E v \in {"in", "out"} : ops[k] = Mode("SWDIO", v) \/ ops[k] = Dir("SWDIO", v)
      BY <3>1, <3>2 DEF Operations, Mode, Dir
    <3>. QED
      BY <3>2, <3>3
  <2>2. DataFree'
    BY <1>1, <1>2, <1>3, <2>1 DEF PinsIInv, DataFree, Contention, TypeOK, Shifted, Pins
  <2>. QED
    BY <1>1, <1>4, <1>5, <1>6, <2>2 DEF PinsIInv
<1>. QED
  BY <1>7, <1>8

\* A request leaves SWDIO without two outputs on it, and the clock driven or as it was.
LEMMA HandlerKeeps ==
  ASSUME PinsIInv, todo' = todo, torn' = (todo # <<>>),
         mode' \in [Pins -> {"in", "out"}], dir' \in [Shifted -> {"in", "out"}],
         mode'["SWDIO"] = dir'["SWDIO"],
         \/ mode'["SWCLK"] = "out" /\ dir'["SWCLK"] = "out"
         \/ /\ mode'["SWCLK"] = mode["SWCLK"] /\ dir'["SWCLK"] = dir["SWCLK"]
            /\ clock_off' = clock_off,
         dap_port' \in {"disabled", "swd", "jtag"},
         booted' \in BOOLEAN, attached' \in BOOLEAN, silent' \in BOOLEAN,
         foreign' \in BOOLEAN, clock_off' \in BOOLEAN,
         ConnectedLines'
  PROVE  PinsIInv'
<1>1. Wanted' = Wanted
  BY DEF Wanted
<1>2. TypeOK'
  BY DEF PinsIInv, TypeOK, platform_init
<1>3. ClockFree'
  BY <1>1 DEF PinsIInv, ClockFree, Contention
<1>4. todo' \in Seq(Operations)
  BY DEF PinsIInv
<1>5. DataFree'
  <2>1. CASE todo = <<>>
    <3>1. Wanted' = {}
      BY <1>1, <2>1, NothingWanted
    <3>2. ~Contention("SWDIO")'
      BY DEF Contention
    <3>. QED
      BY <3>1, <3>2 DEF DataFree
  <2>2. CASE todo # <<>>
    BY <1>1, <2>2 DEF PinsIInv, DataFree
  <2>. QED
    BY <2>1, <2>2
<1>. QED
  BY <1>2, <1>3, <1>4, <1>5 DEF PinsIInv

\* The lines after a handler.
LEMMA HandlerLines ==
  ASSUME TypeOK, NEW ops, Handler(ops)
  PROVE  LET s == [mode |-> mode, dir |-> dir]
         IN  /\ Whole(s) /\ s.mode = mode /\ s.dir = dir
             /\ mode' = DoOps(s, ops).mode /\ dir' = DoOps(s, ops).dir
             /\ todo' = todo /\ booted' = booted /\ torn' = (todo # <<>>)
BY DEF TypeOK, Handler, DoAll, Whole, HasLines

LEMMA FlagsTyped ==
  TypeOK => /\ booted \in BOOLEAN /\ attached \in BOOLEAN /\ silent \in BOOLEAN
            /\ torn \in BOOLEAN /\ foreign \in BOOLEAN /\ clock_off \in BOOLEAN
BY DEF TypeOK

LEMMA InitKeeps ==
  ASSUME PinsIInv, DapInit \/ Disconnect
  PROVE  PinsIInv'
<1>. DEFINE s == [mode |-> mode, dir |-> dir]
            t == DoOps(s, platform_init)
<1>1. Handler(platform_init)
  BY DEF DapInit, Disconnect
<1>2. /\ Whole(s) /\ mode' = t.mode /\ dir' = t.dir
      /\ todo' = todo /\ booted' = booted /\ torn' = (todo # <<>>)
  BY <1>1, HandlerLines DEF PinsIInv
<1>3. /\ Whole(t)
      /\ t.mode["SWCLK"] = "out" /\ t.dir["SWCLK"] = "out"
      /\ t.mode["SWDIO"] = "out" /\ t.dir["SWDIO"] = "out"
  BY <1>2, InitDone
<1>. HIDE DEF s, t
<1>4. dap_port' = "disabled" /\ clock_off' = FALSE /\ silent' = silent /\ foreign' = foreign
  BY DEF DapInit, Disconnect
<1>5. attached' \in BOOLEAN
  BY FlagsTyped DEF DapInit, Disconnect, PinsIInv
<1>6. ConnectedLines'
  BY <1>4 DEF ConnectedLines
<1>. QED
  BY <1>2, <1>3, <1>4, <1>5, <1>6, HandlerKeeps, FlagsTyped DEF Whole, PinsIInv

LEMMA ConnectKeeps ==
  ASSUME PinsIInv, ConnectSwd \/ ConnectJtag
  PROVE  PinsIInv'
<1>. DEFINE s == [mode |-> mode, dir |-> dir]
<1>1. PICK v \in {"in", "out"} : \E ops :
         /\ Handler(ops)
         /\ Len(ops) = 7
         /\ ops[1] = Dir("SWDIO", "out") /\ ops[2] = Mode("SWDIO", "out")
         /\ ops[3] = Dir("SWCLK", "out") /\ ops[4] = Mode("SWCLK", "out")
         /\ ops[5] = Mode("NRST_OUT", "out") /\ ops[6] = Mode("TDO", "in")
         /\ ops[7] = Mode("TDI", v)
         /\ dap_port' = IF v = "in" THEN "swd" ELSE "jtag"
  <2>1. CASE ConnectSwd
    <3>. DEFINE ops == DAP_CONFIG_CONNECT_SWD
    <3>1. /\ Len(ops) = 7
          /\ ops[1] = Dir("SWDIO", "out") /\ ops[2] = Mode("SWDIO", "out")
          /\ ops[3] = Dir("SWCLK", "out") /\ ops[4] = Mode("SWCLK", "out")
          /\ ops[5] = Mode("NRST_OUT", "out") /\ ops[6] = Mode("TDO", "in")
          /\ ops[7] = Mode("TDI", "in")
      BY DEF DAP_CONFIG_CONNECT_SWD, HAL_SWDIO_TMS_out, HAL_SWCLK_TCK_out
    <3>2. Handler(ops) /\ dap_port' = "swd"
      BY <2>1 DEF ConnectSwd
    <3>. QED
      BY <3>1, <3>2
  <2>2. CASE ConnectJtag
    <3>. DEFINE ops == DAP_CONFIG_CONNECT_JTAG
    <3>1. /\ Len(ops) = 7
          /\ ops[1] = Dir("SWDIO", "out") /\ ops[2] = Mode("SWDIO", "out")
          /\ ops[3] = Dir("SWCLK", "out") /\ ops[4] = Mode("SWCLK", "out")
          /\ ops[5] = Mode("NRST_OUT", "out") /\ ops[6] = Mode("TDO", "in")
          /\ ops[7] = Mode("TDI", "out")
      BY DEF DAP_CONFIG_CONNECT_JTAG, HAL_SWDIO_TMS_out, HAL_SWCLK_TCK_out
    <3>2. Handler(ops) /\ dap_port' = "jtag"
      BY <2>2 DEF ConnectJtag
    <3>. QED
      BY <3>1, <3>2
  <2>. QED
    BY <2>1, <2>2
<1>0. PICK ops :
         /\ Handler(ops)
         /\ Len(ops) = 7
         /\ ops[1] = Dir("SWDIO", "out") /\ ops[2] = Mode("SWDIO", "out")
         /\ ops[3] = Dir("SWCLK", "out") /\ ops[4] = Mode("SWCLK", "out")
         /\ ops[5] = Mode("NRST_OUT", "out") /\ ops[6] = Mode("TDO", "in")
         /\ ops[7] = Mode("TDI", v)
         /\ dap_port' = IF v = "in" THEN "swd" ELSE "jtag"
  BY <1>1
<1>. DEFINE t == DoOps(s, ops)
<1>2. /\ Whole(s) /\ mode' = t.mode /\ dir' = t.dir
      /\ todo' = todo /\ booted' = booted /\ torn' = (todo # <<>>)
  BY <1>0, HandlerLines DEF PinsIInv
<1>3. /\ Whole(t)
      /\ t.mode["SWCLK"] = "out" /\ t.dir["SWCLK"] = "out"
      /\ t.mode["SWDIO"] = "out" /\ t.dir["SWDIO"] = "out"
      /\ t.mode["TDO"] = "in" /\ t.mode["TDI"] = v
  BY <1>0, <1>2, ConnectDone
<1>. HIDE DEF s, t
<1>4. clock_off' = FALSE /\ silent' = FALSE /\ foreign' = FALSE /\ attached' = attached
  BY DEF ConnectSwd, ConnectJtag
<1>5. ConnectedLines'
  BY <1>0, <1>2, <1>3, <1>4 DEF ConnectedLines
<1>. QED
  BY <1>0, <1>2, <1>3, <1>4, <1>5, HandlerKeeps, FlagsTyped DEF Whole, PinsIInv

LEMMA TurnKeeps ==
  ASSUME PinsIInv, SwdSequence \/ \E quiet \in BOOLEAN : SwdOperation(quiet)
  PROVE  PinsIInv'
<1>. DEFINE s == [mode |-> mode, dir |-> dir]
<1>. DEFINE Turns(quiet) ==
              IF quiet THEN HAL_SWDIO_TMS_in ELSE HAL_SWDIO_TMS_in \o HAL_SWDIO_TMS_out
<1>1. PICK quiet \in BOOLEAN :
         /\ Handler(Turns(quiet))
         /\ silent' = quiet /\ dap_port = "swd"
  <2>1. CASE SwdSequence
    BY <2>1 DEF SwdSequence
  <2>2. CASE \E quiet \in BOOLEAN : SwdOperation(quiet)
    BY <2>2 DEF SwdOperation
  <2>. QED
    BY <2>1, <2>2
<1>. DEFINE v == IF quiet THEN "in" ELSE "out"
            t == DoOps(s, Turns(quiet))
<1>2. /\ Whole(s) /\ mode' = t.mode /\ dir' = t.dir /\ s.mode = mode /\ s.dir = dir
      /\ todo' = todo /\ booted' = booted /\ torn' = (todo # <<>>)
  BY <1>1, HandlerLines DEF PinsIInv
<1>. HIDE DEF s
<1>3. /\ HasLines(t) /\ \A p \in Pins : t.mode[p] = IF p = "SWDIO" THEN v ELSE mode[p]
      /\ t.mode \in [Pins -> {"in", "out"}] /\ t.dir \in [Shifted -> {"in", "out"}]
      /\ \A p \in Shifted : t.dir[p] = IF p = "SWDIO" THEN v ELSE dir[p]
  <2>. DEFINE u == DoOps(s, HAL_SWDIO_TMS_in)
  <2>1. HasLines(u) /\ u.mode = Put(s.mode, "SWDIO", "in") /\ u.dir = Put(s.dir, "SWDIO", "in")
    BY <1>2, Turned DEF Whole
  <2>2. CASE quiet
    <3>1. t = u
      BY <1>1, <2>2
    <3>2. v = "in"
      BY <2>2, Zenon
    <3>. HIDE DEF u, t, v
    <3>3. HasLines(t) /\ t.mode = Put(s.mode, "SWDIO", "in") /\ t.dir = Put(s.dir, "SWDIO", "in")
      BY <2>1, <3>1
    <3>. QED
      BY <1>2, <3>2, <3>3 DEF Put, Whole, Pins, Shifted
  <2>3. CASE ~quiet
    <3>1. t = DoOps(u, HAL_SWDIO_TMS_out)
      BY <1>1, <2>3, FourDone DEF HAL_SWDIO_TMS_in, HAL_SWDIO_TMS_out
    <3>. HIDE DEF u
    <3>2. HasLines(t) /\ t.mode = Put(u.mode, "SWDIO", "out") /\ t.dir = Put(u.dir, "SWDIO", "out")
      BY <2>1, <3>1, Turned
    <3>. QED
      BY <1>2, <2>1, <2>3, <3>2 DEF Put, Whole, Pins, Shifted
  <2>. QED
    BY <2>2, <2>3
<1>. HIDE DEF t
<1>4. /\ attached' = attached /\ dap_port' = dap_port /\ foreign' = foreign
      /\ clock_off' = clock_off
  BY DEF SwdSequence, SwdOperation
<1>5. ConnectedLines'
  <2>1. /\ mode'["SWDIO"] = v /\ dir'["SWDIO"] = v
        /\ \A p \in {"SWCLK", "TDO", "TDI"} : mode'[p] = mode[p]
        /\ dir'["SWCLK"] = dir["SWCLK"]
    BY <1>2, <1>3 DEF Pins, Shifted
  <2>. QED
    BY <1>1, <1>4, <2>1 DEF PinsIInv, ConnectedLines
<1>6. /\ mode'["SWDIO"] = dir'["SWDIO"]
      /\ mode'["SWCLK"] = mode["SWCLK"] /\ dir'["SWCLK"] = dir["SWCLK"]
  BY <1>2, <1>3 DEF Pins, Shifted
<1>. QED
  BY <1>1, <1>2, <1>3, <1>4, <1>5, <1>6, HandlerKeeps, FlagsTyped DEF PinsIInv

LEMMA ThreadKeeps ==
  ASSUME PinsIInv, Thread
  PROVE  PinsIInv'
<1>1. CASE PlatformInit
  <2>. DEFINE ops == platform_init
              W == {ops[k] : k \in 1 .. Len(ops)}
  <2>1. Begin(ops) /\ ops \in Seq(Operations) /\ Len(ops) = 7
    BY <1>1 DEF PlatformInit, platform_init, Operations, Pins, Shifted
  <2>2. W = {Mode("NRST_OUT", "out"), Mode("SWCLK", "out"), Mode("SWDIO", "out"),
             Dir("SWCLK", "out"), Dir("SWDIO", "out"), Mode("TDO", "in"), Mode("TDO", "out")}
    <3>1. 1 .. Len(ops) = {1, 2, 3, 4, 5, 6, 7}
      BY <2>1
    <3>2. W = {ops[1], ops[2], ops[3], ops[4], ops[5], ops[6], ops[7]}
      BY <3>1
    <3>. QED
      BY <3>2 DEF platform_init
  <2>3. Len(ops) <= Len(platform_init)
    BY <2>1
  <2>. HIDE DEF ops, W
  <2>4. /\ Mode("SWCLK", "in") \notin W
        /\ Dir("SWCLK", "in") \notin W /\ Dir("SWCLK", "out") \in W
        /\ Mode("SWDIO", "out") \in W /\ Dir("SWDIO", "out") \in W
        /\ \A u \in {"in", "out"} \ {"out"} :
              Mode("SWDIO", u) \notin W /\ Dir("SWDIO", u) \notin W
    BY <2>2 DEF Mode, Dir
  <2>. QED
    BY <2>1, <2>3, <2>4, BeginKeeps DEF W
<1>2. ASSUME NEW v \in {"in", "out"},
             NEW ops, ops = <<Mode("SWDIO", v), Dir("SWDIO", v)>>, Begin(ops)
      PROVE  PinsIInv'
  <2>. DEFINE W == {ops[k] : k \in 1 .. Len(ops)}
  <2>1. ops \in Seq(Operations) /\ Len(ops) = 2
    BY <1>2 DEF Operations, Pins, Shifted
  <2>2. W = {Mode("SWDIO", v), Dir("SWDIO", v)}
    <3>1. 1 .. Len(ops) = {1, 2}
      BY <2>1
    <3>2. W = {ops[1], ops[2]}
      BY <3>1
    <3>. QED
      BY <1>2, <3>2
  <2>3. Len(ops) <= Len(platform_init)
    BY <2>1 DEF platform_init
  <2>. HIDE DEF W
  <2>4. /\ Mode("SWCLK", "in") \notin W /\ Mode("SWCLK", "out") \notin W
        /\ Mode("SWDIO", v) \in W /\ Dir("SWDIO", v) \in W
        /\ \A u \in {"in", "out"} \ {v} :
              Mode("SWDIO", u) \notin W /\ Dir("SWDIO", u) \notin W
    BY <2>2 DEF Mode, Dir
  <2>. QED
    BY <1>2, <2>1, <2>3, <2>4, BeginKeeps DEF W
<1>3. CASE Float
  BY <1>2, <1>3 DEF Float, SWDIO_MODE_FLOAT
<1>4. CASE Drive
  BY <1>2, <1>4 DEF Drive, SWDIO_MODE_DRIVE
<1>5. ASSUME NEW v \in {"in", "out"}, ClkOutputEnable(v)
      PROVE  PinsIInv'
  <2>. DEFINE ops == <<Dir("SWCLK", v)>>
              W == {ops[k] : k \in 1 .. Len(ops)}
  <2>1. Begin(ops) /\ ops \in Seq(Operations) /\ Len(ops) = 1
    BY <1>5 DEF ClkOutputEnable, platform_target_clk_output_enable, Operations, Shifted
  <2>2. W = {Dir("SWCLK", v)}
    <3>1. 1 .. Len(ops) = {1}
      BY <2>1
    <3>2. W = {ops[1]}
      BY <3>1
    <3>. QED
      BY <3>2
  <2>3. Len(ops) <= Len(platform_init)
    BY <2>1 DEF platform_init
  <2>. HIDE DEF ops, W
  <2>4. /\ Mode("SWCLK", "in") \notin W /\ Mode("SWCLK", "out") \notin W
        /\ W \cap {Mode("SWDIO", u) : u \in {"in", "out"}} = {}
        /\ W \cap {Dir("SWDIO", u) : u \in {"in", "out"}} = {}
    BY <2>2 DEF Mode, Dir
  <2>. QED
    BY <2>1, <2>3, <2>4, BeginKeeps DEF W
<1>. QED
  BY <1>1, <1>3, <1>4, <1>5, StepKeeps DEF Thread

LEMMA PinsStep ==
  ASSUME PinsIInv, [Next]_vars
  PROVE  PinsIInv'
<1>1. CASE ConnectOther
  <2>1. Wanted' = Wanted
    BY <1>1 DEF ConnectOther, Wanted
  <2>2. TypeOK'
    BY <1>1 DEF ConnectOther, pins, PinsIInv, TypeOK, platform_init
  <2>3. ClockFree' /\ DataFree' /\ todo' \in Seq(Operations)
    BY <1>1, <2>1 DEF ConnectOther, pins, PinsIInv, ClockFree, DataFree, Contention
  <2>4. ConnectedLines'
    BY <1>1 DEF ConnectOther, ConnectedLines
  <2>. QED
    BY <2>2, <2>3, <2>4 DEF PinsIInv
<1>2. CASE UNCHANGED vars
  <2>1. Wanted' = Wanted
    BY <1>2 DEF vars, Wanted
  <2>2. TypeOK'
    BY <1>2 DEF vars, PinsIInv, TypeOK, platform_init
  <2>3. ClockFree' /\ DataFree' /\ todo' \in Seq(Operations) /\ ConnectedLines'
    BY <1>2, <2>1 DEF vars, PinsIInv, ClockFree, DataFree, Contention, ConnectedLines
  <2>. QED
    BY <2>2, <2>3 DEF PinsIInv
<1>. QED
  BY <1>1, <1>2, ThreadKeeps, InitKeeps, ConnectKeeps, TurnKeeps DEF Next, USB

LEMMA PinsInit ==
  Init => PinsIInv
<1>. SUFFICES ASSUME Init PROVE PinsIInv
  OBVIOUS
<1>1. todo = <<>> /\ Wanted = {} /\ todo \in Seq(Operations)
  BY NothingWanted DEF Init
<1>2. TypeOK
  <2>1. {booted, attached, silent, torn, foreign, clock_off} \subseteq BOOLEAN
    BY DEF Init
  <2>. QED
    BY <1>1, <2>1 DEF Init, TypeOK, platform_init
<1>3. ClockFree /\ DataFree /\ ConnectedLines
  BY <1>1 DEF Init, ClockFree, DataFree, ConnectedLines, Contention, Pins, Shifted
<1>. QED
  BY <1>1, <1>2, <1>3 DEF PinsIInv

LEMMA PinsAtRest ==
  PinsIInv => NoContentionAtRest
<1>1. ASSUME PinsIInv, todo = <<>>, NEW p \in Shifted, Contention(p)
      PROVE  IF p = "SWDIO" THEN torn ELSE clock_off
  <2>1. Wanted = {}
    BY <1>1, NothingWanted
  <2>2. CASE p = "SWDIO"
    <3>1. torn
      BY <1>1, <2>1, <2>2, Zenon DEF PinsIInv, DataFree
    <3>. QED
      BY <2>2, <3>1
  <2>3. CASE p = "SWCLK"
    <3>1. clock_off
      BY <1>1, <2>1, <2>3, Zenon DEF PinsIInv, ClockFree
    <3>. QED
      BY <2>3, <3>1
  <2>. QED
    BY <2>2, <2>3 DEF Shifted
<1>. QED
  BY <1>1 DEF NoContentionAtRest

\* The pin macros of both users: every line that the code assumes in its hand has
\* the direction it assumes, also with a macro of Black Magic half done.
THEOREM PinsAlways == Spec => []PinsIInv
BY PinsInit, PinsStep, PTL DEF Spec

\* platform_init, SWDIO_MODE_FLOAT and _DRIVE, and dap_init, dap_connect,
\* dap_disconnect, dap_swd_operation and dap_swd_sequence: between the things that
\* Black Magic does, no two outputs drive SWDIO or the clock, but for the two cases
\* that the property names.
THEOREM RestsFree == Spec => []NoContentionAtRest
BY PinsAlways, PinsAtRest, PTL

\* The same code: a connected port that Black Magic has not touched has its lines.
THEOREM HasItsLines == Spec => []ConnectedLines
<1>1. PinsIInv => ConnectedLines
  BY DEF PinsIInv
<1>. QED
  BY <1>1, PinsAlways, PTL

(***************************************************************************)
(* The wire keeps the lines, but for the turns.                            *)
(***************************************************************************)

\* The lines of w are m and d.
Lined(w, m, d) == HasLines(w) /\ w.mode = m /\ w.dir = d

LEMMA LevelLined ==
  ASSUME NEW w, NEW m, NEW d, Lined(w, m, d), NEW b
  PROVE  Lined(Level(w, b), m, d)
BY DEF Lined, HasLines, Level

LEMMA ClockLined ==
  ASSUME NEW w, NEW m, NEW d, Lined(w, m, d)
  PROVE  Lined(Clock(w), m, d)
<1>. DEFINE slot == IF w.target.plan = <<>> THEN "leave" ELSE Head(w.target.plan)
            line == IF Drives(w) THEN w.level ELSE slot # "low"
            seen == [w EXCEPT !.in = Append(@, line),
                              !.fought = @ \/ (Drives(w) /\ slot \in {"high", "low"})]
            t == Edge(seen.target, line, Drives(w))
<1>1. Clock(w) = IF Pulses(w) THEN [seen EXCEPT !.target = Edge(@, line, Drives(w))] ELSE seen
  BY DEF Clock
<1>. HIDE DEF slot, line
<1>2. Lined(seen, m, d)
  BY DEF Lined, HasLines
<1>. HIDE DEF seen
<1>3. Lined([seen EXCEPT !.target = Edge(@, line, Drives(w))], m, d)
  BY <1>2 DEF Lined, HasLines
<1>. QED
  BY <1>1, <1>2, <1>3

\* The loops of the wire, one more round.
LEMMA RunNext ==
  ASSUME NEW w
  PROVE  Run(w, 0) = w /\ \A n \in Nat : Run(w, n + 1) = Clock(Run(w, n))
BY Clocks!Unrolled DEF Run

LEMMA WrittenNone ==
  ASSUME NEW w, NEW b PROVE Bits!Iterated(w, b, 0) = w
BY Bits!Unrolled

LEMMA WrittenNext ==
  ASSUME NEW w, NEW b
  PROVE  \A n \in Nat :
            Bits!Iterated(w, b, n + 1) = Clock(Level(Bits!Iterated(w, b, n), b[n + 1]))
BY Bits!Unrolled

LEMMA RunLined ==
  ASSUME NEW w, NEW m, NEW d, Lined(w, m, d), NEW n \in Nat
  PROVE  Lined(Run(w, n), m, d)
<1>. DEFINE T == {k \in Nat : Lined(Run(w, k), m, d)}
<1>1. 0 \in T
  BY RunNext
<1>2. ASSUME NEW k \in T PROVE k + 1 \in T
  <2>1. Run(w, k + 1) = Clock(Run(w, k))
    BY RunNext
  <2>. QED
    BY <2>1, ClockLined
<1>3. T \in SUBSET Nat
  OBVIOUS
<1>. HIDE DEF T
<1>4. T = Nat
  BY <1>1, <1>2, <1>3, Clocks!Induction
<1>. QED
  BY <1>4 DEF T

LEMMA ReadLined ==
  ASSUME NEW w, NEW m, NEW d, Lined(w, m, d), NEW n \in Nat
  PROVE  Lined(Read(w, n), m, d)
<1>1. Lined([w EXCEPT !.in = <<>>], m, d)
  BY DEF Lined, HasLines
<1>. QED
  BY <1>1, RunLined DEF Read

LEMMA WriteLined ==
  ASSUME NEW w, NEW m, NEW d, Lined(w, m, d), NEW b, Len(b) \in Nat
  PROVE  Lined(Write(w, b), m, d)
<1>. DEFINE T == {k \in Nat : Lined(Bits!Iterated(w, b, k), m, d)}
<1>1. 0 \in T
  BY WrittenNone
<1>2. ASSUME NEW k \in T PROVE k + 1 \in T
  <2>1. Bits!Iterated(w, b, k + 1) = Clock(Level(Bits!Iterated(w, b, k), b[k + 1]))
    BY WrittenNext
  <2>. QED
    BY <2>1, ClockLined, LevelLined
<1>3. T \in SUBSET Nat
  OBVIOUS
<1>. HIDE DEF T
<1>4. T = Nat
  BY <1>1, <1>2, <1>3, Bits!Induction
<1>. QED
  BY <1>4 DEF T, Write

\* The lines when SWDIO has been turned.
LEMMA TurnLined ==
  ASSUME NEW w, NEW m, NEW d, Lined(w, m, d)
  PROVE  /\ Lined(TMS_in(w), Put(m, "SWDIO", "in"), Put(d, "SWDIO", "in"))
         /\ Lined(TMS_out(w), Put(m, "SWDIO", "out"), Put(d, "SWDIO", "out"))
BY Turned DEF Lined, TMS_in, TMS_out

LEMMA PutTwice ==
  ASSUME NEW f, NEW p, NEW u, NEW v
  PROVE  Put(Put(f, p, u), p, v) = Put(f, p, v)
BY DEF Put

\* The lines of the outcome of an operation on a wire with the lines m and d.
Ended(res, m, d) ==
    LET v == IF res.ack = "PROTOCOL" THEN "in" ELSE "out"
    IN  /\ {"wire", "ack"} \subseteq DOMAIN res
        /\ Lined(res.wire, Put(m, "SWDIO", v), Put(d, "SWDIO", v))

LEMMA AcknowledgeLined ==
  ASSUME NEW w, NEW m, NEW d, Lined(w, m, d), NEW req \in Seq(BOOLEAN), NEW trn \in Nat
  PROVE  Lined(Acknowledge(w, req, trn), Put(m, "SWDIO", "in"), Put(d, "SWDIO", "in"))
<1>. DEFINE header == <<TRUE>> \o req \o <<Odd(req), FALSE, TRUE>>
            w1 == Write(w, header)
            w2 == TMS_in(w1)
            w3 == Run(w2, trn)
<1>1. Len(header) \in Nat
  BY DEF Odd
<1>. HIDE DEF header
<1>2. Lined(w1, m, d)
  BY <1>1, WriteLined
<1>. HIDE DEF w1
<1>3. Lined(w2, Put(m, "SWDIO", "in"), Put(d, "SWDIO", "in"))
  BY <1>2, TurnLined
<1>. HIDE DEF w2
<1>4. Lined(w3, Put(m, "SWDIO", "in"), Put(d, "SWDIO", "in"))
  BY <1>3, RunLined
<1>5. Acknowledge(w, req, trn) = Read(w3, 3)
  BY DEF Acknowledge, header, w1, w2
<1>. HIDE DEF w3
<1>. QED
  BY <1>4, <1>5, ReadLined

LEMMA ReadPhaseEnded ==
  ASSUME NEW w, NEW m, NEW d, Lined(w, m, d),
         NEW settings, settings.trn \in Nat, NEW idle \in Nat
  PROVE  Ended(ReadPhase(w, settings, idle), m, d)
<1>. DEFINE data == Read(w, DataBits)
            parity == Read(data, 1)
            w1 == Run(parity, settings.trn)
            w2 == TMS_out(w1)
            w3 == Level(w2, FALSE)
            w4 == Run(w3, idle)
<1>1. Lined(data, m, d)
  BY ReadLined, WireAssumption
<1>2. Lined(parity, m, d)
  BY <1>1, ReadLined
<1>3. /\ {"wire", "ack"} \subseteq DOMAIN ReadPhase(w, settings, idle)
      /\ ReadPhase(w, settings, idle).wire = w4
      /\ ReadPhase(w, settings, idle).ack # "PROTOCOL"
  BY DEF ReadPhase, Result
<1>. HIDE DEF parity
<1>4. Lined(w1, m, d)
  BY <1>2, RunLined
<1>. HIDE DEF w1
<1>5. Lined(w2, Put(m, "SWDIO", "out"), Put(d, "SWDIO", "out"))
  BY <1>4, TurnLined
<1>. HIDE DEF w2
<1>6. Lined(w3, Put(m, "SWDIO", "out"), Put(d, "SWDIO", "out"))
  BY <1>5, LevelLined
<1>. HIDE DEF w3
<1>7. Lined(w4, Put(m, "SWDIO", "out"), Put(d, "SWDIO", "out"))
  BY <1>6, RunLined
<1>. QED
  BY <1>3, <1>7 DEF Ended

LEMMA WritePhaseEnded ==
  ASSUME NEW w, NEW m, NEW d, Lined(w, m, d), NEW word \in Seq(BOOLEAN),
         NEW settings, settings.trn \in Nat, NEW idle \in Nat
  PROVE  Ended(WritePhase(w, word, settings, idle), m, d)
<1>. DEFINE w1 == Run(w, settings.trn)
            w2 == TMS_out(w1)
            bits == Append(word, Odd(word))
            w3 == Write(w2, bits)
            w4 == Level(w3, FALSE)
            w5 == Run(w4, idle)
<1>1. /\ {"wire", "ack"} \subseteq DOMAIN WritePhase(w, word, settings, idle)
      /\ WritePhase(w, word, settings, idle).wire = w5
      /\ WritePhase(w, word, settings, idle).ack # "PROTOCOL"
  BY DEF WritePhase, Result
<1>2. Len(bits) \in Nat
  BY DEF Odd
<1>. HIDE DEF bits
<1>3. Lined(w1, m, d)
  BY RunLined
<1>. HIDE DEF w1
<1>4. Lined(w2, Put(m, "SWDIO", "out"), Put(d, "SWDIO", "out"))
  BY <1>3, TurnLined
<1>. HIDE DEF w2
<1>5. Lined(w3, Put(m, "SWDIO", "out"), Put(d, "SWDIO", "out"))
  BY <1>2, <1>4, WriteLined
<1>. HIDE DEF w3
<1>6. Lined(w4, Put(m, "SWDIO", "out"), Put(d, "SWDIO", "out"))
  BY <1>5, LevelLined
<1>. HIDE DEF w4
<1>7. Lined(w5, Put(m, "SWDIO", "out"), Put(d, "SWDIO", "out"))
  BY <1>6, RunLined
<1>. QED
  BY <1>1, <1>7 DEF Ended

LEMMA DeclinedEnded ==
  ASSUME NEW w, NEW m, NEW d, Lined(w, m, d), NEW ack, ack # "PROTOCOL",
         NEW rnw, NEW settings, settings.trn \in Nat
  PROVE  Ended(Declined(w, ack, rnw, settings), m, d)
<1>. DEFINE n == settings.trn + IF settings.phase /\ rnw THEN DataBits + 1 ELSE 0
            w1 == Run(w, n)
            turned == TMS_out(w1)
            w2 == Level(turned, FALSE)
            w3 == Run(w2, DataBits + 1)
<1>1. n \in Nat
  BY WireAssumption
<1>2. /\ {"wire", "ack"} \subseteq DOMAIN Declined(w, ack, rnw, settings)
      /\ Declined(w, ack, rnw, settings).wire \in {w3, turned}
      /\ Declined(w, ack, rnw, settings).ack # "PROTOCOL"
  BY DEF Declined, Result
<1>. HIDE DEF n
<1>3. Lined(w1, m, d)
  BY <1>1, RunLined
<1>. HIDE DEF w1
<1>4. Lined(turned, Put(m, "SWDIO", "out"), Put(d, "SWDIO", "out"))
  BY <1>3, TurnLined
<1>. HIDE DEF turned
<1>5. Lined(w2, Put(m, "SWDIO", "out"), Put(d, "SWDIO", "out"))
  BY <1>4, LevelLined
<1>. HIDE DEF w2
<1>6. Lined(w3, Put(m, "SWDIO", "out"), Put(d, "SWDIO", "out"))
  BY <1>5, RunLined, WireAssumption
<1>. HIDE DEF w3
<1>. QED
  BY <1>2, <1>4, <1>6 DEF Ended

LEMMA OperationEnded ==
  ASSUME NEW w, NEW m, NEW d, Lined(w, m, d), NEW req \in Seq(BOOLEAN),
         NEW word \in Seq(BOOLEAN), NEW settings, settings.trn \in Nat, NEW idle \in Nat
  PROVE  Ended(dap_swd_operation(w, req, word, settings, idle), m, d)
<1>. DEFINE w1 == Acknowledge(w, req, settings.trn)
            rnw == req[2]
            quiet == Result(Run(w1, settings.trn + DataBits + 1), "PROTOCOL", <<>>)
            done == IF w1.in = AckBits.OK
                      THEN IF rnw THEN ReadPhase(w1, settings, idle)
                                  ELSE WritePhase(w1, word, settings, idle)
                    ELSE IF w1.in = AckBits.WAIT THEN Declined(w1, "WAIT", rnw, settings)
                    ELSE IF w1.in = AckBits.FAULT THEN Declined(w1, "FAULT", rnw, settings)
                    ELSE quiet
            mi == Put(m, "SWDIO", "in")
            di == Put(d, "SWDIO", "in")
            res == [done EXCEPT !.wire = Level(@, TRUE)]
<1>1. dap_swd_operation(w, req, word, settings, idle) = res
  BY DEF dap_swd_operation
<1>2. \/ done = ReadPhase(w1, settings, idle)
      \/ done = WritePhase(w1, word, settings, idle)
      \/ done = Declined(w1, "WAIT", rnw, settings)
      \/ done = Declined(w1, "FAULT", rnw, settings)
      \/ done = quiet
  <2>. HIDE DEF w1, quiet, rnw
  <2>. QED
    OBVIOUS
<1>3. Lined(w1, mi, di)
  BY AcknowledgeLined
<1>. HIDE DEF w1, done
<1>4. Ended(ReadPhase(w1, settings, idle), mi, di)
  BY <1>3, ReadPhaseEnded
<1>5. Ended(WritePhase(w1, word, settings, idle), mi, di)
  BY <1>3, WritePhaseEnded
<1>6. /\ Ended(Declined(w1, "WAIT", rnw, settings), mi, di)
      /\ Ended(Declined(w1, "FAULT", rnw, settings), mi, di)
  BY <1>3, DeclinedEnded
<1>7. Ended(quiet, mi, di)
  <2>1. settings.trn + DataBits + 1 \in Nat
    BY WireAssumption
  <2>2. /\ {"wire", "ack"} \subseteq DOMAIN quiet
        /\ Lined(quiet.wire, mi, di) /\ quiet.ack = "PROTOCOL"
    BY <1>3, <2>1, RunLined DEF Result
  <2>. HIDE DEF quiet
  <2>. QED
    BY <2>2, PutTwice DEF Ended
<1>. HIDE DEF quiet
<1>8. Ended(done, mi, di)
  BY <1>2, <1>4, <1>5, <1>6, <1>7
<1>9. /\ {"wire", "ack"} \subseteq DOMAIN res /\ res.wire = Level(done.wire, TRUE)
      /\ res.ack = done.ack
  BY <1>8 DEF Ended
<1>. HIDE DEF res
<1>. DEFINE v == IF done.ack = "PROTOCOL" THEN "in" ELSE "out"
<1>10. Lined(done.wire, Put(mi, "SWDIO", v), Put(di, "SWDIO", v))
  BY <1>8 DEF Ended
<1>11. Lined(Level(done.wire, TRUE), Put(mi, "SWDIO", v), Put(di, "SWDIO", v))
  BY <1>10, LevelLined
<1>12. Lined(res.wire, Put(m, "SWDIO", v), Put(d, "SWDIO", v))
  <2>. HIDE DEF v
  <2>1. Put(mi, "SWDIO", v) = Put(m, "SWDIO", v) /\ Put(di, "SWDIO", v) = Put(d, "SWDIO", v)
    BY PutTwice
  <2>. QED
    BY <1>9, <1>11, <2>1
<1>13. Ended(res, m, d)
  BY <1>9, <1>12 DEF Ended
<1>. QED
  BY <1>1, <1>13

(***************************************************************************)
(* The requests, clock by clock, implement the pins.                       *)
(***************************************************************************)

\* The pins of an operation, and with quiet = FALSE of a sequence.
LEMMA TurnsDone ==
  ASSUME NEW quiet \in BOOLEAN, NEW ops,
         ops = IF quiet THEN HAL_SWDIO_TMS_in ELSE HAL_SWDIO_TMS_in \o HAL_SWDIO_TMS_out,
         NEW v, v = IF quiet THEN "in" ELSE "out"
  PROVE  Lined(DoOps([mode |-> mode, dir |-> dir], ops),
               Put(mode, "SWDIO", v), Put(dir, "SWDIO", v))
<1>. DEFINE s == [mode |-> mode, dir |-> dir]
            u == DoOps(s, HAL_SWDIO_TMS_in)
            mi == Put(mode, "SWDIO", "in")
            di == Put(dir, "SWDIO", "in")
<1>1. Lined(s, mode, dir)
  BY DEF Lined, HasLines
<1>. HIDE DEF s
<1>2. Lined(u, mi, di)
  BY <1>1, TurnLined DEF TMS_in
<1>3. CASE quiet
  <2>1. ops = HAL_SWDIO_TMS_in /\ v = "in"
    BY <1>3
  <2>. QED
    BY <1>2, <2>1 DEF s
<1>4. CASE ~quiet
  <2>1. ops = HAL_SWDIO_TMS_in \o HAL_SWDIO_TMS_out /\ v = "out"
    BY <1>4
  <2>2. DoOps(s, HAL_SWDIO_TMS_in \o HAL_SWDIO_TMS_out) = TMS_out(u)
    BY FourDone DEF HAL_SWDIO_TMS_in, HAL_SWDIO_TMS_out, TMS_out
  <2>. HIDE DEF u
  <2>3. Lined(TMS_out(u), Put(mi, "SWDIO", "out"), Put(di, "SWDIO", "out"))
    BY <1>2, TurnLined
  <2>4. /\ Put(mi, "SWDIO", "out") = Put(mode, "SWDIO", "out")
        /\ Put(di, "SWDIO", "out") = Put(dir, "SWDIO", "out")
    BY PutTwice
  <2>. QED
    BY <2>1, <2>2, <2>3, <2>4 DEF s
<1>. QED
  BY <1>3, <1>4

LEMMA WireLined ==
  ASSUME NEW t
  PROVE  Lined(Wire(t), mode, dir)
BY DEF Wire, Lined, HasLines

LEMMA AccessIsOperation ==
  ASSUME dap_swd \in Settings, NEW req \in Seq(BOOLEAN), NEW word \in Seq(BOOLEAN),
         NEW idle \in Nat, NEW r, Access(req, word, idle, r)
  PROVE  \E quiet \in BOOLEAN : SwdOperation(quiet)
<1>. DEFINE res == dap_swd_operation(Wire(Ready(r)), req, word, dap_swd, idle)
            quiet == res.ack = "PROTOCOL"
            v == IF quiet THEN "in" ELSE "out"
            ops == IF quiet THEN HAL_SWDIO_TMS_in ELSE HAL_SWDIO_TMS_in \o HAL_SWDIO_TMS_out
            s == [mode |-> mode, dir |-> dir]
<1>1. /\ dap_port = "swd"
      /\ mode' = res.wire.mode /\ dir' = res.wire.dir
      /\ silent' = quiet /\ torn' = (todo # <<>>)
      /\ UNCHANGED <<todo, booted, attached, dap_port, foreign, clock_off>>
  BY DEF Access
<1>2. dap_swd.trn \in Nat
  BY PortAssumption
<1>3. Ended(res, mode, dir)
  BY <1>2, WireLined, OperationEnded
<1>. HIDE DEF res
<1>4. Lined(res.wire, Put(mode, "SWDIO", v), Put(dir, "SWDIO", v))
  BY <1>3 DEF Ended
<1>5. quiet \in BOOLEAN
  OBVIOUS
<1>. HIDE DEF quiet
<1>6. Lined(DoOps(s, ops), Put(mode, "SWDIO", v), Put(dir, "SWDIO", v))
  BY <1>5, TurnsDone
<1>7. mode' = DoOps(s, ops).mode /\ dir' = DoOps(s, ops).dir
  BY <1>1, <1>4, <1>6 DEF Lined
<1>8. Handler(ops)
  BY <1>1, <1>7 DEF Handler, DoAll
<1>9. SwdOperation(quiet)
  BY <1>1, <1>8 DEF SwdOperation
<1>. QED
  BY <1>5, <1>9

\* The lines of w are m and d, but for the way SWDIO points.
LinedBut(w, m, d) ==
    /\ HasLines(w)
    /\ \A v : /\ Put(w.mode, "SWDIO", v) = Put(m, "SWDIO", v)
              /\ Put(w.dir, "SWDIO", v) = Put(d, "SWDIO", v)

LEMMA PlayLined ==
  ASSUME NEW w, NEW m, NEW d, LinedBut(w, m, d), NEW part, Len(part.bits) \in Nat
  PROVE  LinedBut(Play(w, part), m, d)
<1>1. Lined(w, w.mode, w.dir)
  BY DEF Lined, LinedBut
<1>2. /\ Lined(TMS_in(w), Put(w.mode, "SWDIO", "in"), Put(w.dir, "SWDIO", "in"))
      /\ Lined(TMS_out(w), Put(w.mode, "SWDIO", "out"), Put(w.dir, "SWDIO", "out"))
  BY <1>1, TurnLined
<1>3. /\ Lined(TMS_in(w), Put(m, "SWDIO", "in"), Put(d, "SWDIO", "in"))
      /\ Lined(TMS_out(w), Put(m, "SWDIO", "out"), Put(d, "SWDIO", "out"))
  BY <1>2 DEF LinedBut
<1>4. \E v : Lined(Play(w, part), Put(m, "SWDIO", v), Put(d, "SWDIO", v))
  <2>1. CASE part.din
    <3>1. Play(w, part) = Run(TMS_in(w), Len(part.bits))
      BY <2>1 DEF Play
    <3>. QED
      BY <1>3, <3>1, RunLined
  <2>2. CASE ~part.din
    <3>1. Play(w, part) = Write(TMS_out(w), part.bits)
      BY <2>2 DEF Play
    <3>. QED
      BY <1>3, <3>1, WriteLined
  <2>. QED
    BY <2>1, <2>2
<1>5. PICK v : Lined(Play(w, part), Put(m, "SWDIO", v), Put(d, "SWDIO", v))
  BY <1>4
<1>6. \A u : /\ Put(Put(m, "SWDIO", v), "SWDIO", u) = Put(m, "SWDIO", u)
             /\ Put(Put(d, "SWDIO", v), "SWDIO", u) = Put(d, "SWDIO", u)
  BY PutTwice
<1>. QED
  BY <1>5, <1>6 DEF Lined, LinedBut

LEMMA SequenceIsSequence ==
  ASSUME NEW parts, Len(parts) \in Nat, \A k \in 1 .. Len(parts) : Len(parts[k].bits) \in Nat,
         dap_swd_sequence(parts)
  PROVE  SwdSequence
<1>. DEFINE P(n) == Parts!Iterated(Wire(target), parts, n)
            T == {n \in Nat : n <= Len(parts) => LinedBut(P(n), mode, dir)}
            ops == HAL_SWDIO_TMS_in \o HAL_SWDIO_TMS_out
            s == [mode |-> mode, dir |-> dir]
<1>1. 0 \in T
  <2>1. P(0) = Wire(target)
    BY Parts!Unrolled
  <2>. QED
    BY <2>1, WireLined DEF Lined, LinedBut
<1>2. ASSUME NEW n \in T PROVE n + 1 \in T
  <2>1. P(n + 1) = Play(P(n), parts[n + 1])
    BY Parts!Unrolled
  <2>2. n \in Nat /\ (n <= Len(parts) => LinedBut(P(n), mode, dir))
    OBVIOUS
  <2>. HIDE DEF P, T
  <2>3. n + 1 <= Len(parts) => LinedBut(P(n + 1), mode, dir)
    BY <2>1, <2>2, PlayLined
  <2>. QED
    BY <2>2, <2>3 DEF T
<1>3. T \in SUBSET Nat
  OBVIOUS
<1>. HIDE DEF T, P
<1>4. T = Nat
  BY <1>1, <1>2, <1>3, Parts!Induction
<1>5. LinedBut(P(Len(parts)), mode, dir)
  BY <1>4 DEF T
<1>. DEFINE w == P(Len(parts))
<1>6. Sequence(parts) = TMS_out(w)
  BY DEF Sequence, P
<1>. HIDE DEF w
<1>7. Lined(w, w.mode, w.dir)
  BY <1>5 DEF Lined, LinedBut, w
<1>8. Lined(TMS_out(w), Put(w.mode, "SWDIO", "out"), Put(w.dir, "SWDIO", "out"))
  BY <1>7, TurnLined
<1>9. Lined(Sequence(parts), Put(mode, "SWDIO", "out"), Put(dir, "SWDIO", "out"))
  BY <1>5, <1>6, <1>8 DEF LinedBut, w
<1>10. Lined(DoOps(s, ops), Put(mode, "SWDIO", "out"), Put(dir, "SWDIO", "out"))
  BY TurnsDone
<1>11. /\ dap_port = "swd"
       /\ mode' = Sequence(parts).mode /\ dir' = Sequence(parts).dir
       /\ silent' = FALSE /\ torn' = (todo # <<>>)
       /\ UNCHANGED <<todo, booted, attached, dap_port, foreign, clock_off>>
  BY DEF dap_swd_sequence
<1>12. mode' = DoOps(s, ops).mode /\ dir' = DoOps(s, ops).dir
  BY <1>9, <1>10, <1>11 DEF Lined
<1>13. Handler(ops)
  BY <1>11, <1>12 DEF Handler, DoAll
<1>. QED
  BY <1>11, <1>13 DEF SwdSequence

\* The inputs of an access are sequences of bits.
LEMMA AccessInputs ==
  /\ Requests \subseteq Seq(BOOLEAN)
  /\ \A read : Data(read) \subseteq Seq(BOOLEAN)
  /\ <<FALSE, FALSE, FALSE, FALSE>> \in Seq(BOOLEAN)
<1>1. ASSUME NEW n \in Nat, NEW f \in [1 .. n -> BOOLEAN] PROVE f \in Seq(BOOLEAN)
  OBVIOUS
<1>2. Requests \subseteq Seq(BOOLEAN)
  BY <1>1, PortAssumption
<1>3. Words \subseteq Seq(BOOLEAN)
  BY <1>1, PortAssumption, WireAssumption
<1>4. ASSUME NEW read PROVE Data(read) \subseteq Seq(BOOLEAN)
  <2>1. {<<>>} \subseteq Seq(BOOLEAN)
    OBVIOUS
  <2>2. CASE read
    BY <2>1, <2>2 DEF Data
  <2>3. CASE ~read
    BY <1>3, <2>3 DEF Data
  <2>. QED
    BY <2>2, <2>3
<1>5. <<FALSE, FALSE, FALSE, FALSE>> \in Seq(BOOLEAN)
  OBVIOUS
<1>. QED
  BY <1>2, <1>4, <1>5

LEMMA SentInputs ==
  ASSUME NEW b \in {LineReset, Zeros, Junk}
  PROVE  b \in Seq(BOOLEAN) /\ Len(b) \in Nat
<1>. DEFINE ones == [k \in 1 .. ResetOnes |-> TRUE]
            ends == <<FALSE, FALSE>>
<1>1. ones \in Seq(BOOLEAN)
  BY WireAssumption
<1>2. ends \in Seq(BOOLEAN) /\ <<TRUE, FALSE, TRUE>> \in Seq(BOOLEAN)
  OBVIOUS
<1>3. LineReset = ones \o ends
  BY DEF LineReset
<1>. HIDE DEF ones, ends
<1>4. LineReset \in Seq(BOOLEAN)
  BY <1>1, <1>2, <1>3
<1>5. Zeros \in Seq(BOOLEAN) /\ Junk \in Seq(BOOLEAN)
  BY <1>2 DEF Zeros, Junk, ends
<1>. QED
  BY <1>4, <1>5

LEMMA ReportingImplements ==
  ASSUME dap_swd \in Settings, Reporting
  PROVE  [Next]_vars
<1>1. CASE dap_init
  BY <1>1 DEF dap_init, Next, USB
<1>2. ASSUME NEW idle \in IdleCycles, NEW req \in Requests,
             NEW word \in Data(req[2]), NEW r, Access(req, word, idle, r)
      PROVE  [Next]_vars
  <2>1. idle \in Nat /\ req \in Seq(BOOLEAN) /\ word \in Seq(BOOLEAN)
    BY AccessInputs, PortAssumption
  <2>2. \E quiet \in BOOLEAN : SwdOperation(quiet)
    BY <1>2, <2>1, AccessIsOperation
  <2>. QED
    BY <2>2 DEF Next, USB
<1>3. ASSUME NEW idle \in IdleCycles, NEW word \in Data(FALSE), NEW r,
             dap_write_abort(word, idle, r)
      PROVE  [Next]_vars
  <2>1. idle \in Nat /\ word \in Seq(BOOLEAN)
    BY AccessInputs, PortAssumption
  <2>2. \E quiet \in BOOLEAN : SwdOperation(quiet)
    BY <1>3, <2>1, AccessIsOperation, AccessInputs DEF dap_write_abort
  <2>. QED
    BY <2>2 DEF Next, USB
<1>4. ASSUME NEW b, dap_swj_sequence(b) PROVE [Next]_vars
  BY <1>4 DEF dap_swj_sequence
<1>5. ASSUME NEW b \in {LineReset, Zeros, Junk},
             NEW parts, dap_swd_sequence(parts),
             \/ \E din \in BOOLEAN : parts = <<Part(din, Zeros), Part(FALSE, b)>>
             \/ parts = <<Part(FALSE, b), Part(TRUE, Zeros)>>
      PROVE  [Next]_vars
  <2>1. /\ Len(parts) = 2
        /\ {parts[1].bits, parts[2].bits} \subseteq {b, Zeros}
    BY <1>5 DEF Part
  <2>2. Len(b) \in Nat /\ Len(Zeros) \in Nat
    BY SentInputs
  <2>3. \A k \in 1 .. Len(parts) : Len(parts[k].bits) \in Nat
    BY <2>1, <2>2
  <2>4. SwdSequence
    BY <1>5, <2>1, <2>3, SequenceIsSequence
  <2>. QED
    BY <2>4 DEF Next, USB
<1>6. ASSUME NEW freq, dap_swj_clock(freq) PROVE [Next]_vars
  BY <1>6 DEF dap_swj_clock
<1>7. ASSUME NEW half, NEW wide, dap_delay(half, wide) PROVE [Next]_vars
  BY <1>7 DEF dap_delay
<1>8. ASSUME NEW lines, NEW wait, NEW wide, dap_swj_pins(lines, wait, wide) PROVE [Next]_vars
  BY <1>8 DEF dap_swj_pins
<1>. QED
  BY <1>1, <1>2, <1>3, <1>4, <1>5, <1>6, <1>7, <1>8 DEF Reporting

LEMMA UnreportedImplements ==
  ASSUME Unreported
  PROVE  [Next]_vars
<1>1. CASE dap_connect
  BY <1>1 DEF dap_connect, Next, USB
<1>2. CASE dap_disconnect
  BY <1>2 DEF dap_disconnect, Next, USB
<1>3. CASE ThreadBegin
  BY <1>3 DEF ThreadBegin, Next, Thread
<1>4. CASE ThreadStep
  BY <1>4 DEF ThreadStep, Next, Thread
<1>5. ASSUME NEW settings, dap_swd_configure(settings) \/ Retune(settings)
      PROVE  [Next]_vars
  BY <1>5 DEF dap_swd_configure, Retune
<1>6. CASE PowerCycle
  BY <1>6 DEF PowerCycle
<1>. QED
  BY <1>1, <1>2, <1>3, <1>4, <1>5, <1>6 DEF Unreported

LEMMA PortImplements ==
  ASSUME dap_swd \in Settings, [PortNext]_portvars
  PROVE  [Next]_vars
<1>1. CASE Forget
  BY <1>1 DEF Forget
<1>2. CASE UNCHANGED portvars
  BY <1>2 DEF portvars
<1>. QED
  BY <1>1, <1>2, ReportingImplements, UnreportedImplements DEF PortNext

\* The settings of the probe.
LEMMA SettingsKept ==
  ASSUME dap_swd \in Settings, [PortNext]_portvars
  PROVE  dap_swd' \in Settings
<1>1. CASE Reporting
  <2>1. CASE dap_init
    BY <2>1, PortAssumption DEF dap_init
  <2>2. ASSUME NEW req, NEW word, NEW idle, NEW r, Access(req, word, idle, r)
        PROVE  dap_swd' \in Settings
    BY <2>2 DEF Access
  <2>3. CASE \E b \in {LineReset, Zeros, Junk} :
               \/ dap_swj_sequence(b)
               \/ \E din \in BOOLEAN : dap_swd_sequence(<<Part(din, Zeros), Part(FALSE, b)>>)
               \/ dap_swd_sequence(<<Part(FALSE, b), Part(TRUE, Zeros)>>)
    BY <2>3 DEF dap_swj_sequence, dap_swd_sequence
  <2>4. CASE \E freq \in Frequencies : dap_swj_clock(freq)
    BY <2>4 DEF dap_swj_clock
  <2>5. CASE \E wide \in BOOLEAN :
               \/ \E half \in Delays : dap_delay(half, wide)
               \/ \E wait \in Waits, lines \in BOOLEAN : dap_swj_pins(lines, wait, wide)
    BY <2>5 DEF dap_delay, dap_swj_pins
  <2>. QED
    BY <1>1, <2>1, <2>2, <2>3, <2>4, <2>5 DEF Reporting, dap_write_abort
<1>2. CASE Unreported
  BY <1>2 DEF Unreported, dap_connect, dap_disconnect, dap_swd_configure, ThreadBegin,
              ThreadStep, Retune, PowerCycle
<1>3. CASE Forget
  BY <1>3 DEF Forget
<1>4. CASE UNCHANGED portvars
  BY <1>4 DEF portvars
<1>. QED
  BY <1>1, <1>2, <1>3, <1>4 DEF PortNext

\* dap_swd_operation and dap_swd_sequence, clock by clock, whatever the target
\* answers, turn the lines as TargetPins says, which leaves the clocks out; no other
\* request does.
THEOREM Implemented == PortSpec => PinsImplemented
<1>. DEFINE Set == dap_swd \in Settings
<1>1. PortInit => Init /\ Set
  BY PortAssumption DEF PortInit
<1>2. Set /\ [PortNext]_portvars => [Next]_vars /\ Set'
  BY PortImplements, SettingsKept
<1>. HIDE DEF Set
<1>. QED
  BY <1>1, <1>2, PTL DEF PortSpec, PinsImplemented, Spec

\* What is proved of the pins holds of the port: between the things that Black Magic
\* does, no two outputs drive SWDIO or the clock, also after dap_swd_operation with
\* every clock and every answer in it.
THEOREM PortRestsFree == PortSpec => []NoContentionAtRest
BY Implemented, RestsFree, PTL DEF PinsImplemented

\* A connected port that Black Magic has not touched has its lines, SWDIO also after
\* dap_swd_operation and dap_swd_sequence, unless the last answer was none.
THEOREM PortHasItsLines == PortSpec => []ConnectedLines
BY Implemented, HasItsLines, PTL DEF PinsImplemented

(***************************************************************************)
(* Types of the target and the wire.                                       *)
(***************************************************************************)

Slots == {"leave", "take", "high", "low"}

BitString == Seq(BOOLEAN)
Plans == Seq(Slots)

Answers == [ack : {"OK", "WAIT", "FAULT", "none"}, word : BitString, bad : BOOLEAN]

Targets ==
    [st : {"idle", "lost", "reset", "error"}, settings : Settings, reply : Answers,
     ones : 0 .. ResetOnes, got : BitString, plan : Plans, taken : BitString]

Wires ==
    [mode : [Pins -> {"in", "out"}], dir : [Shifted -> {"in", "out"}], level : BOOLEAN,
     in : BitString, target : Targets, fought : BOOLEAN]

LEMMA EmptyStrings ==
  <<>> \in BitString /\ <<>> \in Plans
BY DEF BitString, Plans

LEMMA Longer ==
  ASSUME NEW s \in BitString, NEW b \in BOOLEAN
  PROVE  /\ Append(s, b) \in BitString /\ Len(Append(s, b)) = Len(s) + 1 /\ Len(s) \in Nat
         /\ \A k \in 1 .. Len(s) : Append(s, b)[k] = s[k]
         /\ Append(s, b)[Len(s) + 1] = b
BY DEF BitString

LEMMA NoOnes ==
  0 \in 0 .. ResetOnes
BY WireAssumption

LEMMA NewTarget ==
  ASSUME NEW settings \in Settings
  PROVE  Target(settings) \in Targets
<1>1. Reply("none", <<>>, FALSE) \in Answers
  BY EmptyStrings DEF Reply, Answers
<1>. QED
  BY <1>1, NoOnes, EmptyStrings DEF Target, Targets

LEMMA OddTyped ==
  \A b : Odd(b) \in BOOLEAN
BY DEF Odd

LEMMA PlansTyped ==
  /\ \A n \in Nat : /\ Leave(n) \in Plans /\ Len(Leave(n)) = n
                    /\ \A k \in 1 .. n : Leave(n)[k] = "leave"
  /\ \A n \in Nat : /\ Take(n) \in Plans /\ Len(Take(n)) = n
                    /\ \A k \in 1 .. n : Take(n)[k] = "take"
  /\ \A b \in BitString :
        /\ Driven(b) \in Plans /\ Len(Driven(b)) = Len(b)
        /\ \A k \in 1 .. Len(b) : Driven(b)[k] = IF b[k] THEN "high" ELSE "low"
<1>1. ASSUME NEW n \in Nat, NEW x \in Slots, NEW s, s = [k \in 1 .. n |-> x]
      PROVE  s \in Plans /\ Len(s) = n /\ \A k \in 1 .. n : s[k] = x
  BY <1>1 DEF Plans
<1>2. ASSUME NEW b \in BitString
      PROVE  /\ Driven(b) \in Plans /\ Len(Driven(b)) = Len(b)
             /\ \A k \in 1 .. Len(b) : Driven(b)[k] = IF b[k] THEN "high" ELSE "low"
  <2>1. DOMAIN b = 1 .. Len(b) /\ Len(b) \in Nat
    BY DEF BitString
  <2>2. Driven(b) = [k \in 1 .. Len(b) |-> IF b[k] THEN "high" ELSE "low"]
    BY <2>1 DEF Driven
  <2>3. \A k \in 1 .. Len(b) : (IF b[k] THEN "high" ELSE "low") \in Slots
    BY DEF Slots
  <2>. QED
    BY <2>1, <2>2, <2>3 DEF Plans
<1>. QED
  BY <1>1, <1>2 DEF Leave, Take, Slots

LEMMA AcksTyped ==
  /\ \A ack \in {"OK", "WAIT", "FAULT"} : AckBits[ack] \in BitString /\ Len(AckBits[ack]) = 3
  /\ AckBits.OK = <<TRUE, FALSE, FALSE>>
  /\ AckBits.WAIT = <<FALSE, TRUE, FALSE>>
  /\ AckBits.FAULT = <<FALSE, FALSE, TRUE>>
<1>1. /\ <<TRUE, FALSE, FALSE>> \in BitString /\ <<FALSE, TRUE, FALSE>> \in BitString
      /\ <<FALSE, FALSE, TRUE>> \in BitString
  BY DEF BitString
<1>2. /\ AckBits["OK"] = <<TRUE, FALSE, FALSE>> /\ AckBits["WAIT"] = <<FALSE, TRUE, FALSE>>
      /\ AckBits["FAULT"] = <<FALSE, FALSE, TRUE>>
  BY DEF AckBits
<1>3. /\ Len(<<TRUE, FALSE, FALSE>>) = 3 /\ Len(<<FALSE, TRUE, FALSE>>) = 3
      /\ Len(<<FALSE, FALSE, TRUE>>) = 3
  OBVIOUS
<1>. QED
  BY <1>1, <1>2, <1>3

LEMMA TakenTyped ==
  ASSUME NEW t \in Targets
  PROVE  Taken(t) \in BitString
<1>. DEFINE word == SubSeq(t.got, 1, DataBits)
<1>1. CASE Len(t.got) = DataBits + 1
  <2>1. word \in BitString
    BY <1>1, WireAssumption DEF Targets, BitString
  <2>. HIDE DEF word
  <2>2. Taken(t) \in {word, <<>>}
    BY DEF Taken, word
  <2>. QED
    BY <2>1, <2>2, EmptyStrings
<1>2. CASE Len(t.got) # DataBits + 1
  BY <1>2, EmptyStrings DEF Taken
<1>. QED
  BY <1>1, <1>2

LEMMA PlanTyped ==
  ASSUME NEW t \in Targets, t.reply.ack # "none", NEW rnw
  PROVE  Plan(t, rnw) \in Plans
<1>. DEFINE r == t.reply
            turn == Leave(t.settings.trn)
            ack == Driven(AckBits[r.ack])
            data == IF r.ack = "OK" /\ rnw THEN Driven(Append(r.word, Odd(r.word) # r.bad))
                    ELSE IF r.ack = "OK" \/ t.settings.phase THEN Take(DataBits + 1)
                    ELSE <<>>
<1>1. r \in Answers /\ t.settings \in Settings /\ t.settings.trn \in Nat
  BY PortAssumption DEF Targets
<1>2. turn \in Plans
  BY <1>1, PlansTyped
<1>3. ack \in Plans
  BY <1>1, AcksTyped, PlansTyped DEF Answers
<1>4. data \in Plans
  <2>1. Append(r.word, Odd(r.word) # r.bad) \in BitString
    BY <1>1, Longer DEF Answers
  <2>2. Driven(Append(r.word, Odd(r.word) # r.bad)) \in Plans
    BY <2>1, PlansTyped
  <2>3. Take(DataBits + 1) \in Plans
    BY PlansTyped, WireAssumption
  <2>. QED
    BY <2>2, <2>3, EmptyStrings
<1>5. Plan(t, rnw) = turn \o ack \o (IF rnw THEN data \o turn ELSE turn \o data)
  BY DEF Plan
<1>. HIDE DEF turn, ack, data
<1>. QED
  BY <1>2, <1>3, <1>4, <1>5 DEF Plans

LEMMA FollowTyped ==
  ASSUME NEW t \in Targets, t.plan # <<>>, NEW level \in BOOLEAN
  PROVE  Follow(t, level) \in Targets
<1>. DEFINE next == [t EXCEPT !.plan = Tail(@),
                              !.got = IF Head(t.plan) = "take" THEN Append(@, level) ELSE @]
<1>1. Tail(t.plan) \in Plans
  BY DEF Targets, Plans
<1>2. (IF Head(t.plan) = "take" THEN Append(t.got, level) ELSE t.got) \in BitString
  BY Longer DEF Targets
<1>3. next \in Targets
  BY <1>1, <1>2 DEF Targets
<1>. HIDE DEF next
<1>4. Taken(next) \in BitString
  BY <1>3, TakenTyped
<1>5. [next EXCEPT !.taken = Taken(next), !.got = <<>>] \in Targets
  BY <1>3, <1>4, EmptyStrings DEF Targets
<1>. QED
  BY <1>3, <1>5 DEF Follow, next

LEMMA HeaderTyped ==
  ASSUME NEW t \in Targets
  PROVE  Header(t) \in Targets
<1>1. /\ [t EXCEPT !.st = "error", !.got = <<>>] \in Targets
      /\ [t EXCEPT !.st = "lost", !.got = <<>>] \in Targets
  BY EmptyStrings DEF Targets
<1>2. ASSUME t.reply.ack # "none"
      PROVE  [t EXCEPT !.plan = Plan(t, t.got[3]), !.ones = 0, !.got = <<>>] \in Targets
  <2>1. Plan(t, t.got[3]) \in Plans
    BY <1>2, PlanTyped
  <2>. QED
    BY <2>1, EmptyStrings, NoOnes DEF Targets
<1>. QED
  BY <1>1, <1>2 DEF Header

LEMMA EdgeTyped ==
  ASSUME NEW t \in Targets, NEW level \in BOOLEAN, NEW probe \in BOOLEAN
  PROVE  Edge(t, level, probe) \in Targets
<1>. DEFINE n == IF level /\ probe THEN t.ones + 1 ELSE 0
            counted == [t EXCEPT !.ones = n]
<1>1. n \in Nat /\ (n < ResetOnes => n \in 0 .. ResetOnes)
  BY WireAssumption DEF Targets
<1>2. CASE t.plan # <<>>
  BY <1>2, FollowTyped DEF Edge
<1>3. CASE t.plan = <<>> /\ n >= ResetOnes
  <2>1. Edge(t, level, probe) = [t EXCEPT !.st = "reset", !.ones = 0, !.got = <<>>]
    BY <1>3 DEF Edge
  <2>. QED
    BY <2>1, EmptyStrings, NoOnes DEF Targets
<1>4. CASE t.plan = <<>> /\ ~(n >= ResetOnes)
  <2>1. Edge(t, level, probe) =
           IF t.st = "reset" THEN IF level THEN t ELSE [t EXCEPT !.st = "idle", !.ones = 0]
           ELSE IF t.st = "idle" /\ (level \/ t.got # <<>>)
             THEN Header([counted EXCEPT !.got = Append(@, level)])
           ELSE counted
    BY <1>4 DEF Edge
  <2>2. n \in 0 .. ResetOnes
    BY <1>1, <1>4, WireAssumption
  <2>. HIDE DEF n
  <2>3. counted \in Targets
    BY <2>2 DEF Targets
  <2>. HIDE DEF counted
  <2>4. [counted EXCEPT !.got = Append(@, level)] \in Targets
    <3>1. Append(counted.got, level) \in BitString
      BY <2>3, Longer DEF Targets
    <3>. QED
      BY <2>3, <3>1 DEF Targets
  <2>5. Header([counted EXCEPT !.got = Append(@, level)]) \in Targets
    BY <2>4, HeaderTyped
  <2>6. [t EXCEPT !.st = "idle", !.ones = 0] \in Targets
    BY NoOnes DEF Targets
  <2>. QED
    BY <2>1, <2>3, <2>5, <2>6
<1>. QED
  BY <1>2, <1>3, <1>4

LEMMA LevelTyped ==
  ASSUME NEW w \in Wires, NEW b \in BOOLEAN
  PROVE  Level(w, b) \in Wires
BY DEF Level, Wires

LEMMA ClockTyped ==
  ASSUME NEW w \in Wires
  PROVE  Clock(w) \in Wires
<1>. DEFINE slot == IF w.target.plan = <<>> THEN "leave" ELSE Head(w.target.plan)
            line == IF Drives(w) THEN w.level ELSE slot # "low"
            probe == Drives(w)
            fights == w.fought \/ (probe /\ slot \in {"high", "low"})
            seen == [w EXCEPT !.in = Append(@, line), !.fought = fights]
<1>1. Clock(w) = IF Pulses(w) THEN [seen EXCEPT !.target = Edge(@, line, probe)] ELSE seen
  BY DEF Clock
<1>2. line \in BOOLEAN
  BY DEF Wires
<1>3. probe \in BOOLEAN
  BY DEF Drives
<1>4. fights \in BOOLEAN
  OBVIOUS
<1>. HIDE DEF line, fights
<1>5. seen \in Wires
  <2>1. Append(w.in, line) \in BitString
    BY <1>2, Longer DEF Wires
  <2>. QED
    BY <1>4, <2>1 DEF Wires
<1>. HIDE DEF seen, probe
<1>6. Edge(seen.target, line, probe) \in Targets
  BY <1>2, <1>3, <1>5, EdgeTyped DEF Wires
<1>7. [seen EXCEPT !.target = Edge(@, line, probe)] \in Wires
  BY <1>5, <1>6 DEF Wires
<1>. QED
  BY <1>1, <1>5, <1>7

LEMMA RunTyped ==
  ASSUME NEW w \in Wires, NEW n \in Nat
  PROVE  Run(w, n) \in Wires
<1>1. \A x \in Wires, k \in 1 .. n : Clock(x) \in Wires
  BY ClockTyped
<1>. QED
  BY <1>1, Clocks!Stays DEF Run

LEMMA TurnTyped ==
  ASSUME NEW w \in Wires
  PROVE  TMS_in(w) \in Wires /\ TMS_out(w) \in Wires
<1>1. ASSUME NEW v \in {"in", "out"}
      PROVE  DoOps(w, <<Dir("SWDIO", v), Mode("SWDIO", v)>>) \in Wires
  <2>. DEFINE t == Do(w, Dir("SWDIO", v))
  <2>1. t \in Wires
    <3>1. t = [w EXCEPT !.dir = Put(w.dir, "SWDIO", v)]
      BY PinDone
    <3>. QED
      BY <3>1 DEF Wires, Shifted, Put
  <2>. HIDE DEF t
  <2>2. Do(t, Mode("SWDIO", v)) \in Wires
    <3>1. Do(t, Mode("SWDIO", v)) = [t EXCEPT !.mode = Put(t.mode, "SWDIO", v)]
      BY PinDone
    <3>. QED
      BY <2>1, <3>1 DEF Wires, Shifted, Pins, Put
  <2>. QED
    BY <2>2, TwoDone DEF t
<1>. QED
  BY <1>1 DEF TMS_in, TMS_out, HAL_SWDIO_TMS_in, HAL_SWDIO_TMS_out

LEMMA HeaderBits ==
  ASSUME NEW req \in BitString
  PROVE  <<TRUE>> \o req \o <<Odd(req), FALSE, TRUE>> \in BitString
<1>1. Odd(req) \in BOOLEAN
  BY OddTyped
<1>. DEFINE p == Odd(req)
<1>. HIDE DEF p
<1>2. \A q \in BOOLEAN : <<q, FALSE, TRUE>> \in BitString
  BY DEF BitString
<1>3. <<TRUE>> \in BitString
  BY DEF BitString
<1>4. \A a \in BitString, b \in BitString : a \o b \in BitString
  BY DEF BitString
<1>5. <<TRUE>> \o req \in BitString
  BY <1>3, <1>4
<1>6. <<Odd(req), FALSE, TRUE>> \in BitString
  BY <1>1, <1>2
<1>. QED
  BY <1>4, <1>5, <1>6

\* An operation ends as its last piece d does, with the line high.
EndsAs(res, d) ==
    /\ res.wire = Level(d.wire, TRUE)
    /\ res.ack = d.ack
    /\ res.value = d.value

\* How an operation goes on after the acknowledge.
LEMMA OperationPieces ==
  ASSUME NEW w, NEW req, NEW word, NEW settings, NEW idle
  PROVE  LET res == dap_swd_operation(w, req, word, settings, idle)
             w1 == Acknowledge(w, req, settings.trn)
         IN  /\ (w1.in = AckBits.OK /\ req[2]) => EndsAs(res, ReadPhase(w1, settings, idle))
             /\ (w1.in = AckBits.OK /\ ~req[2]) =>
                   EndsAs(res, WritePhase(w1, word, settings, idle))
             /\ w1.in = AckBits.WAIT => EndsAs(res, Declined(w1, "WAIT", req[2], settings))
             /\ w1.in = AckBits.FAULT => EndsAs(res, Declined(w1, "FAULT", req[2], settings))
             /\ (w1.in \notin {AckBits.OK, AckBits.WAIT, AckBits.FAULT}) =>
                   EndsAs(res, Result(Run(w1, settings.trn + DataBits + 1), "PROTOCOL", <<>>))
<1>. DEFINE w1 == Acknowledge(w, req, settings.trn)
            rnw == req[2]
            reading == ReadPhase(w1, settings, idle)
            writing == WritePhase(w1, word, settings, idle)
            waiting == Declined(w1, "WAIT", rnw, settings)
            failing == Declined(w1, "FAULT", rnw, settings)
            quiet == Result(Run(w1, settings.trn + DataBits + 1), "PROTOCOL", <<>>)
            done == IF w1.in = AckBits.OK THEN IF rnw THEN reading ELSE writing
                    ELSE IF w1.in = AckBits.WAIT THEN waiting
                    ELSE IF w1.in = AckBits.FAULT THEN failing
                    ELSE quiet
            res == dap_swd_operation(w, req, word, settings, idle)
<1>1. res = [done EXCEPT !.wire = Level(@, TRUE)]
  BY DEF dap_swd_operation
<1>2. /\ DOMAIN reading = {"wire", "ack", "value"} /\ DOMAIN writing = {"wire", "ack", "value"}
      /\ DOMAIN waiting = {"wire", "ack", "value"} /\ DOMAIN failing = {"wire", "ack", "value"}
      /\ DOMAIN quiet = {"wire", "ack", "value"}
  BY DEF ReadPhase, WritePhase, Declined, Result
<1>3. AckBits.OK # AckBits.WAIT /\ AckBits.OK # AckBits.FAULT /\ AckBits.WAIT # AckBits.FAULT
  BY AcksTyped
<1>. HIDE DEF w1, reading, writing, waiting, failing, quiet, res
<1>4. DOMAIN done = {"wire", "ack", "value"}
  BY <1>2
<1>5. EndsAs(res, done)
  <2>. HIDE DEF done
  <2>. QED
    BY <1>1, <1>4 DEF EndsAs
<1>. QED
  BY <1>3, <1>5, Zenon DEF w1, reading, writing, waiting, failing, quiet, res

\* What each piece of an operation keeps, the operation keeps.
LEMMA OperationKeeps ==
  ASSUME NEW S,
         \A x \in S : /\ Clock(x) \in S /\ TMS_in(x) \in S /\ TMS_out(x) \in S
                      /\ [x EXCEPT !.in = <<>>] \in S
                      /\ \A b \in BOOLEAN : Level(x, b) \in S,
         NEW w \in S, NEW req \in BitString, NEW word \in BitString,
         NEW settings \in Settings, NEW idle \in Nat
  PROVE  dap_swd_operation(w, req, word, settings, idle).wire \in S
<1>0. /\ settings.trn \in Nat /\ DataBits \in Nat /\ 1 \in Nat /\ 3 \in Nat
      /\ DataBits + 1 \in Nat /\ settings.trn + DataBits + 1 \in Nat
      /\ settings.trn + (IF settings.phase THEN DataBits + 1 ELSE 0) \in Nat
      /\ TRUE \in BOOLEAN /\ FALSE \in BOOLEAN
  BY PortAssumption, WireAssumption
<1>1. ASSUME NEW x \in S, NEW n \in Nat PROVE Run(x, n) \in S
  BY Clocks!Stays DEF Run
<1>2. ASSUME NEW x \in S, NEW n \in Nat PROVE Read(x, n) \in S
  <2>1. [x EXCEPT !.in = <<>>] \in S
    OBVIOUS
  <2>. QED
    BY <1>1, <2>1 DEF Read
<1>3. ASSUME NEW x \in S, NEW b \in BitString PROVE Write(x, b) \in S
  <2>1. Len(b) \in Nat /\ \A k \in 1 .. Len(b) : b[k] \in BOOLEAN
    BY DEF BitString
  <2>2. ASSUME NEW y \in S, NEW k \in 1 .. Len(b) PROVE Clock(Level(y, b[k])) \in S
    <3>1. Level(y, b[k]) \in S
      BY <2>1
    <3>. QED
      BY <3>1
  <2>. QED
    BY <2>1, <2>2, Bits!Stays DEF Write
<1>4. ASSUME NEW x \in S PROVE TMS_in(x) \in S /\ TMS_out(x) \in S /\ Level(x, FALSE) \in S
                               /\ Level(x, TRUE) \in S
  OBVIOUS
<1>. DEFINE w1 == Acknowledge(w, req, settings.trn)
            rnw == req[2]
<1>5. w1 \in S
  <2>. DEFINE header == <<TRUE>> \o req \o <<Odd(req), FALSE, TRUE>>
  <2>1. header \in BitString
    BY HeaderBits
  <2>2. Acknowledge(w, req, settings.trn) = Read(Run(TMS_in(Write(w, header)), settings.trn), 3)
    BY DEF Acknowledge
  <2>. HIDE DEF header
  <2>3. TMS_in(Write(w, header)) \in S
    BY <1>3, <1>4, <2>1
  <2>4. Run(TMS_in(Write(w, header)), settings.trn) \in S
    BY <1>0, <1>1, <2>3
  <2>5. Read(Run(TMS_in(Write(w, header)), settings.trn), 3) \in S
    BY <1>0, <1>2, <2>4
  <2>. QED
    BY <2>2, <2>5
<1>. HIDE DEF w1
<1>6. ReadPhase(w1, settings, idle).wire \in S
  <2>. DEFINE data == Read(w1, DataBits)
              parity == Read(data, 1)
              end == Run(Level(TMS_out(Run(parity, settings.trn)), FALSE), idle)
  <2>1. ReadPhase(w1, settings, idle).wire = end
    BY DEF ReadPhase, Result
  <2>2. parity \in S
    BY <1>0, <1>2, <1>5
  <2>. HIDE DEF parity
  <2>3. TMS_out(Run(parity, settings.trn)) \in S
    BY <1>0, <1>1, <1>4, <2>2
  <2>. QED
    BY <1>1, <1>4, <2>1, <2>3
<1>7. WritePhase(w1, word, settings, idle).wire \in S
  <2>. DEFINE bits == Append(word, Odd(word))
              data == Write(TMS_out(Run(w1, settings.trn)), bits)
              end == Run(Level(data, FALSE), idle)
  <2>1. WritePhase(w1, word, settings, idle).wire = end
    BY DEF WritePhase, Result
  <2>2. bits \in BitString
    BY OddTyped, Longer
  <2>. HIDE DEF bits
  <2>3. TMS_out(Run(w1, settings.trn)) \in S
    BY <1>0, <1>1, <1>4, <1>5
  <2>4. data \in S
    BY <1>3, <2>2, <2>3
  <2>. HIDE DEF data
  <2>5. Level(data, FALSE) \in S
    BY <1>4, <2>4
  <2>. QED
    BY <1>1, <2>1, <2>5
<1>8. ASSUME NEW ack PROVE Declined(w1, ack, rnw, settings).wire \in S
  <2>. DEFINE n == settings.trn + IF settings.phase /\ rnw THEN DataBits + 1 ELSE 0
              turned == TMS_out(Run(w1, n))
  <2>1. n \in Nat
    BY <1>0
  <2>2. Declined(w1, ack, rnw, settings).wire \in
           {turned, Run(Level(turned, FALSE), DataBits + 1)}
    BY DEF Declined, Result
  <2>. HIDE DEF n
  <2>3. turned \in S
    BY <1>1, <1>4, <1>5, <2>1
  <2>. HIDE DEF turned
  <2>4. Run(Level(turned, FALSE), DataBits + 1) \in S
    BY <1>0, <1>1, <1>4, <2>3
  <2>. QED
    BY <2>2, <2>3, <2>4
<1>9. Result(Run(w1, settings.trn + DataBits + 1), "PROTOCOL", <<>>).wire \in S
  <2>1. Run(w1, settings.trn + DataBits + 1) \in S
    BY <1>0, <1>1, <1>5
  <2>. QED
    BY <2>1 DEF Result
<1>10. \E d : d.wire \in S /\ EndsAs(dap_swd_operation(w, req, word, settings, idle), d)
  BY <1>6, <1>7, <1>8, <1>9, OperationPieces, Zenon DEF w1
<1>. QED
  BY <1>4, <1>10 DEF EndsAs

LEMMA OperationTyped ==
  ASSUME NEW w \in Wires, NEW req \in BitString, NEW word \in BitString,
         NEW settings \in Settings, NEW idle \in Nat
  PROVE  LET res == dap_swd_operation(w, req, word, settings, idle)
         IN  /\ res.wire \in Wires
             /\ res.ack \in {"OK", "WAIT", "FAULT", "ERROR", "PROTOCOL"}
<1>. DEFINE res == dap_swd_operation(w, req, word, settings, idle)
            w1 == Acknowledge(w, req, settings.trn)
<1>1. ASSUME NEW x \in Wires PROVE [x EXCEPT !.in = <<>>] \in Wires
  BY EmptyStrings DEF Wires
<1>2. res.wire \in Wires
  BY <1>1, ClockTyped, TurnTyped, LevelTyped, OperationKeeps
<1>. DEFINE Acks == {"OK", "WAIT", "FAULT", "ERROR", "PROTOCOL"}
<1>3. /\ ReadPhase(w1, settings, idle).ack \in Acks
      /\ WritePhase(w1, word, settings, idle).ack \in Acks
      /\ Declined(w1, "WAIT", req[2], settings).ack \in Acks
      /\ Declined(w1, "FAULT", req[2], settings).ack \in Acks
      /\ Result(Run(w1, settings.trn + DataBits + 1), "PROTOCOL", <<>>).ack \in Acks
  BY DEF ReadPhase, WritePhase, Declined, Result
<1>4. res.ack \in Acks
  <2>. HIDE DEF w1, Acks
  <2>1. \E d : d.ack \in Acks /\ EndsAs(res, d)
    BY <1>3, OperationPieces, Zenon DEF w1
  <2>. QED
    BY <2>1 DEF EndsAs
<1>. QED
  BY <1>2, <1>4

(***************************************************************************)
(* One clock.                                                              *)
(***************************************************************************)

Slot(t) == IF t.plan = <<>> THEN "leave" ELSE Head(t.plan)
Line(w) == IF Drives(w) THEN w.level ELSE Slot(w.target) # "low"

\* The lines of two wires are the same, and with them the level.
SamePins(v, w) == v.mode = w.mode /\ v.dir = w.dir
SameLines(v, w) == SamePins(v, w) /\ v.level = w.level

LEMMA PinsDecide ==
  ASSUME NEW v, NEW w, SamePins(v, w)
  PROVE  (Pulses(v) <=> Pulses(w)) /\ (Drives(v) <=> Drives(w))
BY DEF SamePins, Pulses, Drives

LEMMA ClockFields ==
  ASSUME NEW w \in Wires
  PROVE  /\ SameLines(Clock(w), w)
         /\ Line(w) \in BOOLEAN
         /\ Clock(w).in = Append(w.in, Line(w))
         /\ (Clock(w).fought <=> w.fought \/ (Drives(w) /\ Slot(w.target) \in {"high", "low"}))
         /\ Pulses(w) => Clock(w).target = Edge(w.target, Line(w), Drives(w))
         /\ ~Pulses(w) => Clock(w).target = w.target
<1>. DEFINE slot == IF w.target.plan = <<>> THEN "leave" ELSE Head(w.target.plan)
            line == IF Drives(w) THEN w.level ELSE slot # "low"
            fights == w.fought \/ (Drives(w) /\ slot \in {"high", "low"})
            seen == [w EXCEPT !.in = Append(@, line), !.fought = fights]
            probe == Drives(w)
<1>1. Clock(w) = IF Pulses(w) THEN [seen EXCEPT !.target = Edge(@, line, probe)] ELSE seen
  BY DEF Clock
<1>2. line = Line(w) /\ slot = Slot(w.target)
  BY DEF Line, Slot
<1>3. Line(w) \in BOOLEAN
  BY DEF Line, Wires
<1>4. fights <=> w.fought \/ (Drives(w) /\ Slot(w.target) \in {"high", "low"})
  BY <1>2
<1>. HIDE DEF line, fights, slot, probe
<1>5. /\ DOMAIN seen = {"mode", "dir", "level", "in", "target", "fought"}
      /\ SameLines(seen, w) /\ seen.in = Append(w.in, line) /\ seen.fought = fights
      /\ seen.target = w.target
  BY DEF Wires, SameLines, SamePins
<1>. HIDE DEF seen
<1>6. CASE Pulses(w)
  <2>1. Clock(w) = [seen EXCEPT !.target = Edge(@, line, probe)]
    BY <1>1, <1>6
  <2>2. /\ SameLines(Clock(w), w) /\ Clock(w).in = Append(w.in, line)
        /\ Clock(w).fought = fights /\ Clock(w).target = Edge(w.target, line, probe)
    BY <1>5, <2>1 DEF SameLines, SamePins
  <2>. QED
    BY <1>2, <1>3, <1>4, <1>6, <2>2 DEF probe
<1>7. CASE ~Pulses(w)
  BY <1>1, <1>2, <1>3, <1>4, <1>5, <1>7
<1>. QED
  BY <1>6, <1>7

\* A clock of the plan.
LEMMA FollowFields ==
  ASSUME NEW t \in Targets, t.plan # <<>>, NEW level \in BOOLEAN, NEW probe
  PROVE  LET u == Edge(t, level, probe)
         IN  /\ u.plan = Tail(t.plan)
             /\ u.st = t.st /\ u.settings = t.settings /\ u.reply = t.reply /\ u.ones = t.ones
             /\ (u.plan # <<>> \/ t.st = "lost") =>
                   /\ u.got = IF Head(t.plan) = "take" THEN Append(t.got, level) ELSE t.got
                   /\ u.taken = t.taken
             /\ (u.plan = <<>> /\ t.st # "lost") =>
                   /\ u.got = <<>>
                   /\ LET got == IF Head(t.plan) = "take" THEN Append(t.got, level) ELSE t.got
                          word == SubSeq(got, 1, DataBits)
                      IN  u.taken = IF /\ t.reply.ack = "OK" /\ Len(got) = DataBits + 1
                                       /\ got[DataBits + 1] = Odd(word)
                                    THEN word ELSE <<>>
<1>. DEFINE got == IF Head(t.plan) = "take" THEN Append(t.got, level) ELSE t.got
            next == [t EXCEPT !.plan = Tail(@), !.got = got]
            u == Edge(t, level, probe)
<1>1. u = IF next.plan # <<>> \/ t.st = "lost" THEN next
          ELSE [next EXCEPT !.taken = Taken(next), !.got = <<>>]
  BY DEF Edge, Follow
<1>. HIDE DEF got, u
<1>2. /\ next.plan = Tail(t.plan) /\ next.got = got /\ next.st = t.st
      /\ next.settings = t.settings /\ next.reply = t.reply /\ next.ones = t.ones
      /\ next.taken = t.taken
      /\ DOMAIN next = {"st", "settings", "reply", "ones", "got", "plan", "taken"}
  BY DEF Targets
<1>3. Taken(next) = LET word == SubSeq(got, 1, DataBits)
                    IN  IF /\ t.reply.ack = "OK" /\ Len(got) = DataBits + 1
                           /\ got[DataBits + 1] = Odd(word)
                        THEN word ELSE <<>>
  BY <1>2 DEF Taken
<1>. HIDE DEF next
<1>4. CASE next.plan # <<>> \/ t.st = "lost"
  <2>1. u = next
    BY <1>1, <1>4
  <2>. QED
    BY <1>2, <1>4, <2>1 DEF u, got
<1>5. CASE ~(next.plan # <<>> \/ t.st = "lost")
  <2>1. u = [next EXCEPT !.taken = Taken(next), !.got = <<>>]
    BY <1>1, <1>5
  <2>2. /\ u.plan = next.plan /\ u.st = next.st /\ u.settings = next.settings
        /\ u.reply = next.reply /\ u.ones = next.ones /\ u.got = <<>>
        /\ u.taken = Taken(next)
    BY <1>2, <2>1
  <2>. QED
    BY <1>2, <1>3, <1>5, <2>2 DEF u, got
<1>. QED
  BY <1>4, <1>5

(***************************************************************************)
(* Clocks of a plan.                                                       *)
(***************************************************************************)

\* k slots of the plan p are over.
At(t, p, k) ==
    /\ Len(t.plan) = Len(p) - k
    /\ \A j \in 1 .. Len(p) - k : t.plan[j] = p[k + j]

LEMMA AtClock ==
  ASSUME NEW t \in Targets, NEW p \in Plans, NEW k \in Nat, k < Len(p), At(t, p, k),
         NEW u, u.plan = Tail(t.plan)
  PROVE  /\ t.plan # <<>> /\ Head(t.plan) = p[k + 1] /\ At(u, p, k + 1)
         /\ u.plan = <<>> <=> k + 1 = Len(p)
<1>1. /\ t.plan \in Seq(Slots) /\ Len(p) \in Nat /\ Len(t.plan) = Len(p) - k
      /\ \A j \in 1 .. Len(p) - k : t.plan[j] = p[k + j]
  BY DEF Targets, Plans, At
<1>2. t.plan # <<>> /\ Head(t.plan) = t.plan[1]
  BY <1>1
<1>3. /\ Tail(t.plan) \in Seq(Slots) /\ Len(Tail(t.plan)) = Len(t.plan) - 1
      /\ \A j \in 1 .. Len(t.plan) - 1 : Tail(t.plan)[j] = t.plan[j + 1]
  BY <1>1, <1>2
<1>4. At(u, p, k + 1)
  <2>1. Len(u.plan) = Len(p) - (k + 1)
    BY <1>1, <1>3
  <2>2. ASSUME NEW j \in 1 .. Len(p) - (k + 1) PROVE u.plan[j] = p[(k + 1) + j]
    <3>1. u.plan[j] = t.plan[j + 1]
      BY <1>1, <1>3
    <3>2. j + 1 \in 1 .. Len(p) - k /\ k + (j + 1) = (k + 1) + j
      BY <1>1
    <3>. QED
      BY <1>1, <3>1, <3>2
  <2>. QED
    BY <2>1, <2>2 DEF At
<1>5. u.plan = <<>> <=> k + 1 = Len(p)
  <2>1. u.plan \in Seq(Slots) /\ Len(u.plan) = Len(p) - (k + 1)
    BY <1>1, <1>3
  <2>2. u.plan = <<>> <=> Len(u.plan) = 0
    <3>1. ASSUME NEW x \in Seq(Slots) PROVE x = <<>> <=> Len(x) = 0
      OBVIOUS
    <3>. QED
      BY <2>1, <3>1
  <2>. QED
    BY <1>1, <2>1, <2>2
<1>. QED
  BY <1>1, <1>2, <1>4, <1>5

\* v is w, n clocks of the plan p later, but for the bits: those that are read, and
\* those that are taken.
Moved(v, w, p, k) ==
    /\ v \in Wires /\ SamePins(v, w) /\ (v.fought <=> w.fought)
    /\ v.target.st = w.target.st /\ v.target.settings = w.target.settings
    /\ v.target.reply = w.target.reply /\ v.target.ones = w.target.ones
    /\ At(v.target, p, k)

\* What becomes of the bits that are taken, in n clocks from the slot k of plan p.
Kept(u, t, p, k, n) ==
    LET takes == \E j \in k + 1 .. k + n : p[j] = "take"
    IN  IF n = 0 \/ k + n < Len(p) \/ t.st = "lost"
          THEN u.taken = t.taken /\ (~takes => u.got = t.got)
          ELSE /\ u.got = <<>>
               /\ (t.reply.ack # "OK" \/ (~takes /\ t.got = <<>>)) => u.taken = <<>>

LEMMA EndOfPlan ==
  ASSUME NEW t \in Targets, NEW p \in Plans, NEW k \in Int, At(t, p, k)
  PROVE  t.plan = <<>> <=> k = Len(p)
<1>1. t.plan \in Seq(Slots) /\ Len(p) \in Nat /\ Len(t.plan) = Len(p) - k
  BY DEF Targets, Plans, At
<1>. QED
  BY <1>1

LEMMA ClockMoved ==
  ASSUME NEW w \in Wires, Pulses(w), NEW p \in Plans, NEW k \in Nat, k < Len(p),
         At(w.target, p, k), Drives(w) => p[k + 1] \notin {"high", "low"}
  PROVE  /\ Moved(Clock(w), w, p, k + 1)
         /\ Clock(w).in = Append(w.in, Line(w))
         /\ ~Drives(w) => Line(w) = (p[k + 1] # "low")
         /\ Kept(Clock(w).target, w.target, p, k, 1)
<1>. DEFINE t == w.target
            u == Edge(t, Line(w), Drives(w))
<1>1. /\ SameLines(Clock(w), w) /\ Line(w) \in BOOLEAN
      /\ Clock(w).in = Append(w.in, Line(w))
      /\ (Clock(w).fought <=> w.fought \/ (Drives(w) /\ Slot(w.target) \in {"high", "low"}))
      /\ Clock(w).target = u
  BY ClockFields
<1>2. t \in Targets /\ Clock(w) \in Wires
  BY ClockTyped DEF Wires
<1>3. t.plan # <<>> /\ Head(t.plan) = p[k + 1]
  <2>. DEFINE x == [plan |-> Tail(t.plan)]
  <2>1. x.plan = Tail(t.plan)
    OBVIOUS
  <2>. HIDE DEF x, t
  <2>. QED
    BY <1>2, <2>1, AtClock DEF t
<1>4. Slot(t) = p[k + 1]
  BY <1>3 DEF Slot
<1>5. /\ u.plan = Tail(t.plan)
      /\ u.st = t.st /\ u.settings = t.settings /\ u.reply = t.reply /\ u.ones = t.ones
      /\ (u.plan # <<>> \/ t.st = "lost") =>
            /\ u.got = IF Head(t.plan) = "take" THEN Append(t.got, Line(w)) ELSE t.got
            /\ u.taken = t.taken
      /\ (u.plan = <<>> /\ t.st # "lost") =>
            /\ u.got = <<>>
            /\ LET got == IF Head(t.plan) = "take" THEN Append(t.got, Line(w)) ELSE t.got
                   word == SubSeq(got, 1, DataBits)
               IN  u.taken = IF /\ t.reply.ack = "OK" /\ Len(got) = DataBits + 1
                                /\ got[DataBits + 1] = Odd(word)
                             THEN word ELSE <<>>
  BY <1>1, <1>2, <1>3, FollowFields
<1>. HIDE DEF u
<1>6. At(u, p, k + 1) /\ (u.plan = <<>> <=> k + 1 = Len(p))
  BY <1>2, <1>5, AtClock
<1>7. Moved(Clock(w), w, p, k + 1)
  BY <1>1, <1>2, <1>4, <1>5, <1>6 DEF Moved, SameLines
<1>8. ~Drives(w) => Line(w) = (p[k + 1] # "low")
  BY <1>4 DEF Line
<1>9. Kept(u, t, p, k, 1)
  <2>. DEFINE takes == \E j \in k + 1 .. k + 1 : p[j] = "take"
  <2>1. takes <=> Head(t.plan) = "take"
    BY <1>3
  <2>2. CASE u.plan # <<>> \/ t.st = "lost"
    <3>1. u.taken = t.taken /\ (~takes => u.got = t.got)
      BY <1>5, <2>1, <2>2
    <3>2. k + 1 < Len(p) \/ t.st = "lost"
      BY <1>6, <2>2 DEF Plans
    <3>. QED
      BY <3>1, <3>2 DEF Kept
  <2>3. CASE u.plan = <<>> /\ t.st # "lost"
    <3>. DEFINE got == IF Head(t.plan) = "take" THEN Append(t.got, Line(w)) ELSE t.got
                word == SubSeq(got, 1, DataBits)
    <3>1. /\ u.got = <<>>
          /\ u.taken = IF /\ t.reply.ack = "OK" /\ Len(got) = DataBits + 1
                          /\ got[DataBits + 1] = Odd(word)
                       THEN word ELSE <<>>
      BY <1>5, <2>3
    <3>2. t.reply.ack # "OK" => u.taken = <<>>
      BY <3>1
    <3>3. (~takes /\ t.got = <<>>) => u.taken = <<>>
      <4>1. (~takes /\ t.got = <<>>) => Len(got) = 0
        BY <2>1
      <4>. HIDE DEF got, word
      <4>. QED
        BY <3>1, <4>1, WireAssumption
    <3>4. k + 1 = Len(p)
      BY <1>6, <2>3
    <3>. QED
      BY <2>3, <3>1, <3>2, <3>3, <3>4 DEF Kept
  <2>. QED
    BY <2>2, <2>3
<1>. QED
  BY <1>1, <1>7, <1>8, <1>9

LEMMA KeptNext ==
  ASSUME NEW p \in Plans, NEW k \in Nat, NEW m \in Nat, k + m < Len(p), NEW t, NEW u, NEW v,
         u.st = t.st, u.reply = t.reply,
         Kept(u, t, p, k, m), Kept(v, u, p, k + m, 1)
  PROVE  Kept(v, t, p, k, m + 1)
<1>. DEFINE Takes(i, n) == \E j \in i + 1 .. i + n : p[j] = "take"
<1>1. Len(p) \in Nat
  BY DEF Plans
<1>2. ~Takes(k, m + 1) => ~Takes(k, m) /\ ~Takes(k + m, 1)
  OBVIOUS
<1>3. u.taken = t.taken /\ (~Takes(k, m) => u.got = t.got)
  BY <1>1 DEF Kept
<1>4. CASE (k + m) + 1 < Len(p) \/ t.st = "lost"
  <2>1. v.taken = u.taken /\ (~Takes(k + m, 1) => v.got = u.got)
    BY <1>4 DEF Kept
  <2>2. k + (m + 1) < Len(p) \/ t.st = "lost"
    BY <1>1, <1>4
  <2>. HIDE DEF Takes
  <2>3. v.taken = t.taken /\ (~Takes(k, m + 1) => v.got = t.got)
    BY <1>2, <1>3, <2>1
  <2>. QED
    BY <2>2, <2>3 DEF Kept, Takes
<1>5. CASE ~((k + m) + 1 < Len(p) \/ t.st = "lost")
  <2>1. /\ v.got = <<>>
        /\ (u.reply.ack # "OK" \/ (~Takes(k + m, 1) /\ u.got = <<>>)) => v.taken = <<>>
    BY <1>5 DEF Kept
  <2>2. ~(m + 1 = 0 \/ k + (m + 1) < Len(p) \/ t.st = "lost")
    BY <1>1, <1>5
  <2>. HIDE DEF Takes
  <2>3. (t.reply.ack # "OK" \/ (~Takes(k, m + 1) /\ t.got = <<>>)) => v.taken = <<>>
    BY <1>2, <1>3, <2>1
  <2>. QED
    BY <2>1, <2>2, <2>3 DEF Kept, Takes
<1>. QED
  BY <1>4, <1>5

\* dap_swj_run and dap_swd_read, while the target follows a plan.
LEMMA RunMoved ==
  ASSUME NEW w \in Wires, Pulses(w), NEW p \in Plans, NEW k \in Nat, At(w.target, p, k),
         NEW n \in Nat, k + n <= Len(p),
         Drives(w) => \A j \in k + 1 .. k + n : p[j] \notin {"high", "low"}
  PROVE  LET v == Run(w, n)
         IN  /\ Moved(v, w, p, k + n)
             /\ Len(v.in) = Len(w.in) + n
             /\ ~Drives(w) => \A j \in 1 .. n : v.in[Len(w.in) + j] = (p[k + j] # "low")
             /\ Kept(v.target, w.target, p, k, n)
<1>. DEFINE R(m) == Run(w, m)
            Reads(m) == /\ Len(R(m).in) = Len(w.in) + m
                        /\ ~Drives(w) =>
                              \A j \in 1 .. m : R(m).in[Len(w.in) + j] = (p[k + j] # "low")
            Good(m) == /\ Moved(R(m), w, p, k + m) /\ Reads(m)
                       /\ Kept(R(m).target, w.target, p, k, m)
            T == {m \in Nat : m <= n => Good(m)}
<1>0. Len(p) \in Nat /\ Len(w.in) \in Nat
  BY DEF Plans, Wires, BitString
<1>1. 0 \in T
  <2>1. R(0) = w
    BY RunNext
  <2>2. Moved(w, w, p, k + 0)
    BY DEF Moved, SamePins
  <2>3. Kept(w.target, w.target, p, k, 0)
    BY DEF Kept
  <2>4. Reads(0)
    BY <1>0, <2>1
  <2>. HIDE DEF R
  <2>. QED
    BY <2>1, <2>2, <2>3, <2>4
<1>2. ASSUME NEW m \in T PROVE m + 1 \in T
  <2>1. R(m + 1) = Clock(R(m))
    BY RunNext
  <2>2. m \in Nat /\ (m <= n => Good(m))
    OBVIOUS
  <2>3. ASSUME m + 1 <= n PROVE Good(m + 1)
    <3>. DEFINE v == R(m)
    <3>1. /\ Moved(v, w, p, k + m) /\ Reads(m) /\ Kept(v.target, w.target, p, k, m)
          /\ k + m \in Nat /\ k + m < Len(p)
      <4>1. /\ m \in Nat /\ n \in Nat /\ k \in Nat /\ Len(p) \in Nat
            /\ k + n <= Len(p) /\ m + 1 <= n
        BY <1>0, <2>2, <2>3
      <4>2. k + m \in Nat /\ k + m < Len(p) /\ m <= n
        BY ONLY <4>1
      <4>. QED
        BY <2>2, <4>2
    <3>2. /\ v \in Wires /\ SamePins(v, w) /\ At(v.target, p, k + m)
          /\ v.target.st = w.target.st /\ v.target.reply = w.target.reply
          /\ (Pulses(v) <=> Pulses(w)) /\ (Drives(v) <=> Drives(w))
      BY <3>1, PinsDecide DEF Moved
    <3>3. Drives(v) => p[(k + m) + 1] \notin {"high", "low"}
      <4>1. (k + m) + 1 \in k + 1 .. k + n
        BY <2>2, <2>3
      <4>. QED
        BY <3>2, <4>1
    <3>. HIDE DEF v, T, R
    <3>4. /\ Moved(Clock(v), v, p, (k + m) + 1)
          /\ Clock(v).in = Append(v.in, Line(v))
          /\ ~Drives(v) => Line(v) = (p[(k + m) + 1] # "low")
          /\ Kept(Clock(v).target, v.target, p, k + m, 1)
      BY <3>1, <3>2, <3>3, ClockMoved
    <3>5. (k + m) + 1 = k + (m + 1)
      BY <2>2
    <3>6. Moved(Clock(v), w, p, k + (m + 1))
      BY <3>1, <3>4, <3>5 DEF Moved, SamePins
    <3>7. Kept(Clock(v).target, w.target, p, k, m + 1)
      BY <2>2, <3>1, <3>2, <3>4, KeptNext
    <3>8. Reads(m + 1)
      <4>1. v.in \in BitString /\ Line(v) \in BOOLEAN
        BY <3>2, ClockFields DEF Wires
      <4>2. /\ Len(Clock(v).in) = Len(v.in) + 1
            /\ \A j \in 1 .. Len(v.in) : Clock(v).in[j] = v.in[j]
            /\ Clock(v).in[Len(v.in) + 1] = Line(v)
        BY <3>4, <4>1, Longer
      <4>3. Len(v.in) = Len(w.in) + m
        BY <3>1 DEF v
      <4>4. Len(Clock(v).in) = Len(w.in) + (m + 1)
        BY <1>0, <2>2, <4>2, <4>3
      <4>5. ASSUME ~Drives(w), NEW j \in 1 .. m + 1
            PROVE  Clock(v).in[Len(w.in) + j] = (p[k + j] # "low")
        <5>1. CASE j = m + 1
          <6>1. Len(w.in) + (m + 1) = Len(v.in) + 1
            <7>. DEFINE a == Len(w.in)
                        c == Len(v.in)
            <7>1. a \in Nat /\ m \in Nat /\ c = a + m
              BY <1>0, <2>2, <4>3
            <7>. HIDE DEF a, c
            <7>2. a + (m + 1) = c + 1
              BY ONLY <7>1
            <7>. QED
              BY <7>2 DEF a, c
          <6>2. Clock(v).in[Len(w.in) + (m + 1)] = (p[k + (m + 1)] # "low")
            BY <3>2, <3>4, <3>5, <4>2, <4>5, <6>1
          <6>. QED
            BY <5>1, <6>2
        <5>2. CASE j # m + 1
          <6>1. j \in 1 .. m /\ Len(w.in) + j \in 1 .. Len(v.in)
            BY <1>0, <2>2, <4>3, <5>2
          <6>2. v.in[Len(w.in) + j] = (p[k + j] # "low")
            BY <3>1, <4>5, <6>1 DEF v
          <6>. QED
            BY <4>2, <6>1, <6>2
        <5>. QED
          BY <5>1, <5>2
      <4>. QED
        BY <2>1, <4>4, <4>5 DEF v
    <3>. QED
      BY <2>1, <3>6, <3>7, <3>8 DEF v
  <2>. HIDE DEF Good, R
  <2>. QED
    BY <2>2, <2>3
<1>3. T \in SUBSET Nat
  OBVIOUS
<1>. HIDE DEF T, R
<1>4. T = Nat
  BY <1>1, <1>2, <1>3, Clocks!Induction
<1>5. Good(n)
  <2>. HIDE DEF Good
  <2>. QED
    BY <1>4 DEF T
<1>. QED
  BY <1>5 DEF R

\* Turning SWDIO round, and writing it, leave the rest of the wire alone.
LEMMA TurnFields ==
  ASSUME NEW w \in Wires
  PROVE  /\ TMS_in(w).target = w.target /\ TMS_out(w).target = w.target
         /\ (TMS_in(w).fought <=> w.fought) /\ (TMS_out(w).fought <=> w.fought)
         /\ TMS_in(w).level = w.level /\ TMS_out(w).level = w.level
         /\ TMS_in(w).in = w.in /\ TMS_out(w).in = w.in
         /\ (Pulses(TMS_in(w)) <=> Pulses(w)) /\ (Pulses(TMS_out(w)) <=> Pulses(w))
         /\ ~Drives(TMS_in(w)) /\ Drives(TMS_out(w))
<1>1. ASSUME NEW v \in {"in", "out"}
      PROVE  LET u == DoOps(w, <<Dir("SWDIO", v), Mode("SWDIO", v)>>)
             IN  /\ u.target = w.target /\ (u.fought <=> w.fought) /\ u.level = w.level
                 /\ u.in = w.in
                 /\ u.mode = [w.mode EXCEPT !["SWDIO"] = v]
                 /\ u.dir = [w.dir EXCEPT !["SWDIO"] = v]
  <2>. DEFINE t == Do(w, Dir("SWDIO", v))
              u == Do(t, Mode("SWDIO", v))
  <2>1. t = [w EXCEPT !.dir = Put(w.dir, "SWDIO", v)]
    BY PinDone
  <2>2. /\ t \in Wires /\ t.mode = w.mode /\ t.dir = [w.dir EXCEPT !["SWDIO"] = v]
        /\ t.target = w.target /\ t.fought = w.fought /\ t.level = w.level /\ t.in = w.in
    BY <2>1 DEF Wires, Shifted, Put
  <2>. HIDE DEF t
  <2>3. u = [t EXCEPT !.mode = Put(t.mode, "SWDIO", v)]
    BY PinDone
  <2>4. /\ u.mode = [t.mode EXCEPT !["SWDIO"] = v] /\ u.dir = t.dir
        /\ u.target = t.target /\ u.fought = t.fought /\ u.level = t.level /\ u.in = t.in
    BY <2>2, <2>3 DEF Wires, Put
  <2>5. DoOps(w, <<Dir("SWDIO", v), Mode("SWDIO", v)>>) = u
    BY TwoDone DEF t
  <2>. HIDE DEF u
  <2>. QED
    BY <2>2, <2>4, <2>5
<1>2. /\ w.mode \in [Pins -> {"in", "out"}] /\ w.dir \in [Shifted -> {"in", "out"}]
      /\ "SWDIO" \in Pins /\ "SWDIO" \in Shifted /\ "SWCLK" # "SWDIO"
  BY DEF Wires, Pins, Shifted
<1>3. ASSUME NEW v \in {"in", "out"}, NEW u,
             u.mode = [w.mode EXCEPT !["SWDIO"] = v], u.dir = [w.dir EXCEPT !["SWDIO"] = v]
      PROVE  (Pulses(u) <=> Pulses(w)) /\ (Drives(u) <=> v = "out")
  BY <1>2, <1>3 DEF Pulses, Drives
<1>4. TMS_in(w) = DoOps(w, <<Dir("SWDIO", "in"), Mode("SWDIO", "in")>>)
  BY DEF TMS_in, HAL_SWDIO_TMS_in
<1>5. TMS_out(w) = DoOps(w, <<Dir("SWDIO", "out"), Mode("SWDIO", "out")>>)
  BY DEF TMS_out, HAL_SWDIO_TMS_out
<1>. QED
  BY <1>1, <1>3, <1>4, <1>5

LEMMA LevelFields ==
  ASSUME NEW w \in Wires, NEW b \in BOOLEAN
  PROVE  /\ Level(w, b) \in Wires
         /\ Level(w, b).target = w.target /\ (Level(w, b).fought <=> w.fought)
         /\ Level(w, b).mode = w.mode /\ Level(w, b).dir = w.dir /\ Level(w, b).in = w.in
         /\ Level(w, b).level = b
         /\ (Pulses(Level(w, b)) <=> Pulses(w)) /\ (Drives(Level(w, b)) <=> Drives(w))
<1>1. /\ Level(w, b) \in Wires
      /\ Level(w, b).target = w.target /\ Level(w, b).fought = w.fought
      /\ Level(w, b).mode = w.mode /\ Level(w, b).dir = w.dir /\ Level(w, b).in = w.in
      /\ Level(w, b).level = b
  BY LevelTyped DEF Level, Wires
<1>. QED
  BY <1>1 DEF Pulses, Drives

(***************************************************************************)
(* A target that is lost.                                                  *)
(***************************************************************************)

\* It has no plan, has taken nothing and counted at most c ones, and the line was
\* never fought over.
LostWires(c) ==
    {w \in Wires : /\ w.target.st = "lost" /\ w.target.plan = <<>> /\ w.target.taken = <<>>
                   /\ w.target.ones <= c /\ ~w.fought}

LEMMA LostClock ==
  ASSUME NEW c \in Nat, c < ResetOnes, NEW w \in LostWires(c)
  PROVE  /\ c + 1 < ResetOnes => Clock(w) \in LostWires(c + 1)
         /\ (~Drives(w) \/ ~w.level) => Clock(w) \in LostWires(c)
         /\ SameLines(Clock(w), w)
         /\ Clock(w).in = Append(w.in, Line(w))
         /\ ~Drives(w) => Line(w)
<1>. DEFINE t == w.target
            n == IF Line(w) /\ Drives(w) THEN t.ones + 1 ELSE 0
<1>1. /\ w \in Wires /\ t \in Targets /\ t.st = "lost" /\ t.plan = <<>> /\ t.ones <= c
      /\ t.taken = <<>>
      /\ ~w.fought /\ t.ones \in Nat /\ Clock(w) \in Wires
  BY ClockTyped DEF LostWires, Wires, Targets
<1>2. /\ SameLines(Clock(w), w) /\ Line(w) \in BOOLEAN
      /\ Clock(w).in = Append(w.in, Line(w))
      /\ (Clock(w).fought <=> w.fought \/ (Drives(w) /\ Slot(w.target) \in {"high", "low"}))
      /\ Pulses(w) => Clock(w).target = Edge(t, Line(w), Drives(w))
      /\ ~Pulses(w) => Clock(w).target = t
  BY <1>1, ClockFields
<1>3. Slot(t) = "leave"
  BY <1>1 DEF Slot
<1>4. ~Clock(w).fought
  BY <1>1, <1>2, <1>3
<1>5. n \in Nat /\ n <= c + 1 /\ ((~Drives(w) \/ ~w.level) => n = 0)
  BY <1>1 DEF Line
<1>6. n < ResetOnes => Edge(t, Line(w), Drives(w)) = [t EXCEPT !.ones = n]
  BY <1>1, <1>5, WireAssumption DEF Edge
<1>. HIDE DEF n
<1>7. ASSUME NEW u, u = [t EXCEPT !.ones = n]
      PROVE  u.st = "lost" /\ u.plan = <<>> /\ u.taken = <<>> /\ u.ones = n
  BY <1>1, <1>7 DEF Targets
<1>8. n < ResetOnes => /\ Clock(w).target.st = "lost" /\ Clock(w).target.plan = <<>>
                       /\ Clock(w).target.taken = <<>>
                       /\ Clock(w).target.ones = n \/ Clock(w).target.ones = t.ones
  <2>1. CASE Pulses(w)
    BY <1>2, <1>6, <1>7, <2>1
  <2>2. CASE ~Pulses(w)
    BY <1>1, <1>2, <2>2
  <2>. QED
    BY <2>1, <2>2
<1>9. c + 1 < ResetOnes => Clock(w) \in LostWires(c + 1)
  <2>. SUFFICES ASSUME c + 1 < ResetOnes PROVE Clock(w) \in LostWires(c + 1)
    OBVIOUS
  <2>1. n < ResetOnes
    BY <1>5, WireAssumption
  <2>2. Clock(w).target.ones <= c + 1
    BY <1>1, <1>5, <1>8, <2>1
  <2>. QED
    BY <1>1, <1>4, <1>8, <2>1, <2>2 DEF LostWires
<1>10. (~Drives(w) \/ ~w.level) => Clock(w) \in LostWires(c)
  <2>. SUFFICES ASSUME ~Drives(w) \/ ~w.level PROVE Clock(w) \in LostWires(c)
    OBVIOUS
  <2>1. n < ResetOnes /\ n = 0
    BY <1>5, WireAssumption
  <2>2. Clock(w).target.ones <= c
    BY <1>1, <1>8, <2>1
  <2>. QED
    BY <1>1, <1>4, <1>8, <2>1, <2>2 DEF LostWires
<1>11. ~Drives(w) => Line(w)
  BY <1>3 DEF Line
<1>. QED
  BY <1>2, <1>9, <1>10, <1>11

\* Clocks on which the probe drives no ones.
LEMMA LostRun ==
  ASSUME NEW c \in Nat, c < ResetOnes, NEW w \in LostWires(c), ~Drives(w) \/ ~w.level,
         NEW n \in Nat
  PROVE  /\ Run(w, n) \in LostWires(c)
         /\ SameLines(Run(w, n), w)
<1>. DEFINE S == {x \in LostWires(c) : SameLines(x, w)}
<1>1. w \in S
  BY DEF SameLines, SamePins
<1>2. ASSUME NEW x \in S PROVE Clock(x) \in S
  <2>1. x \in LostWires(c) /\ SameLines(x, w)
    OBVIOUS
  <2>2. ~Drives(x) \/ ~x.level
    BY <2>1, PinsDecide DEF SameLines
  <2>3. Clock(x) \in LostWires(c) /\ SameLines(Clock(x), x)
    BY <2>1, <2>2, LostClock
  <2>. QED
    BY <2>1, <2>3 DEF SameLines, SamePins
<1>. HIDE DEF S
<1>3. Run(w, n) \in S
  BY <1>1, <1>2, Clocks!Stays DEF Run
<1>. QED
  BY <1>3 DEF S

LEMMA LostTurn ==
  ASSUME NEW c \in Nat, NEW w \in LostWires(c)
  PROVE  /\ TMS_in(w) \in LostWires(c) /\ TMS_out(w) \in LostWires(c)
         /\ [w EXCEPT !.in = <<>>] \in LostWires(c)
         /\ \A b \in BOOLEAN : Level(w, b) \in LostWires(c)
<1>1. w \in Wires
  BY DEF LostWires
<1>2. [w EXCEPT !.in = <<>>] \in LostWires(c)
  BY EmptyStrings DEF LostWires, Wires
<1>3. TMS_in(w) \in LostWires(c) /\ TMS_out(w) \in LostWires(c)
  <2>1. /\ TMS_in(w) \in Wires /\ TMS_out(w) \in Wires
        /\ TMS_in(w).target = w.target /\ TMS_out(w).target = w.target
        /\ (TMS_in(w).fought <=> w.fought) /\ (TMS_out(w).fought <=> w.fought)
    BY <1>1, TurnTyped, TurnFields
  <2>. QED
    BY <2>1 DEF LostWires
<1>4. ASSUME NEW b \in BOOLEAN PROVE Level(w, b) \in LostWires(c)
  <2>1. /\ Level(w, b) \in Wires
        /\ Level(w, b).target = w.target /\ (Level(w, b).fought <=> w.fought)
    BY <1>1, LevelFields
  <2>. QED
    BY <2>1 DEF LostWires
<1>. QED
  BY <1>2, <1>3, <1>4

\* Bits that are too few for a line reset.
LEMMA LostWritten ==
  ASSUME NEW w \in LostWires(0), NEW b \in BitString, Len(b) < ResetOnes
  PROVE  Write(w, b) \in LostWires(Len(b))
<1>. DEFINE B(k) == Bits!Iterated(w, b, k)
            T == {k \in Nat : k <= Len(b) => B(k) \in LostWires(k)}
<1>1. 0 \in T
  BY WrittenNone
<1>2. ASSUME NEW k \in T PROVE k + 1 \in T
  <2>1. B(k + 1) = Clock(Level(B(k), b[k + 1]))
    BY WrittenNext
  <2>2. k \in Nat /\ (k <= Len(b) => B(k) \in LostWires(k)) /\ Len(b) \in Nat
    BY DEF BitString
  <2>. HIDE DEF T, B
  <2>3. ASSUME k + 1 <= Len(b) PROVE B(k + 1) \in LostWires(k + 1)
    <3>1. b[k + 1] \in BOOLEAN
      BY <2>2, <2>3 DEF BitString
    <3>2. B(k) \in LostWires(k)
      BY <2>2, <2>3
    <3>4. Level(B(k), b[k + 1]) \in LostWires(k)
      BY <2>2, <3>1, <3>2, LostTurn
    <3>3. k + 1 < ResetOnes /\ k < ResetOnes
      BY <2>2, <2>3, WireAssumption
    <3>. QED
      BY <2>1, <2>2, <3>4, <3>3, LostClock
  <2>. QED
    BY <2>2, <2>3 DEF T
<1>3. T \in SUBSET Nat
  OBVIOUS
<1>. HIDE DEF T
<1>4. T = Nat
  BY <1>1, <1>2, <1>3, Bits!Induction
<1>5. Len(b) \in Nat
  BY DEF BitString
<1>. QED
  BY <1>4, <1>5 DEF T, Write

\* After an acknowledge that a target has given by chance, or after none.
LEMMA LostOperation ==
  ASSUME NEW w, NEW req \in BitString, NEW word \in BitString, Len(word) <= DataBits,
         NEW settings \in Settings, NEW idle \in Nat,
         Acknowledge(w, req, settings.trn) \in LostWires(0),
         ~Drives(Acknowledge(w, req, settings.trn))
  PROVE  LET res == dap_swd_operation(w, req, word, settings, idle)
         IN  /\ res.wire.target.st = "lost" /\ res.wire.target.taken = <<>>
             /\ ~res.wire.fought
             /\ Acknowledge(w, req, settings.trn).in \notin
                   {AckBits.OK, AckBits.WAIT, AckBits.FAULT} => res.ack = "PROTOCOL"
<1>. DEFINE w1 == Acknowledge(w, req, settings.trn)
            res == dap_swd_operation(w, req, word, settings, idle)
            L == LostWires(DataBits + 1)
            rnw == req[2]
<1>0. /\ settings.trn \in Nat /\ DataBits \in Nat /\ 1 \in Nat /\ 3 \in Nat /\ 0 \in Nat
      /\ DataBits + 1 \in Nat /\ settings.trn + DataBits + 1 \in Nat
      /\ settings.trn + (IF settings.phase THEN DataBits + 1 ELSE 0) \in Nat
      /\ TRUE \in BOOLEAN /\ FALSE \in BOOLEAN
      /\ 0 < ResetOnes /\ DataBits + 1 < ResetOnes
  BY PortAssumption, WireAssumption
<1>1. LostWires(0) \subseteq L
  BY <1>0 DEF LostWires, Wires, Targets
<1>2. ASSUME NEW x \in LostWires(0), ~Drives(x), NEW n \in Nat
      PROVE  Run(x, n) \in LostWires(0) /\ ~Drives(Run(x, n))
  <2>1. Run(x, n) \in LostWires(0) /\ SameLines(Run(x, n), x)
    BY <1>0, <1>2, LostRun
  <2>. QED
    BY <1>2, <2>1, PinsDecide DEF SameLines
<1>3. ASSUME NEW x \in LostWires(0), ~Drives(x), NEW n \in Nat
      PROVE  Read(x, n) \in LostWires(0) /\ ~Drives(Read(x, n))
  <2>. DEFINE y == [x EXCEPT !.in = <<>>]
  <2>1. y \in LostWires(0)
    BY <1>0, LostTurn
  <2>2. ~Drives(y)
    BY <1>3 DEF Drives, LostWires, Wires
  <2>. HIDE DEF y
  <2>3. Run(y, n) \in LostWires(0) /\ ~Drives(Run(y, n))
    BY <1>2, <2>1, <2>2
  <2>. QED
    BY <2>3 DEF Read, y
\* the last clocks, and those of a data phase that is not used
<1>4. ASSUME NEW x \in L, NEW n \in Nat PROVE Run(Level(x, FALSE), n) \in L
  <2>. DEFINE y == Level(x, FALSE)
  <2>1. y \in L
    BY <1>0, LostTurn
  <2>2. ~y.level
    BY <1>0, LevelFields DEF LostWires
  <2>. HIDE DEF y
  <2>3. Run(y, n) \in L
    BY <1>0, <2>1, <2>2, LostRun
  <2>. QED
    BY <2>3 DEF y
<1>5. w1 \in LostWires(0) /\ ~Drives(w1)
  OBVIOUS
<1>. HIDE DEF w1, L
<1>6. ReadPhase(w1, settings, idle).wire \in L
  <2>. DEFINE data == Read(w1, DataBits)
              parity == Read(data, 1)
              turned == TMS_out(Run(parity, settings.trn))
  <2>1. ReadPhase(w1, settings, idle).wire = Run(Level(turned, FALSE), idle)
    BY DEF ReadPhase, Result
  <2>2. data \in LostWires(0) /\ ~Drives(data)
    BY <1>0, <1>3, <1>5
  <2>3. parity \in LostWires(0) /\ ~Drives(parity)
    BY <1>0, <1>3, <2>2
  <2>. HIDE DEF parity
  <2>4. Run(parity, settings.trn) \in LostWires(0)
    BY <1>0, <1>2, <2>3
  <2>5. turned \in L
    BY <1>0, <1>1, <2>4, LostTurn
  <2>. HIDE DEF turned
  <2>. QED
    BY <1>4, <2>1, <2>5
<1>7. WritePhase(w1, word, settings, idle).wire \in L
  <2>. DEFINE bits == Append(word, Odd(word))
              turned == TMS_out(Run(w1, settings.trn))
              data == Write(turned, bits)
  <2>1. WritePhase(w1, word, settings, idle).wire = Run(Level(data, FALSE), idle)
    BY DEF WritePhase, Result
  <2>2. /\ bits \in BitString /\ Len(bits) \in Nat /\ Len(bits) <= DataBits + 1
        /\ Len(bits) < ResetOnes
    <3>1. bits \in BitString /\ Len(bits) = Len(word) + 1 /\ Len(word) \in Nat
      BY OddTyped, Longer
    <3>. HIDE DEF bits
    <3>. QED
      BY <1>0, <3>1, WireAssumption
  <2>. HIDE DEF bits
  <2>3. Run(w1, settings.trn) \in LostWires(0)
    BY <1>0, <1>2, <1>5
  <2>4. turned \in LostWires(0)
    BY <1>0, <2>3, LostTurn
  <2>. HIDE DEF turned
  <2>5. data \in LostWires(Len(bits))
    BY <2>2, <2>4, LostWritten
  <2>. HIDE DEF data
  <2>6. data \in L
    <3>1. ASSUME NEW i \in Int, i <= Len(bits) PROVE i <= DataBits + 1
      BY <1>0, <2>2, <3>1
    <3>. QED
      BY <2>5, <3>1 DEF L, LostWires, Wires, Targets
  <2>. QED
    BY <1>4, <2>1, <2>6
<1>8. ASSUME NEW ack PROVE Declined(w1, ack, rnw, settings).wire \in L
  <2>. DEFINE n == settings.trn + IF settings.phase /\ rnw THEN DataBits + 1 ELSE 0
              turned == TMS_out(Run(w1, n))
  <2>1. n \in Nat
    BY <1>0
  <2>2. Declined(w1, ack, rnw, settings).wire \in
           {turned, Run(Level(turned, FALSE), DataBits + 1)}
    BY DEF Declined, Result
  <2>. HIDE DEF n
  <2>3. turned \in L
    BY <1>0, <1>1, <1>2, <1>5, <2>1, LostTurn
  <2>. HIDE DEF turned
  <2>. QED
    BY <1>0, <1>4, <2>2, <2>3
<1>9. Result(Run(w1, settings.trn + DataBits + 1), "PROTOCOL", <<>>).wire \in L
  <2>1. Run(w1, settings.trn + DataBits + 1) \in L
    BY <1>0, <1>1, <1>2, <1>5
  <2>. QED
    BY <2>1 DEF Result
<1>10. \E d : d.wire \in L /\ EndsAs(res, d)
  BY <1>6, <1>7, <1>8, <1>9, OperationPieces, Zenon DEF w1
<1>11. res.wire \in L
  <2>1. ASSUME NEW x \in L PROVE Level(x, TRUE) \in L
    BY <1>0, LostTurn DEF L
  <2>. QED
    BY <1>10, <2>1 DEF EndsAs
<1>12. w1.in \notin {AckBits.OK, AckBits.WAIT, AckBits.FAULT} => res.ack = "PROTOCOL"
  <2>1. w1.in \notin {AckBits.OK, AckBits.WAIT, AckBits.FAULT} =>
           EndsAs(res, Result(Run(w1, settings.trn + DataBits + 1), "PROTOCOL", <<>>))
    BY OperationPieces, Zenon DEF w1
  <2>. QED
    BY <2>1 DEF EndsAs, Result
<1>. QED
  BY <1>11, <1>12 DEF L, LostWires, w1

LEMMA ReadMoved ==
  ASSUME NEW w \in Wires, Pulses(w), ~Drives(w), NEW p \in Plans, NEW k \in Nat,
         At(w.target, p, k), NEW n \in Nat, k + n <= Len(p)
  PROVE  LET v == Read(w, n)
         IN  /\ Moved(v, w, p, k + n)
             /\ Len(v.in) = n
             /\ \A j \in 1 .. n : v.in[j] = (p[k + j] # "low")
             /\ Kept(v.target, w.target, p, k, n)
<1>. DEFINE x == [w EXCEPT !.in = <<>>]
<1>1. /\ x \in Wires /\ x.mode = w.mode /\ x.dir = w.dir /\ x.target = w.target
      /\ (x.fought <=> w.fought) /\ x.in = <<>> /\ Len(x.in) = 0
  BY EmptyStrings DEF Wires
<1>2. (Pulses(x) <=> Pulses(w)) /\ (Drives(x) <=> Drives(w))
  BY <1>1, PinsDecide DEF SamePins
<1>3. Read(w, n) = Run(x, n)
  BY DEF Read
<1>. HIDE DEF x
<1>4. LET v == Run(x, n)
      IN  /\ Moved(v, x, p, k + n)
          /\ Len(v.in) = Len(x.in) + n
          /\ ~Drives(x) => \A j \in 1 .. n : v.in[Len(x.in) + j] = (p[k + j] # "low")
          /\ Kept(v.target, x.target, p, k, n)
  BY <1>1, <1>2, RunMoved
<1>. DEFINE v == Run(x, n)
<1>. HIDE DEF v
<1>5. Moved(v, w, p, k + n)
  BY <1>1, <1>4 DEF Moved, SamePins, v
<1>6. Len(v.in) = n /\ \A j \in 1 .. n : v.in[j] = (p[k + j] # "low")
  BY <1>1, <1>2, <1>4 DEF v
<1>7. Kept(v.target, w.target, p, k, n)
  BY <1>1, <1>4 DEF v
<1>. QED
  BY <1>3, <1>5, <1>6, <1>7 DEF v

\* dap_swd_write, while the target follows a plan.
LEMMA WriteMoved ==
  ASSUME NEW w \in Wires, Pulses(w), NEW p \in Plans, NEW k \in Nat, At(w.target, p, k),
         NEW b \in BitString, k + Len(b) <= Len(p),
         Drives(w) => \A j \in k + 1 .. k + Len(b) : p[j] \notin {"high", "low"}
  PROVE  /\ Moved(Write(w, b), w, p, k + Len(b))
         /\ Kept(Write(w, b).target, w.target, p, k, Len(b))
<1>. DEFINE B(m) == Bits!Iterated(w, b, m)
            Good(m) == /\ Moved(B(m), w, p, k + m)
                       /\ Kept(B(m).target, w.target, p, k, m)
            T == {m \in Nat : m <= Len(b) => Good(m)}
<1>0. Len(p) \in Nat /\ Len(b) \in Nat /\ \A m \in 1 .. Len(b) : b[m] \in BOOLEAN
  BY DEF Plans, BitString
<1>1. 0 \in T
  <2>1. B(0) = w
    BY WrittenNone
  <2>2. Moved(w, w, p, k + 0)
    BY DEF Moved, SamePins
  <2>3. Kept(w.target, w.target, p, k, 0)
    BY DEF Kept
  <2>. HIDE DEF B
  <2>. QED
    BY <2>1, <2>2, <2>3
<1>2. ASSUME NEW m \in T PROVE m + 1 \in T
  <2>1. B(m + 1) = Clock(Level(B(m), b[m + 1]))
    BY WrittenNext
  <2>2. m \in Nat /\ (m <= Len(b) => Good(m))
    OBVIOUS
  <2>3. ASSUME m + 1 <= Len(b) PROVE Good(m + 1)
    <3>. DEFINE v == B(m)
                y == Level(v, b[m + 1])
    <3>. HIDE DEF B, T
    <3>1. /\ Moved(v, w, p, k + m) /\ Kept(v.target, w.target, p, k, m)
          /\ k + m \in Nat /\ k + m < Len(p) /\ b[m + 1] \in BOOLEAN
      BY <1>0, <2>2, <2>3
    <3>. HIDE DEF v
    <3>2. /\ v \in Wires /\ SamePins(v, w) /\ At(v.target, p, k + m)
          /\ v.target.st = w.target.st /\ v.target.reply = w.target.reply
          /\ (Pulses(v) <=> Pulses(w)) /\ (Drives(v) <=> Drives(w))
      BY <3>1, PinsDecide DEF Moved
    <3>3. /\ y \in Wires /\ y.target = v.target /\ (y.fought <=> v.fought)
          /\ SamePins(y, v) /\ (Pulses(y) <=> Pulses(v)) /\ (Drives(y) <=> Drives(v))
      BY <3>1, <3>2, LevelFields DEF SamePins
    <3>. HIDE DEF y
    <3>4. Drives(y) => p[(k + m) + 1] \notin {"high", "low"}
      <4>1. (k + m) + 1 \in k + 1 .. k + Len(b)
        BY <1>0, <2>2, <2>3
      <4>. QED
        BY <3>2, <3>3, <4>1
    <3>5. /\ Moved(Clock(y), y, p, (k + m) + 1)
          /\ Kept(Clock(y).target, y.target, p, k + m, 1)
      BY <3>1, <3>2, <3>3, <3>4, ClockMoved
    <3>6. (k + m) + 1 = k + (m + 1)
      BY <2>2
    <3>7. Moved(Clock(y), w, p, k + (m + 1))
      BY <3>1, <3>3, <3>5, <3>6 DEF Moved, SamePins
    <3>8. Kept(Clock(y).target, w.target, p, k, m + 1)
      BY <2>2, <3>1, <3>2, <3>3, <3>5, KeptNext
    <3>. QED
      BY <2>1, <3>7, <3>8 DEF v, y
  <2>. HIDE DEF Good, B
  <2>. QED
    BY <2>2, <2>3
<1>3. T \in SUBSET Nat
  OBVIOUS
<1>. HIDE DEF T, B
<1>4. T = Nat
  BY <1>1, <1>2, <1>3, Bits!Induction
<1>5. Good(Len(b))
  <2>. HIDE DEF Good
  <2>. QED
    BY <1>0, <1>4 DEF T
<1>. QED
  BY <1>5 DEF Write, B

\* The plan is over.
LEMMA AtEnd ==
  ASSUME NEW t \in Targets, NEW p \in Plans, At(t, p, Len(p))
  PROVE  t.plan = <<>>
<1>1. t.plan \in Seq(Slots) /\ Len(t.plan) = 0
  BY DEF Targets, Plans, At
<1>2. ASSUME NEW x \in Seq(Slots), Len(x) = 0 PROVE x = <<>>
  BY <1>2
<1>. QED
  BY <1>1, <1>2

LEMMA AtStart ==
  ASSUME NEW t \in Targets
  PROVE  At(t, t.plan, 0)
BY DEF Targets, Plans, At

LEMMA Concat ==
  /\ \A a \in BitString, b \in BitString :
        /\ a \o b \in BitString /\ Len(a \o b) = Len(a) + Len(b)
        /\ \A j \in 1 .. Len(a) : (a \o b)[j] = a[j]
        /\ \A j \in 1 .. Len(b) : (a \o b)[Len(a) + j] = b[j]
  /\ \A a \in Plans, b \in Plans :
        /\ a \o b \in Plans /\ Len(a \o b) = Len(a) + Len(b)
        /\ \A j \in 1 .. Len(a) : (a \o b)[j] = a[j]
        /\ \A j \in 1 .. Len(b) : (a \o b)[Len(a) + j] = b[j]
<1>1. ASSUME NEW a \in BitString, NEW b \in BitString
      PROVE  /\ a \o b \in BitString /\ Len(a \o b) = Len(a) + Len(b)
             /\ \A j \in 1 .. Len(a) : (a \o b)[j] = a[j]
             /\ \A j \in 1 .. Len(b) : (a \o b)[Len(a) + j] = b[j]
  BY DEF BitString
<1>2. ASSUME NEW a \in Plans, NEW b \in Plans
      PROVE  /\ a \o b \in Plans /\ Len(a \o b) = Len(a) + Len(b)
             /\ \A j \in 1 .. Len(a) : (a \o b)[j] = a[j]
             /\ \A j \in 1 .. Len(b) : (a \o b)[Len(a) + j] = b[j]
  BY DEF Plans
<1>. QED
  BY <1>1, <1>2

LEMMA Lengths ==
  /\ \A a \in BitString : Len(a) \in Nat
  /\ \A a \in Plans : Len(a) \in Nat
BY DEF BitString, Plans

\* What the probe sends first.
IsHeader(h, req) ==
    /\ h \in BitString /\ Len(h) = 8
    /\ h[1] = TRUE /\ h[3] = req[2]
    /\ \A j \in 1 .. 4 : h[j + 1] = req[j]
    /\ h[6] = Odd(req) /\ h[7] = FALSE /\ h[8] = TRUE

\* dap_swd_operation as far as the acknowledge.
Asked(w, h, trn) == Read(Run(TMS_in(Write(w, h)), trn), 3)

LEMMA AcknowledgePieces ==
  ASSUME NEW w, NEW req \in BitString, Len(req) = 4, NEW trn
  PROVE  \E h : IsHeader(h, req) /\ Acknowledge(w, req, trn) = Asked(w, h, trn)
<1>. DEFINE par == Odd(req)
            start == <<TRUE>>
            stop == <<par, FALSE, TRUE>>
            header == start \o req \o stop
<1>1. header \in BitString
  BY HeaderBits
<1>2. Acknowledge(w, req, trn) = Asked(w, header, trn)
  BY DEF Acknowledge, Asked
<1>3. par \in BOOLEAN
  BY OddTyped
<1>. HIDE DEF par
<1>4. /\ start \in BitString /\ Len(start) = 1 /\ start[1] = TRUE
      /\ stop \in BitString /\ Len(stop) = 3
      /\ stop[1] = par /\ stop[2] = FALSE /\ stop[3] = TRUE
  BY <1>3 DEF BitString
<1>. DEFINE first == start \o req
<1>. HIDE DEF start, stop
<1>5. /\ first \in BitString /\ Len(first) = 5
      /\ first[1] = TRUE
      /\ \A j \in 1 .. 4 : first[j + 1] = req[j]
  <2>1. /\ first \in BitString /\ Len(first) = Len(start) + Len(req)
        /\ \A j \in 1 .. Len(start) : first[j] = start[j]
        /\ \A j \in 1 .. Len(req) : first[Len(start) + j] = req[j]
    BY <1>4, Concat
  <2>. HIDE DEF first
  <2>2. ASSUME NEW j \in 1 .. 4 PROVE first[j + 1] = req[j]
    BY <1>4, <2>1
  <2>. QED
    BY <1>4, <2>1, <2>2
<1>6. /\ Len(header) = 8
      /\ \A j \in 1 .. 5 : header[j] = first[j]
      /\ \A j \in 1 .. 3 : header[5 + j] = stop[j]
  <2>. HIDE DEF first
  <2>1. /\ Len(first \o stop) = Len(first) + Len(stop)
        /\ \A j \in 1 .. Len(first) : (first \o stop)[j] = first[j]
        /\ \A j \in 1 .. Len(stop) : (first \o stop)[Len(first) + j] = stop[j]
    BY <1>4, <1>5, Concat
  <2>2. header = first \o stop
    BY DEF first
  <2>. HIDE DEF header
  <2>. QED
    BY <1>4, <1>5, <2>1, <2>2
<1>. HIDE DEF header, first
<1>7. header[1] = TRUE /\ \A j \in 1 .. 4 : header[j + 1] = req[j]
  <2>1. ASSUME NEW j \in 1 .. 4 PROVE header[j + 1] = req[j]
    <3>1. j + 1 \in 1 .. 5
      OBVIOUS
    <3>. QED
      BY <1>5, <1>6, <3>1
  <2>. QED
    BY <1>5, <1>6, <2>1
<1>8. header[6] = par /\ header[7] = FALSE /\ header[8] = TRUE
  <2>1. header[5 + 1] = stop[1] /\ header[5 + 2] = stop[2] /\ header[5 + 3] = stop[3]
    BY <1>6
  <2>. QED
    BY <1>4, <2>1
<1>9. header[3] = req[2]
  <2>1. header[2 + 1] = req[2]
    BY <1>7
  <2>. QED
    BY <2>1
<1>10. IsHeader(header, req)
  BY <1>1, <1>6, <1>7, <1>8, <1>9 DEF IsHeader, header, start, stop, par
<1>. QED
  BY <1>2, <1>10 DEF header, start, stop, par

\* The plan of a target that is out of step: to leave the line during header and
\* turn, and then, by chance, an acknowledge.
LEMMA ChancePlan ==
  ASSUME NEW trn \in Nat \ {0}, NEW tail \in Plans
  PROVE  LET p == Leave(8 + trn) \o tail
         IN  /\ p \in Plans /\ Len(p) = 8 + trn + Len(tail)
             /\ \A j \in 1 .. 8 + trn : p[j] = "leave"
             /\ \A j \in 1 .. Len(tail) : p[8 + trn + j] = tail[j]
<1>. DEFINE a == Leave(8 + trn)
<1>1. a \in Plans /\ Len(a) = 8 + trn /\ \A j \in 1 .. 8 + trn : a[j] = "leave"
  BY PlansTyped
<1>. HIDE DEF a
<1>2. /\ (a \o tail) \in Plans /\ Len(a \o tail) = Len(a) + Len(tail)
      /\ \A j \in 1 .. Len(a) : (a \o tail)[j] = a[j]
      /\ \A j \in 1 .. Len(tail) : (a \o tail)[Len(a) + j] = tail[j]
  BY <1>1, Concat
<1>. QED
  BY <1>1, <1>2 DEF a

LEMMA LostRead ==
  ASSUME NEW w \in LostWires(0), ~Drives(w), NEW n \in Nat
  PROVE  /\ Read(w, n) \in LostWires(0) /\ ~Drives(Read(w, n))
         /\ Len(Read(w, n).in) = n /\ \A j \in 1 .. n : Read(w, n).in[j]
<1>. DEFINE x == [w EXCEPT !.in = <<>>]
            R(m) == Run(x, m)
            Good(v, m) == /\ v \in LostWires(0) /\ ~Drives(v)
                          /\ Len(v.in) = m /\ \A j \in 1 .. m : v.in[j]
            T == {m \in Nat : Good(R(m), m)}
<1>0. 0 \in Nat /\ 0 < ResetOnes /\ Read(w, n) = R(n)
  BY WireAssumption DEF Read
<1>1. x \in LostWires(0)
  BY <1>0, LostTurn
<1>2. ~Drives(x) /\ x.in = <<>>
  BY DEF Drives, LostWires, Wires
<1>. HIDE DEF x
<1>3. 0 \in T
  <2>1. R(0) = x
    BY RunNext
  <2>2. Len(x.in) = 0
    BY <1>2
  <2>. HIDE DEF R
  <2>. QED
    BY <1>1, <1>2, <2>1, <2>2
<1>4. ASSUME NEW m \in T PROVE m + 1 \in T
  <2>1. R(m + 1) = Clock(R(m))
    BY RunNext
  <2>2. m \in Nat /\ Good(R(m), m)
    OBVIOUS
  <2>. DEFINE v == R(m)
  <2>. HIDE DEF T, R
  <2>3. v \in LostWires(0) /\ ~Drives(v) /\ Len(v.in) = m /\ \A j \in 1 .. m : v.in[j]
    BY <2>2
  <2>. HIDE DEF v
  <2>4. /\ Clock(v) \in LostWires(0) /\ SameLines(Clock(v), v)
        /\ Clock(v).in = Append(v.in, Line(v)) /\ Line(v)
    BY <1>0, <2>3, LostClock
  <2>5. ~Drives(Clock(v))
    BY <2>3, <2>4, PinsDecide DEF SameLines
  <2>6. v.in \in BitString /\ Line(v) \in BOOLEAN
    BY <2>3, ClockFields DEF LostWires, Wires
  <2>7. /\ Len(Clock(v).in) = m + 1
        /\ \A j \in 1 .. m : Clock(v).in[j] = v.in[j]
        /\ Clock(v).in[m + 1] = Line(v)
    <3>1. ASSUME NEW a \in BitString, NEW y \in BOOLEAN, Len(a) = m
          PROVE  /\ Len(Append(a, y)) = m + 1
                 /\ \A j \in 1 .. m : Append(a, y)[j] = a[j]
                 /\ Append(a, y)[m + 1] = y
      BY <3>1, Longer
    <3>2. LET a == Append(v.in, Line(v))
          IN  Len(a) = m + 1 /\ (\A j \in 1 .. m : a[j] = v.in[j]) /\ a[m + 1] = Line(v)
      BY <2>3, <2>6, <3>1
    <3>. QED
      BY <2>4, <3>2
  <2>8. \A j \in 1 .. m + 1 : Clock(v).in[j]
    <3>1. ASSUME NEW j \in 1 .. m + 1 PROVE Clock(v).in[j]
      <4>1. j \in 1 .. m \/ j = m + 1
        BY <2>2
      <4>. QED
        BY <2>3, <2>4, <2>7, <4>1
    <3>. QED
      BY <3>1
  <2>9. Good(R(m + 1), m + 1)
    BY <2>1, <2>4, <2>5, <2>7, <2>8 DEF v
  <2>. HIDE DEF Good
  <2>. QED
    BY <2>2, <2>9 DEF T
<1>5. T \in SUBSET Nat
  OBVIOUS
<1>. HIDE DEF T, R
<1>6. T = Nat
  BY <1>3, <1>4, <1>5, Clocks!Induction
<1>7. Good(R(n), n)
  <2>. HIDE DEF Good
  <2>. QED
    BY <1>6 DEF T
<1>. QED
  BY <1>0, <1>7

\* A target that is out of step, and gives an acknowledge by chance or none.
LEMMA ChanceAcknowledge ==
  ASSUME NEW w \in Wires, Pulses(w), ~w.fought,
         w.target.st = "lost", w.target.ones = 0, w.target.taken = <<>>,
         NEW tail,
         tail = <<>> \/ \E ack \in {"OK", "WAIT", "FAULT"} : tail = Driven(AckBits[ack]),
         NEW trn \in Nat \ {0}, w.target.plan = Leave(8 + trn) \o tail,
         NEW req \in BitString, Len(req) = 4
  PROVE  Acknowledge(w, req, trn) \in LostWires(0) /\ ~Drives(Acknowledge(w, req, trn))
<1>. DEFINE p == Leave(8 + trn) \o tail
<1>1. tail \in Plans /\ Len(tail) \in {0, 3}
  <2>1. CASE tail = <<>>
    BY <2>1, EmptyStrings
  <2>2. ASSUME NEW ack \in {"OK", "WAIT", "FAULT"}, tail = Driven(AckBits[ack])
        PROVE  tail \in Plans /\ Len(tail) = 3
    BY <2>2, AcksTyped, PlansTyped
  <2>. QED
    BY <2>1, <2>2
<1>2. /\ p \in Plans /\ Len(p) = 8 + trn + Len(tail)
      /\ \A j \in 1 .. 8 + trn : p[j] = "leave"
  <2>1. tail \in Plans
    BY <1>1
  <2>. QED
    BY <2>1, ChancePlan, ZenonT(30)
<1>3. w.target \in Targets /\ At(w.target, p, 0)
  BY AtStart DEF Wires
<1>. HIDE DEF p
<1>4. PICK header : IsHeader(header, req) /\ Acknowledge(w, req, trn) = Asked(w, header, trn)
  BY AcknowledgePieces
<1>. DEFINE w1 == Write(w, header)
            w2 == TMS_in(w1)
            w3 == Run(w2, trn)
<1>5. Moved(w1, w, p, 8) /\ w1.target.taken = <<>>
  <2>1. \A j \in 0 + 1 .. 0 + Len(header) : p[j] \notin {"high", "low"}
    <3>1. ASSUME NEW j \in 0 + 1 .. 0 + Len(header) PROVE p[j] = "leave"
      <4>1. j \in 1 .. 8 + trn
        BY <1>4 DEF IsHeader
      <4>. QED
        BY <1>2, <4>1
    <3>. QED
      BY <3>1
  <2>2. 0 \in Nat /\ 0 + Len(header) <= Len(p)
    BY <1>1, <1>2, <1>4 DEF IsHeader
  <2>3. /\ Moved(w1, w, p, 0 + Len(header))
        /\ Kept(w1.target, w.target, p, 0, Len(header))
    BY <1>2, <1>3, <1>4, <2>1, <2>2, WriteMoved DEF IsHeader
  <2>4. 0 + Len(header) = 8
    BY <1>4 DEF IsHeader
  <2>5. (8 = 0 \/ 0 + 8 < Len(p) \/ w.target.st = "lost") => w1.target.taken = w.target.taken
    BY <2>3, <2>4 DEF Kept
  <2>. QED
    BY <2>3, <2>4, <2>5
<1>. HIDE DEF w1
<1>6. /\ w2 \in Wires /\ Pulses(w2) /\ ~Drives(w2) /\ ~w2.fought
      /\ At(w2.target, p, 8) /\ w2.target.st = "lost" /\ w2.target.ones = 0
      /\ w2.target.taken = <<>>
  BY <1>5, TurnTyped, TurnFields, PinsDecide DEF Moved
<1>. HIDE DEF w2
<1>7. Moved(w3, w2, p, 8 + trn) /\ w3.target.taken = <<>>
  <2>1. 8 \in Nat /\ 8 + trn <= Len(p) /\ trn \in Nat
    BY <1>1, <1>2
  <2>2. /\ Moved(w3, w2, p, 8 + trn)
        /\ Kept(w3.target, w2.target, p, 8, trn)
    BY <1>2, <1>6, <2>1, RunMoved
  <2>. QED
    BY <1>6, <2>2 DEF Kept
<1>. HIDE DEF w3
<1>8. /\ w3 \in Wires /\ Pulses(w3) /\ ~Drives(w3) /\ ~w3.fought
      /\ At(w3.target, p, 8 + trn) /\ w3.target.st = "lost" /\ w3.target.ones = 0
      /\ w3.target \in Targets
  BY <1>6, <1>7, PinsDecide DEF Moved, Wires
<1>9. Acknowledge(w, req, trn) = Read(w3, 3)
  BY <1>4 DEF Asked, w1, w2, w3
<1>10. CASE Len(tail) = 0
  <2>1. 8 + trn = Len(p)
    BY <1>2, <1>10
  <2>2. w3.target.plan = <<>>
    BY <1>2, <1>8, <2>1, AtEnd
  <2>3. w3 \in LostWires(0)
    BY <1>7, <1>8, <2>2 DEF LostWires
  <2>. QED
    BY <1>8, <1>9, <2>3, LostRead
<1>11. CASE Len(tail) = 3
  <2>. DEFINE v == Read(w3, 3)
  <2>1. 8 + trn \in Nat /\ 3 \in Nat /\ (8 + trn) + 3 = Len(p)
    BY <1>2, <1>11
  <2>2. /\ Moved(v, w3, p, (8 + trn) + 3)
        /\ Kept(v.target, w3.target, p, 8 + trn, 3)
    BY <1>2, <1>8, <2>1, ReadMoved
  <2>. HIDE DEF v
  <2>3. v.target.taken = <<>>
    BY <1>7, <1>8, <2>2 DEF Kept
  <2>4. /\ v \in Wires /\ ~Drives(v) /\ ~v.fought /\ v.target.st = "lost"
        /\ v.target.ones = 0 /\ At(v.target, p, Len(p)) /\ v.target \in Targets
    BY <1>8, <2>1, <2>2, PinsDecide DEF Moved, Wires
  <2>5. v.target.plan = <<>>
    BY <1>2, <2>4, AtEnd
  <2>6. v \in LostWires(0)
    BY <2>3, <2>4, <2>5 DEF LostWires
  <2>. QED
    BY <1>9, <2>4, <2>6 DEF v
<1>. QED
  BY <1>1, <1>10, <1>11

\* Without a clock the target does nothing.
LEMMA StillOperation ==
  ASSUME NEW w \in Wires, ~Pulses(w), ~w.fought, Slot(w.target) = "leave",
         NEW req \in BitString, NEW word \in BitString,
         NEW settings \in Settings, NEW idle \in Nat
  PROVE  LET res == dap_swd_operation(w, req, word, settings, idle)
         IN  res.wire.target = w.target /\ ~res.wire.fought
<1>. DEFINE S == {x \in Wires : ~Pulses(x) /\ ~x.fought /\ x.target = w.target}
            res == dap_swd_operation(w, req, word, settings, idle)
<1>1. w \in S
  OBVIOUS
<1>2. ASSUME NEW x \in S
      PROVE  /\ Clock(x) \in S /\ TMS_in(x) \in S /\ TMS_out(x) \in S
             /\ [x EXCEPT !.in = <<>>] \in S
             /\ \A b \in BOOLEAN : Level(x, b) \in S
  <2>1. x \in Wires /\ ~Pulses(x) /\ ~x.fought /\ x.target = w.target
    OBVIOUS
  <2>2. Clock(x) \in S
    <3>1. /\ Clock(x) \in Wires /\ SameLines(Clock(x), x) /\ Clock(x).target = x.target
          /\ ~Clock(x).fought
      BY <2>1, ClockTyped, ClockFields
    <3>2. ~Pulses(Clock(x))
      BY <2>1, <3>1, PinsDecide DEF SameLines
    <3>. QED
      BY <2>1, <3>1, <3>2
  <2>3. TMS_in(x) \in S /\ TMS_out(x) \in S
    BY <2>1, TurnTyped, TurnFields
  <2>4. [x EXCEPT !.in = <<>>] \in S
    <3>. DEFINE y == [x EXCEPT !.in = <<>>]
    <3>1. /\ y \in Wires /\ y.mode = x.mode /\ y.dir = x.dir /\ y.target = x.target
          /\ y.fought = x.fought
      BY <2>1, EmptyStrings DEF Wires
    <3>. HIDE DEF y
    <3>2. ~Pulses(y)
      BY <2>1, <3>1, PinsDecide DEF SamePins
    <3>3. y \in S
      BY <2>1, <3>1, <3>2
    <3>. QED
      BY <3>3 DEF y
  <2>5. \A b \in BOOLEAN : Level(x, b) \in S
    BY <2>1, LevelFields
  <2>. QED
    BY <2>2, <2>3, <2>4, <2>5
<1>. HIDE DEF S
<1>3. res.wire \in S
  BY <1>1, <1>2, OperationKeeps
<1>. HIDE DEF res
<1>4. res.wire.target = w.target /\ ~res.wire.fought
  BY <1>3 DEF S
<1>. QED
  BY <1>4 DEF res

\* The wire between two requests.
LEMMA WireFields ==
  ASSUME TypeOK, NEW t \in Targets
  PROVE  /\ Wire(t) \in Wires /\ Wire(t).target = t /\ ~Wire(t).fought
         /\ Wire(t).mode = mode /\ Wire(t).dir = dir
<1>1. mode \in [Pins -> {"in", "out"}] /\ dir \in [Shifted -> {"in", "out"}]
  BY DEF TypeOK
<1>. QED
  BY <1>1, EmptyStrings DEF Wire, Wires

\* An operation on a target that is out of step: it may answer by chance, and nobody
\* fights over the line.
LEMMA UnlinkedOperation ==
  ASSUME TypeOK, target \in Targets, dap_swd \in Settings,
         NEW req \in BitString, Len(req) = 4, NEW word \in BitString, Len(word) <= DataBits,
         NEW idle \in Nat, NEW r, r.ack \in {"OK", "WAIT", "FAULT", "none"}, ~Linked
  PROVE  LET res == dap_swd_operation(Wire(Ready(r)), req, word, dap_swd, idle)
         IN  res.wire \in Wires /\ res.wire.target.st = "lost" /\ ~res.wire.fought
<1>. DEFINE trn == dap_swd.trn
            tail == IF r.ack = "none" THEN <<>> ELSE Driven(AckBits[r.ack])
            p == Leave(8 + trn) \o tail
            t == Ready(r)
            w == Wire(t)
<1>1. trn \in Nat \ {0} /\ target.settings \in Settings
  BY PortAssumption DEF Targets
<1>2. \/ tail = <<>>
      \/ \E ack \in {"OK", "WAIT", "FAULT"} : tail = Driven(AckBits[ack])
  <2>1. CASE r.ack = "none"
    BY <2>1
  <2>2. CASE r.ack \in {"OK", "WAIT", "FAULT"}
    BY <2>2
  <2>. QED
    BY <2>1, <2>2
<1>3. t = [Target(target.settings) EXCEPT !.plan = p]
  BY DEF Ready
<1>. HIDE DEF tail
<1>4. tail \in Plans
  <2>1. CASE tail = <<>>
    BY <2>1, EmptyStrings
  <2>2. ASSUME NEW ack \in {"OK", "WAIT", "FAULT"}, tail = Driven(AckBits[ack])
        PROVE  tail \in Plans
    BY <2>2, AcksTyped, PlansTyped
  <2>. QED
    BY <1>2, <2>1, <2>2
<1>5. /\ p \in Plans /\ Len(p) = 8 + trn + Len(tail)
      /\ \A j \in 1 .. 8 + trn : p[j] = "leave"
  BY <1>1, <1>4, ChancePlan
<1>. HIDE DEF t
<1>6. /\ t \in Targets /\ t.st = "lost" /\ t.ones = 0 /\ t.taken = <<>> /\ t.plan = p
  <2>1. Target(target.settings) \in Targets
    BY <1>1, NewTarget
  <2>2. /\ Target(target.settings).st = "lost" /\ Target(target.settings).ones = 0
        /\ Target(target.settings).taken = <<>>
    BY DEF Target
  <2>. DEFINE t0 == Target(target.settings)
  <2>. HIDE DEF p, t0
  <2>3. t = [t0 EXCEPT !.plan = p]
    BY <1>3 DEF t0
  <2>. QED
    BY <1>5, <2>1, <2>2, <2>3 DEF Targets, t0
<1>7. w \in Wires /\ w.target = t /\ ~w.fought
  BY <1>6, WireFields
<1>. HIDE DEF w
<1>70. dap_swd_operation(w, req, word, dap_swd, idle).wire \in Wires
  BY <1>7, OperationTyped
<1>8. CASE Pulses(w)
  <2>1. Acknowledge(w, req, trn) \in LostWires(0) /\ ~Drives(Acknowledge(w, req, trn))
    BY <1>1, <1>2, <1>6, <1>7, <1>8, ChanceAcknowledge DEF p
  <2>. QED
    BY <1>70, <2>1, LostOperation DEF w, t
<1>9. CASE ~Pulses(w)
  <2>1. Slot(w.target) = "leave"
    <3>1. 1 \in 1 .. 8 + trn
      BY <1>1
    <3>2. p[1] = "leave"
      BY <1>5, <3>1
    <3>. QED
      BY <1>6, <1>7, <3>2 DEF Slot
  <2>2. LET res == dap_swd_operation(w, req, word, dap_swd, idle)
        IN  res.wire.target = w.target /\ ~res.wire.fought
    BY <1>7, <1>9, <2>1, StillOperation
  <2>. QED
    BY <1>6, <1>7, <1>70, <2>2 DEF w, t
<1>. QED
  BY <1>8, <1>9

(***************************************************************************)
(* A target that is in step.                                               *)
(***************************************************************************)

LEMMA SameString ==
  ASSUME NEW a \in BitString, NEW b \in BitString, Len(a) = Len(b),
         \A j \in 1 .. Len(a) : a[j] = b[j]
  PROVE  a = b
BY DEF BitString

LEMMA PartOf ==
  ASSUME NEW a \in BitString, NEW i \in Nat \ {0}, NEW n \in Nat, i + n <= Len(a) + 1
  PROVE  LET b == SubSeq(a, i, i + n - 1)
         IN  b \in BitString /\ Len(b) = n /\ \A j \in 1 .. n : b[j] = a[(i - 1) + j]
<1>. DEFINE m == i + n - 1
            b == SubSeq(a, i, m)
<1>1. a \in Seq(BOOLEAN) /\ m \in Int /\ Len(a) \in Nat /\ m <= Len(a)
  BY DEF BitString
<1>2. b = [k \in 1 .. m - i + 1 |-> a[i + k - 1]]
  BY <1>1
<1>3. m - i + 1 = n
  OBVIOUS
<1>4. b = [k \in 1 .. n |-> a[i + k - 1]]
  BY <1>2, <1>3
<1>5. \A k \in 1 .. n : i + k - 1 \in 1 .. Len(a) /\ i + k - 1 = (i - 1) + k
  BY <1>1
<1>6. \A k \in 1 .. n : a[i + k - 1] \in BOOLEAN
  BY <1>1, <1>5
<1>. HIDE DEF b, m
<1>7. b \in Seq(BOOLEAN) /\ Len(b) = n
  BY <1>4, <1>6
<1>. QED
  BY <1>4, <1>5, <1>7 DEF b, m, BitString

\* A clock of the header: the bits are g now.
AfterBit(u, t, g, n) ==
    /\ u.settings = t.settings /\ u.reply = t.reply /\ u.taken = t.taken
    /\ Len(g) < 8 => u.st = "idle" /\ u.ones = n /\ u.got = g /\ u.plan = <<>>
    /\ (Len(g) >= 8 /\ g[6] = Odd(SubSeq(g, 2, 5)) /\ ~g[7] /\ g[8]) =>
          /\ u.got = <<>>
          /\ IF t.reply.ack = "none"
               THEN u.st = "lost" /\ u.ones = n /\ u.plan = <<>>
               ELSE u.st = "idle" /\ u.ones = 0 /\ u.plan = Plan(t, g[3])
    /\ (Len(g) >= 8 /\ ~(g[6] = Odd(SubSeq(g, 2, 5)) /\ ~g[7] /\ g[8])) =>
          u.got = <<>> /\ u.st = "error" /\ u.ones = n /\ u.plan = <<>>

LEMMA HeaderClock ==
  ASSUME NEW t \in Targets, t.plan = <<>>, t.st = "idle",
         NEW level \in BOOLEAN, level \/ t.got # <<>>, NEW probe \in BOOLEAN, NEW n,
         n = (IF level /\ probe THEN t.ones + 1 ELSE 0), n < ResetOnes
  PROVE  AfterBit(Edge(t, level, probe), t, Append(t.got, level), n)
<1>. DEFINE g == Append(t.got, level)
            counted == [t EXCEPT !.ones = n]
            x == [counted EXCEPT !.got = Append(@, level)]
            u == Edge(t, level, probe)
<1>1. u = Header(x)
  <2>1. ~(n >= ResetOnes)
    BY WireAssumption DEF Targets
  <2>. QED
    BY <2>1 DEF Edge
<1>. HIDE DEF u
<1>2. /\ x.settings = t.settings /\ x.reply = t.reply /\ x.taken = t.taken
      /\ x.st = "idle" /\ x.ones = n /\ x.got = g /\ x.plan = <<>>
      /\ DOMAIN x = {"st", "settings", "reply", "ones", "got", "plan", "taken"}
  BY DEF Targets
<1>3. Plan(x, g[3]) = Plan(t, g[3])
  BY <1>2 DEF Plan
<1>4. Len(g) \in Nat /\ g \in BitString
  BY Longer DEF Targets
<1>. HIDE DEF x, g
<1>5. ASSUME Len(g) < 8 PROVE AfterBit(u, t, g, n)
  <2>1. u = x
    BY <1>1, <1>2, <1>5 DEF Header
  <2>. QED
    BY <1>2, <1>4, <1>5, <2>1 DEF AfterBit
<1>6. ASSUME ~(Len(g) < 8), ~(g[6] = Odd(SubSeq(g, 2, 5)) /\ ~g[7] /\ g[8])
      PROVE  AfterBit(u, t, g, n)
  <2>1. u = [x EXCEPT !.st = "error", !.got = <<>>]
    BY <1>1, <1>2, <1>6 DEF Header
  <2>2. /\ u.settings = t.settings /\ u.reply = t.reply /\ u.taken = t.taken
        /\ u.got = <<>> /\ u.st = "error" /\ u.ones = n /\ u.plan = <<>>
    BY <1>2, <2>1
  <2>. QED
    BY <1>4, <1>6, <2>2 DEF AfterBit
<1>7. ASSUME ~(Len(g) < 8), g[6] = Odd(SubSeq(g, 2, 5)) /\ ~g[7] /\ g[8]
      PROVE  AfterBit(u, t, g, n)
  <2>1. u = IF t.reply.ack = "none" THEN [x EXCEPT !.st = "lost", !.got = <<>>]
            ELSE [x EXCEPT !.plan = Plan(t, g[3]), !.ones = 0, !.got = <<>>]
    BY <1>1, <1>2, <1>3, <1>7 DEF Header
  <2>2. /\ u.settings = t.settings /\ u.reply = t.reply /\ u.taken = t.taken
        /\ u.got = <<>>
        /\ IF t.reply.ack = "none"
             THEN u.st = "lost" /\ u.ones = n /\ u.plan = <<>>
             ELSE u.st = "idle" /\ u.ones = 0 /\ u.plan = Plan(t, g[3])
    BY <1>2, <2>1
  <2>. QED
    BY <1>4, <1>7, <2>2 DEF AfterBit
<1>8. AfterBit(u, t, g, n)
  BY <1>5, <1>6, <1>7
<1>. QED
  BY <1>8 DEF u, g

LEMMA BitsOf ==
  \A b \in BitString : Len(b) \in Nat /\ \A m \in 1 .. Len(b) : b[m] \in BOOLEAN
BY DEF BitString

\* The target has got the first k bits of header h since it was t.
Hearing(u, t, h, k) ==
    /\ u.st = "idle" /\ u.plan = <<>> /\ u.ones <= k
    /\ Len(u.got) = k /\ \A j \in 1 .. k : u.got[j] = h[j]
    /\ u.settings = t.settings /\ u.reply = t.reply /\ u.taken = t.taken

\* A target that is ready for an operation.
Attentive(t) == t.st = "idle" /\ t.plan = <<>> /\ t.got = <<>> /\ t.ones = 0 /\ t.taken = <<>>

LEMMA Heard ==
  ASSUME NEW w \in Wires, Pulses(w), Drives(w), Attentive(w.target),
         NEW req, NEW h, IsHeader(h, req), NEW k \in 0 .. 7
  PROVE  LET v == Bits!Iterated(w, h, k)
         IN  /\ v \in Wires /\ SamePins(v, w) /\ (v.fought <=> w.fought)
             /\ Hearing(v.target, w.target, h, k)
<1>. DEFINE B(m) == Bits!Iterated(w, h, m)
            Good(m) == /\ B(m) \in Wires /\ SamePins(B(m), w) /\ (B(m).fought <=> w.fought)
                       /\ Hearing(B(m).target, w.target, h, m)
            T == {m \in Nat : m <= 7 => Good(m)}
<1>0. 8 < ResetOnes /\ \A m \in 1 .. 8 : h[m] \in BOOLEAN
  BY WireAssumption, BitsOf DEF IsHeader
<1>1. 0 \in T
  <2>1. B(0) = w
    BY WrittenNone
  <2>2. SamePins(w, w)
    BY DEF SamePins
  <2>3. Hearing(w.target, w.target, h, 0)
    BY DEF Hearing, Attentive
  <2>. HIDE DEF B
  <2>. QED
    BY <2>1, <2>2, <2>3
<1>2. ASSUME NEW m \in T PROVE m + 1 \in T
  <2>1. B(m + 1) = Clock(Level(B(m), h[m + 1]))
    BY WrittenNext
  <2>2. m \in Nat /\ (m <= 7 => Good(m))
    OBVIOUS
  <2>3. ASSUME m + 1 <= 7 PROVE Good(m + 1)
    <3>. DEFINE v == B(m)
                y == Level(v, h[m + 1])
                u == Clock(y)
                probe == Drives(y)
    <3>. HIDE DEF B, T
    <3>1. /\ v \in Wires /\ SamePins(v, w) /\ (v.fought <=> w.fought)
          /\ Hearing(v.target, w.target, h, m)
          /\ h[m + 1] \in BOOLEAN
      BY <1>0, <2>2, <2>3
    <3>. HIDE DEF v
    <3>2. (Pulses(v) <=> Pulses(w)) /\ (Drives(v) <=> Drives(w))
      BY <3>1, PinsDecide
    <3>3. /\ y \in Wires /\ y.target = v.target /\ (y.fought <=> v.fought)
          /\ SamePins(y, v) /\ (Pulses(y) <=> Pulses(v)) /\ (Drives(y) <=> Drives(v))
          /\ y.level = h[m + 1]
      BY <3>1, LevelFields DEF SamePins
    <3>. HIDE DEF y
    <3>4. Line(y) = h[m + 1] /\ Slot(y.target) = "leave"
      BY <3>1, <3>2, <3>3 DEF Line, Slot, Hearing
    <3>5. /\ u \in Wires /\ SameLines(u, y) /\ (u.fought <=> y.fought)
          /\ u.target = Edge(y.target, h[m + 1], probe)
      BY <3>2, <3>3, <3>4, ClockTyped, ClockFields
    <3>51. probe \in BOOLEAN /\ probe
      BY <3>2, <3>3 DEF Drives
    <3>. HIDE DEF probe
    <3>6. Hearing(u.target, w.target, h, m + 1)
      <4>. DEFINE t == v.target
                  level == h[m + 1]
                  n == IF level /\ probe THEN t.ones + 1 ELSE 0
                  g == Append(t.got, level)
      <4>1. t \in Targets /\ t.plan = <<>> /\ t.st = "idle" /\ level \in BOOLEAN
        BY <3>1 DEF Wires, Hearing
      <4>2. t.got \in BitString /\ Len(t.got) = m
        BY <3>1, <4>1 DEF Hearing, Targets
      <4>3. level \/ t.got # <<>>
        <5>1. CASE m = 0
          BY <5>1 DEF IsHeader
        <5>2. CASE m # 0
          BY <4>2, <5>2
        <5>. QED
          BY <5>1, <5>2
      <4>4. n < ResetOnes /\ n <= m + 1
        <5>1. t.ones <= m /\ t.ones \in Nat
          BY <3>1, <4>1 DEF Hearing, Targets
        <5>. QED
          BY <1>0, <2>2, <2>3, <5>1, WireAssumption
      <4>5. Len(g) = m + 1 /\ \A j \in 1 .. m + 1 : g[j] = h[j]
        <5>1. /\ Len(g) = m + 1 /\ g[m + 1] = level
              /\ \A j \in 1 .. m : g[j] = t.got[j]
          BY <4>1, <4>2, Longer
        <5>2. \A j \in 1 .. m : t.got[j] = h[j]
          BY <3>1 DEF Hearing
        <5>3. \A j \in 1 .. m + 1 : j \in 1 .. m \/ j = m + 1
          BY <2>2
        <5>. HIDE DEF g
        <5>. QED
          BY <5>1, <5>2, <5>3
      <4>. HIDE DEF n, level, t, g
      <4>6. n = IF level /\ probe THEN t.ones + 1 ELSE 0
        BY DEF n
      <4>7. AfterBit(Edge(t, level, probe), t, Append(t.got, level), n)
        BY <3>51, <4>1, <4>3, <4>4, <4>6, HeaderClock
      <4>71. AfterBit(u.target, t, g, n)
        BY <3>3, <3>5, <4>7 DEF t, level, g
      <4>. HIDE DEF u
      <4>8. Len(g) < 8
        BY <2>3, <4>5
      <4>9. t.settings = w.target.settings /\ t.reply = w.target.reply /\ t.taken = w.target.taken
        BY <3>1 DEF t, Hearing
      <4>10. /\ u.target.st = "idle" /\ u.target.ones = n /\ u.target.got = g
             /\ u.target.plan = <<>> /\ u.target.settings = w.target.settings
             /\ u.target.reply = w.target.reply /\ u.target.taken = w.target.taken
        BY <4>8, <4>9, <4>71 DEF AfterBit
      <4>. QED
        BY <4>4, <4>5, <4>10 DEF Hearing
    <3>7. SamePins(u, w) /\ (u.fought <=> w.fought)
      BY <3>1, <3>3, <3>5 DEF SameLines, SamePins
    <3>. QED
      BY <2>1, <3>5, <3>6, <3>7 DEF y, v
  <2>. HIDE DEF Good, B
  <2>. QED
    BY <2>2, <2>3
<1>3. T \in SUBSET Nat
  OBVIOUS
<1>. HIDE DEF T, B
<1>4. T = Nat
  BY <1>1, <1>2, <1>3, Bits!Induction
<1>5. Good(k)
  <2>. HIDE DEF Good
  <2>. QED
    BY <1>4 DEF T
<1>. QED
  BY <1>5 DEF B

\* The eight clocks of the header.
LEMMA HeaderSent ==
  ASSUME NEW w \in Wires, Pulses(w), Drives(w), Attentive(w.target),
         NEW req \in BitString, Len(req) = 4, NEW h, IsHeader(h, req)
  PROVE  LET v == Write(w, h)
             u == v.target
         IN  /\ v \in Wires /\ SamePins(v, w) /\ (v.fought <=> w.fought)
             /\ u.got = <<>> /\ u.taken = <<>>
             /\ u.settings = w.target.settings /\ u.reply = w.target.reply
             /\ IF w.target.reply.ack = "none"
                  THEN u.st = "lost" /\ u.plan = <<>> /\ u.ones <= 8
                  ELSE u.st = "idle" /\ u.ones = 0 /\ u.plan = Plan(w.target, req[2])
<1>. DEFINE B(m) == Bits!Iterated(w, h, m)
            v == B(7)
            y == Level(v, h[8])
            x == Clock(y)
<1>0. /\ 8 < ResetOnes /\ Len(h) = 8 /\ h \in BitString
      /\ \A m \in 1 .. 8 : h[m] \in BOOLEAN
  BY WireAssumption, BitsOf DEF IsHeader
<1>. DEFINE top == h[8]
<1>00. top \in BOOLEAN /\ top = TRUE
  BY <1>0 DEF IsHeader
<1>1. Write(w, h) = x
  <2>1. \A m \in Nat : B(m + 1) = Clock(Level(B(m), h[m + 1]))
    BY WrittenNext
  <2>. HIDE DEF B
  <2>2. B(8) = Write(w, h)
    BY <1>0 DEF Write, B
  <2>. QED
    BY <2>1, <2>2
<1>2. /\ v \in Wires /\ SamePins(v, w) /\ (v.fought <=> w.fought)
      /\ Hearing(v.target, w.target, h, 7)
  BY Heard
<1>. HIDE DEF B, v
<1>3. (Pulses(v) <=> Pulses(w)) /\ (Drives(v) <=> Drives(w))
  BY <1>2, PinsDecide
<1>4. /\ y \in Wires /\ y.target = v.target /\ (y.fought <=> v.fought)
      /\ SamePins(y, v) /\ (Pulses(y) <=> Pulses(v)) /\ (Drives(y) <=> Drives(v))
      /\ y.level = top
  BY <1>0, <1>2, LevelFields DEF SamePins
<1>. HIDE DEF y, top
<1>. DEFINE probe == Drives(y)
<1>5. Line(y) = top /\ Slot(y.target) = "leave" /\ probe = TRUE
  BY <1>2, <1>3, <1>4 DEF Line, Slot, Hearing, Drives
<1>6. /\ x \in Wires /\ SameLines(x, y) /\ (x.fought <=> y.fought)
      /\ x.target = Edge(y.target, top, probe)
  BY <1>3, <1>4, <1>5, ClockTyped, ClockFields
<1>. HIDE DEF x, probe
<1>7. SamePins(x, w) /\ (x.fought <=> w.fought)
  BY <1>2, <1>4, <1>6 DEF SameLines, SamePins
<1>. DEFINE t == v.target
            n == IF top /\ probe THEN t.ones + 1 ELSE 0
            g == Append(t.got, top)
            u == x.target
<1>8. t \in Targets /\ t.plan = <<>> /\ t.st = "idle"
  BY <1>2 DEF Wires, Hearing
<1>9. t.got \in BitString /\ Len(t.got) = 7 /\ \A j \in 1 .. 7 : t.got[j] = h[j]
  BY <1>2, <1>8 DEF Hearing, Targets
<1>10. n < ResetOnes /\ n <= 8
  <2>1. t.ones <= 7 /\ t.ones \in Nat
    BY <1>2, <1>8 DEF Hearing, Targets
  <2>. QED
    BY <1>0, <2>1, WireAssumption
<1>11. g \in BitString /\ Len(g) = 8 /\ \A j \in 1 .. 8 : g[j] = h[j]
  <2>1. /\ g \in BitString /\ Len(g) = 8 /\ g[8] = top
        /\ \A j \in 1 .. 7 : g[j] = t.got[j]
    <3>1. ASSUME NEW a \in BitString, NEW x1 \in BOOLEAN, Len(a) = 7
          PROVE  /\ Append(a, x1) \in BitString /\ Len(Append(a, x1)) = 8
                 /\ \A j \in 1 .. 7 : Append(a, x1)[j] = a[j]
                 /\ Append(a, x1)[8] = x1
      <4>1. Len(a) + 1 = 8 /\ 1 .. Len(a) = 1 .. 7
        BY <3>1
      <4>2. /\ Append(a, x1) \in BitString /\ Len(Append(a, x1)) = Len(a) + 1
            /\ \A j \in 1 .. Len(a) : Append(a, x1)[j] = a[j]
            /\ Append(a, x1)[Len(a) + 1] = x1
        BY Longer
      <4>. QED
        BY <4>1, <4>2
    <3>. HIDE DEF t
    <3>. QED
      BY <1>00, <1>9, <3>1
  <2>2. \A j \in 1 .. 8 : j \in 1 .. 7 \/ j = 8
    OBVIOUS
  <2>. HIDE DEF g
  <2>. QED
    BY <1>0, <1>9, <2>1, <2>2 DEF top
<1>. HIDE DEF t, n, g
<1>12. g[6] = Odd(SubSeq(g, 2, 5)) /\ ~g[7] /\ g[8] /\ g[3] = req[2]
  <2>. DEFINE b == SubSeq(g, 2, 5)
  <2>1. b \in BitString /\ Len(b) = 4 /\ \A j \in 1 .. 4 : b[j] = g[1 + j]
    <3>1. 2 \in Nat \ {0} /\ 4 \in Nat /\ 2 + 4 <= Len(g) + 1 /\ 2 + 4 - 1 = 5 /\ 2 - 1 = 1
      BY <1>11
    <3>2. LET c == SubSeq(g, 2, 2 + 4 - 1)
          IN  c \in BitString /\ Len(c) = 4 /\ \A j \in 1 .. 4 : c[j] = g[(2 - 1) + j]
      BY <1>11, <3>1, PartOf
    <3>. QED
      BY <3>1, <3>2
  <2>. HIDE DEF b
  <2>2. \A j \in 1 .. 4 : b[j] = req[j]
    <3>1. ASSUME NEW j \in 1 .. 4 PROVE b[j] = req[j]
      <4>1. j + 1 \in 1 .. 8 /\ 1 + j = j + 1
        OBVIOUS
      <4>. QED
        BY <1>11, <2>1, <4>1 DEF IsHeader
    <3>. QED
      BY <3>1
  <2>3. b = req
    BY <2>1, <2>2, SameString
  <2>4. g[6] = h[6] /\ g[7] = h[7] /\ g[8] = h[8] /\ g[3] = h[3]
    BY <1>11
  <2>5. h[6] = Odd(req) /\ h[7] = FALSE /\ h[8] = TRUE /\ h[3] = req[2]
    BY DEF IsHeader
  <2>6. g[6] = Odd(b)
    BY <2>3, <2>4, <2>5, Zenon
  <2>7. ~g[7] /\ g[8] /\ g[3] = req[2]
    BY <2>4, <2>5, Zenon
  <2>. QED
    BY <2>6, <2>7 DEF b
<1>13. n = IF top /\ probe THEN t.ones + 1 ELSE 0
  BY DEF n
<1>131. top /\ probe /\ probe \in BOOLEAN
  BY <1>00, <1>5
<1>14. AfterBit(Edge(t, top, probe), t, Append(t.got, top), n)
  BY <1>00, <1>8, <1>10, <1>13, <1>131, HeaderClock
<1>141. AfterBit(u, t, g, n)
  BY <1>4, <1>6, <1>14 DEF t, g
<1>. HIDE DEF u
<1>15. Len(g) >= 8
  BY <1>11
<1>16. /\ u.settings = t.settings /\ u.reply = t.reply /\ u.taken = t.taken /\ u.got = <<>>
       /\ IF t.reply.ack = "none"
            THEN u.st = "lost" /\ u.ones = n /\ u.plan = <<>>
            ELSE u.st = "idle" /\ u.ones = 0 /\ u.plan = Plan(t, req[2])
  BY <1>12, <1>15, <1>141 DEF AfterBit
<1>17. /\ t.settings = w.target.settings /\ t.reply = w.target.reply
       /\ t.taken = w.target.taken /\ w.target.taken = <<>>
  BY <1>2 DEF t, Hearing, Attentive
<1>18. Plan(t, req[2]) = Plan(w.target, req[2])
  BY <1>17 DEF Plan
<1>. QED
  BY <1>1, <1>6, <1>7, <1>10, <1>16, <1>17, <1>18 DEF u

\* What a target does after a header: trn clocks to turn the line, the acknowledge,
\* and d clocks of data, before or after the line is turned back.
HighLow(b) == IF b THEN "high" ELSE "low"

PlanOf(p, r, rnw, trn, d) ==
    /\ p \in Plans /\ Len(p) = trn + 3 + trn + d
    /\ \A j \in 1 .. trn : p[j] = "leave"
    /\ \A j \in 1 .. 3 : p[trn + j] = HighLow(AckBits[r.ack][j])
    /\ rnw => /\ \A j \in 1 .. trn : p[trn + 3 + d + j] = "leave"
              /\ r.ack = "OK" =>
                    /\ \A j \in 1 .. DataBits : p[trn + 3 + j] = HighLow(r.word[j])
                    /\ p[trn + 3 + DataBits + 1] = HighLow(Odd(r.word) # r.bad)
              /\ r.ack # "OK" => \A j \in 1 .. d : p[trn + 3 + j] = "take"
    /\ ~rnw => /\ \A j \in 1 .. trn : p[trn + 3 + j] = "leave"
               /\ \A j \in 1 .. d : p[trn + 3 + trn + j] = "take"

\* Four parts of a plan.
FourOf(p, a, b, c, e) ==
    /\ p \in Plans /\ Len(p) = Len(a) + Len(b) + Len(c) + Len(e)
    /\ \A j \in 1 .. Len(a) : p[j] = a[j]
    /\ \A j \in 1 .. Len(b) : p[Len(a) + j] = b[j]
    /\ \A j \in 1 .. Len(c) : p[Len(a) + Len(b) + j] = c[j]
    /\ \A j \in 1 .. Len(e) : p[Len(a) + Len(b) + Len(c) + j] = e[j]

LEMMA FourParts ==
  ASSUME NEW a \in Plans, NEW b \in Plans, NEW c \in Plans, NEW e \in Plans
  PROVE  FourOf(a \o b \o (c \o e), a, b, c, e)
<1>. DEFINE x == a \o b
            y == c \o e
            p == x \o y
<1>1. /\ x \in Plans /\ Len(x) = Len(a) + Len(b)
      /\ \A j \in 1 .. Len(a) : x[j] = a[j]
      /\ \A j \in 1 .. Len(b) : x[Len(a) + j] = b[j]
  BY Concat
<1>2. /\ y \in Plans /\ Len(y) = Len(c) + Len(e)
      /\ \A j \in 1 .. Len(c) : y[j] = c[j]
      /\ \A j \in 1 .. Len(e) : y[Len(c) + j] = e[j]
  BY Concat
<1>. HIDE DEF x, y
<1>4. /\ p \in Plans /\ Len(p) = Len(x) + Len(y)
      /\ \A j \in 1 .. Len(x) : p[j] = x[j]
      /\ \A j \in 1 .. Len(y) : p[Len(x) + j] = y[j]
  BY <1>1, <1>2, Concat
<1>. HIDE DEF p
<1>5. Len(a) \in Nat /\ Len(b) \in Nat /\ Len(c) \in Nat /\ Len(e) \in Nat
  BY Lengths
<1>6. ASSUME NEW j \in 1 .. Len(a) PROVE p[j] = a[j]
  BY <1>1, <1>4, <1>5
<1>7. ASSUME NEW j \in 1 .. Len(b) PROVE p[Len(a) + j] = b[j]
  <2>1. Len(a) + j \in 1 .. Len(x)
    BY <1>1, <1>5
  <2>. QED
    BY <1>1, <1>4, <2>1
<1>8. ASSUME NEW j \in 1 .. Len(c) PROVE p[Len(a) + Len(b) + j] = c[j]
  <2>1. j \in 1 .. Len(y)
    BY <1>2, <1>5
  <2>. QED
    BY <1>1, <1>2, <1>4, <2>1
<1>9. ASSUME NEW j \in 1 .. Len(e) PROVE p[Len(a) + Len(b) + Len(c) + j] = e[j]
  <2>1. Len(c) + j \in 1 .. Len(y) /\ Len(a) + Len(b) + Len(c) + j = Len(x) + (Len(c) + j)
    BY <1>1, <1>2, <1>5
  <2>. QED
    BY <1>2, <1>4, <2>1
<1>10. Len(p) = Len(a) + Len(b) + Len(c) + Len(e)
  BY <1>1, <1>2, <1>4, <1>5
<1>11. FourOf(p, a, b, c, e)
  BY <1>4, <1>6, <1>7, <1>8, <1>9, <1>10 DEF FourOf
<1>. QED
  BY <1>11 DEF p, x, y

LEMMA PlanSlots ==
  ASSUME NEW t \in Targets, NEW r, r = t.reply, r.ack \in {"OK", "WAIT", "FAULT"},
         NEW rnw \in BOOLEAN, NEW trn \in Nat, trn = t.settings.trn,
         NEW d, d = (IF r.ack = "OK" \/ t.settings.phase THEN DataBits + 1 ELSE 0),
         (r.ack = "OK" /\ rnw) => Len(r.word) = DataBits
  PROVE  PlanOf(Plan(t, rnw), r, rnw, trn, d)
<1>. DEFINE turn == Leave(trn)
            ack == Driven(AckBits[r.ack])
            par == Odd(r.word) # r.bad
            word == Append(r.word, par)
            data == IF r.ack = "OK" /\ rnw THEN Driven(word)
                    ELSE IF r.ack = "OK" \/ t.settings.phase THEN Take(DataBits + 1)
                    ELSE <<>>
            p == Plan(t, rnw)
<1>0. DataBits \in Nat /\ DataBits + 1 \in Nat /\ d \in Nat /\ r.word \in BitString
  BY WireAssumption DEF Targets, Answers
<1>1. p = IF rnw THEN turn \o ack \o (data \o turn) ELSE turn \o ack \o (turn \o data)
  BY DEF Plan
<1>2. turn \in Plans /\ Len(turn) = trn /\ \A j \in 1 .. trn : turn[j] = "leave"
  BY PlansTyped
<1>3. ack \in Plans /\ Len(ack) = 3 /\ \A j \in 1 .. 3 : ack[j] = HighLow(AckBits[r.ack][j])
  <2>. DEFINE b == AckBits[r.ack]
  <2>1. b \in BitString /\ Len(b) = 3
    BY AcksTyped
  <2>. HIDE DEF b
  <2>2. /\ Driven(b) \in Plans /\ Len(Driven(b)) = Len(b)
        /\ \A k \in 1 .. Len(b) : Driven(b)[k] = IF b[k] THEN "high" ELSE "low"
    BY <2>1, PlansTyped
  <2>. QED
    BY <2>1, <2>2 DEF b, HighLow
<1>4. par \in BOOLEAN
  OBVIOUS
<1>. HIDE DEF turn, ack, par, p
<1>5. data \in Plans /\ Len(data) = d
  <2>1. CASE r.ack = "OK" /\ rnw
    <3>1. word \in BitString /\ Len(word) = DataBits + 1
      BY <1>0, <1>4, <2>1, Longer
    <3>. HIDE DEF word
    <3>2. Driven(word) \in Plans /\ Len(Driven(word)) = Len(word)
      BY <3>1, PlansTyped
    <3>. QED
      BY <2>1, <3>1, <3>2
  <2>2. CASE ~(r.ack = "OK" /\ rnw) /\ (r.ack = "OK" \/ t.settings.phase)
    <3>1. data = Take(DataBits + 1) /\ d = DataBits + 1
      BY <2>2
    <3>. QED
      BY <1>0, <3>1, PlansTyped
  <2>3. CASE ~(r.ack = "OK" \/ t.settings.phase)
    <3>1. data = <<>> /\ d = 0
      BY <2>3
    <3>. QED
      BY <3>1, EmptyStrings
  <2>. QED
    BY <2>1, <2>2, <2>3
<1>6. ASSUME r.ack = "OK", rnw
      PROVE  /\ \A j \in 1 .. DataBits : data[j] = HighLow(r.word[j])
             /\ data[DataBits + 1] = HighLow(par) /\ d = DataBits + 1
  <2>1. /\ word \in BitString /\ Len(word) = DataBits + 1 /\ word[DataBits + 1] = par
        /\ \A j \in 1 .. DataBits : word[j] = r.word[j]
    BY <1>0, <1>4, <1>6, Longer
  <2>. HIDE DEF word
  <2>2. \A k \in 1 .. Len(word) : Driven(word)[k] = HighLow(word[k])
    BY <2>1, PlansTyped DEF HighLow
  <2>3. data = Driven(word) /\ d = DataBits + 1
    BY <1>6
  <2>. HIDE DEF data
  <2>4. ASSUME NEW j \in 1 .. DataBits PROVE data[j] = HighLow(r.word[j])
    BY <1>0, <2>1, <2>2, <2>3
  <2>5. data[DataBits + 1] = HighLow(par)
    <3>1. DataBits + 1 \in 1 .. Len(word)
      BY <1>0, <2>1
    <3>. QED
      BY <2>1, <2>2, <2>3, <3>1
  <2>. QED
    BY <2>3, <2>4, <2>5
<1>7. ASSUME ~(r.ack = "OK" /\ rnw) PROVE \A j \in 1 .. d : data[j] = "take"
  <2>1. CASE r.ack = "OK" \/ t.settings.phase
    <3>1. data = Take(DataBits + 1) /\ d = DataBits + 1
      BY <1>7, <2>1
    <3>. QED
      BY <1>0, <3>1, PlansTyped
  <2>2. CASE ~(r.ack = "OK" \/ t.settings.phase)
    <3>1. d = 0
      BY <2>2
    <3>. QED
      BY <3>1
  <2>. QED
    BY <2>1, <2>2
<1>. HIDE DEF data
<1>8. CASE rnw
  <2>1. p = turn \o ack \o (data \o turn)
    BY <1>1, <1>8
  <2>2. FourOf(p, turn, ack, data, turn)
    BY <1>2, <1>3, <1>5, <2>1, FourParts
  <2>3. p \in Plans /\ Len(p) = trn + 3 + trn + d
    <3>1. Len(p) = Len(turn) + Len(ack) + Len(data) + Len(turn) /\ p \in Plans
      BY <2>2 DEF FourOf
    <3>. QED
      BY <1>0, <1>2, <1>3, <1>5, <3>1
  <2>4. /\ \A j \in 1 .. trn : p[j] = "leave"
        /\ \A j \in 1 .. 3 : p[trn + j] = HighLow(AckBits[r.ack][j])
        /\ \A j \in 1 .. d : p[trn + 3 + j] = data[j]
        /\ \A j \in 1 .. trn : p[trn + 3 + d + j] = "leave"
    <3>0. /\ \A j \in 1 .. Len(turn) : p[j] = turn[j]
          /\ \A j \in 1 .. Len(turn) : p[Len(turn) + Len(ack) + Len(data) + j] = turn[j]
      BY <2>2 DEF FourOf
    <3>1. ASSUME NEW j \in 1 .. trn PROVE p[j] = "leave" /\ p[trn + 3 + d + j] = "leave"
      BY <1>2, <1>3, <1>5, <3>0
    <3>2. ASSUME NEW j \in 1 .. 3 PROVE p[trn + j] = HighLow(AckBits[r.ack][j])
      <4>1. p[Len(turn) + j] = ack[j]
        BY <1>3, <2>2 DEF FourOf
      <4>. QED
        BY <1>2, <1>3, <4>1
    <3>3. ASSUME NEW j \in 1 .. d PROVE p[trn + 3 + j] = data[j]
      BY <1>2, <1>3, <1>5, <2>2 DEF FourOf
    <3>. QED
      BY <3>1, <3>2, <3>3
  <2>5. ASSUME r.ack = "OK"
        PROVE  /\ \A j \in 1 .. DataBits : p[trn + 3 + j] = HighLow(r.word[j])
               /\ p[trn + 3 + DataBits + 1] = HighLow(par)
    <3>1. /\ \A j \in 1 .. DataBits : data[j] = HighLow(r.word[j])
          /\ data[DataBits + 1] = HighLow(par) /\ d = DataBits + 1
      BY <1>6, <1>8, <2>5
    <3>2. ASSUME NEW j \in 1 .. DataBits PROVE p[trn + 3 + j] = HighLow(r.word[j])
      <4>1. j \in 1 .. d
        BY <1>0, <3>1
      <4>. QED
        BY <2>4, <3>1, <4>1
    <3>3. trn + 3 + DataBits + 1 = trn + 3 + (DataBits + 1) /\ DataBits + 1 \in 1 .. d
      <4>1. DataBits \in Nat /\ trn \in Nat /\ d = DataBits + 1
        BY <1>0, <3>1
      <4>. QED
        BY ONLY <4>1
    <3>4. p[trn + 3 + (DataBits + 1)] = HighLow(par)
      BY <2>4, <3>1, <3>3
    <3>. QED
      BY <3>2, <3>3, <3>4
  <2>6. ASSUME r.ack # "OK" PROVE \A j \in 1 .. d : p[trn + 3 + j] = "take"
    BY <1>7, <2>4, <2>6
  <2>. QED
    BY <1>8, <2>2, <2>3, <2>4, <2>5, <2>6 DEF PlanOf, p, par
<1>9. CASE ~rnw
  <2>1. p = turn \o ack \o (turn \o data)
    BY <1>1, <1>9
  <2>2. FourOf(p, turn, ack, turn, data)
    BY <1>2, <1>3, <1>5, <2>1, FourParts
  <2>3. \A j \in 1 .. d : data[j] = "take"
    BY <1>7, <1>9
  <2>4. /\ \A j \in 1 .. trn : p[j] = "leave"
        /\ \A j \in 1 .. 3 : p[trn + j] = HighLow(AckBits[r.ack][j])
        /\ \A j \in 1 .. trn : p[trn + 3 + j] = "leave"
        /\ \A j \in 1 .. d : p[trn + 3 + trn + j] = "take"
    <3>0. /\ \A j \in 1 .. Len(ack) : p[Len(turn) + j] = ack[j]
          /\ \A j \in 1 .. Len(data) : p[Len(turn) + Len(ack) + Len(turn) + j] = data[j]
      BY <2>2 DEF FourOf
    <3>00. /\ \A j \in 1 .. 3 : p[trn + j] = ack[j]
           /\ \A j \in 1 .. d : p[trn + 3 + trn + j] = data[j]
      BY <1>2, <1>3, <1>5, <3>0
    <3>1. ASSUME NEW j \in 1 .. trn PROVE p[j] = "leave" /\ p[trn + 3 + j] = "leave"
      <4>1. /\ \A l \in 1 .. Len(turn) : p[l] = turn[l]
            /\ \A l \in 1 .. Len(turn) : p[Len(turn) + Len(ack) + l] = turn[l]
        BY <2>2 DEF FourOf
      <4>. QED
        BY <1>2, <1>3, <4>1
    <3>2. ASSUME NEW j \in 1 .. 3 PROVE p[trn + j] = HighLow(AckBits[r.ack][j])
      BY <1>3, <3>00
    <3>3. ASSUME NEW j \in 1 .. d PROVE p[trn + 3 + trn + j] = "take"
      BY <2>3, <3>00
    <3>. QED
      BY <3>1, <3>2, <3>3
  <2>5. p \in Plans /\ Len(p) = trn + 3 + trn + d
    <3>1. Len(p) = Len(turn) + Len(ack) + Len(turn) + Len(data) /\ p \in Plans
      BY <2>2 DEF FourOf
    <3>. QED
      BY <1>0, <1>2, <1>3, <1>5, <3>1
  <2>. QED
    BY <1>9, <2>2, <2>4, <2>5 DEF PlanOf, p
<1>. QED
  BY <1>8, <1>9

\* On the wire v the target is in step, with k slots of its plan p over.
Following(v, r, p, k) ==
    /\ v \in Wires /\ Pulses(v) /\ ~v.fought /\ At(v.target, p, k)
    /\ v.target.st = "idle" /\ v.target.ones = 0 /\ v.target.reply = r

LEMMA FollowingMoved ==
  ASSUME NEW v, NEW w, NEW r, NEW p, NEW k, NEW n, Following(w, r, p, k), Moved(v, w, p, n)
  PROVE  Following(v, r, p, n) /\ (Drives(v) <=> Drives(w))
BY PinsDecide DEF Following, Moved

LEMMA FollowingTurned ==
  ASSUME NEW w, NEW r, NEW p, NEW k, Following(w, r, p, k)
  PROVE  /\ Following(TMS_in(w), r, p, k) /\ ~Drives(TMS_in(w))
         /\ Following(TMS_out(w), r, p, k) /\ Drives(TMS_out(w))
         /\ TMS_in(w).target = w.target /\ TMS_out(w).target = w.target
<1>1. w \in Wires
  BY DEF Following
<1>. QED
  BY <1>1, TurnTyped, TurnFields DEF Following

\* From the header to the acknowledge, if the target answers.
LEMMA Answered ==
  ASSUME NEW w \in Wires, Pulses(w), Drives(w), ~w.fought, Attentive(w.target),
         NEW r, r = w.target.reply, r.ack \in {"OK", "WAIT", "FAULT"},
         NEW req \in BitString, Len(req) = 4, NEW trn \in Nat \ {0}, NEW d \in Nat,
         NEW p, p = Plan(w.target, req[2]), PlanOf(p, r, req[2], trn, d)
  PROVE  LET v == Acknowledge(w, req, trn)
         IN  /\ Following(v, r, p, trn + 3) /\ ~Drives(v) /\ v.in = AckBits[r.ack]
             /\ v.target.got = <<>> /\ v.target.taken = <<>>
<1>1. PICK h : IsHeader(h, req) /\ Acknowledge(w, req, trn) = Asked(w, h, trn)
  BY AcknowledgePieces
<1>. DEFINE w1 == Write(w, h)
            w2 == TMS_in(w1)
            w3 == Run(w2, trn)
            v == Read(w3, 3)
<1>2. /\ p \in Plans /\ Len(p) = trn + 3 + trn + d
      /\ \A j \in 1 .. trn : p[j] = "leave"
      /\ \A j \in 1 .. 3 : p[trn + j] = HighLow(AckBits[r.ack][j])
  BY DEF PlanOf
<1>3. Following(w1, r, p, 0) /\ w1.target.got = <<>> /\ w1.target.taken = <<>>
  <2>1. /\ w1 \in Wires /\ SamePins(w1, w) /\ (w1.fought <=> w.fought)
        /\ w1.target.got = <<>> /\ w1.target.taken = <<>>
        /\ w1.target.reply = w.target.reply
        /\ IF w.target.reply.ack = "none"
             THEN w1.target.st = "lost" /\ w1.target.plan = <<>> /\ w1.target.ones <= 8
             ELSE w1.target.st = "idle" /\ w1.target.ones = 0
                  /\ w1.target.plan = Plan(w.target, req[2])
    BY <1>1, HeaderSent
  <2>. HIDE DEF w1
  <2>2. w1.target.st = "idle" /\ w1.target.ones = 0 /\ w1.target.plan = p
    BY <2>1
  <2>3. At(w1.target, p, 0)
    BY <2>1, <2>2, AtStart DEF Wires
  <2>. QED
    BY <2>1, <2>2, <2>3, PinsDecide DEF Following
<1>. HIDE DEF w1
<1>4. /\ Following(w2, r, p, 0) /\ ~Drives(w2)
      /\ w2.target.got = <<>> /\ w2.target.taken = <<>>
  BY <1>3, FollowingTurned
<1>. HIDE DEF w2
<1>5. /\ Following(w3, r, p, trn) /\ ~Drives(w3)
      /\ w3.target.got = <<>> /\ w3.target.taken = <<>>
  <2>1. 0 \in Nat /\ 0 + trn <= Len(p) /\ trn \in Nat /\ 0 + trn = trn /\ trn < Len(p)
    BY <1>2
  <2>2. Moved(w3, w2, p, 0 + trn) /\ Kept(w3.target, w2.target, p, 0, trn)
    BY <1>2, <1>4, <2>1, RunMoved DEF Following
  <2>. HIDE DEF w3
  <2>3. ~\E j \in 0 + 1 .. 0 + trn : p[j] = "take"
    BY <1>2
  <2>4. w3.target.taken = w2.target.taken /\ w3.target.got = w2.target.got
    BY <2>1, <2>2, <2>3 DEF Kept
  <2>. QED
    BY <1>4, <2>1, <2>2, <2>4, FollowingMoved
<1>. HIDE DEF w3
<1>6. /\ Following(v, r, p, trn + 3) /\ ~Drives(v)
      /\ v.target.got = <<>> /\ v.target.taken = <<>>
      /\ Len(v.in) = 3 /\ \A j \in 1 .. 3 : v.in[j] = (p[trn + j] # "low")
  <2>0. Len(p) = trn + 3 + trn + d
    BY <1>2
  <2>1. 3 \in Nat /\ trn + 3 < Len(p) /\ trn + 3 <= Len(p) /\ trn \in Nat
    BY <2>0
  <2>11. w3 \in Wires /\ Pulses(w3) /\ ~Drives(w3) /\ At(w3.target, p, trn) /\ p \in Plans
    BY <1>2, <1>5 DEF Following
  <2>2. /\ Moved(v, w3, p, trn + 3) /\ Kept(v.target, w3.target, p, trn, 3)
        /\ Len(v.in) = 3 /\ \A j \in 1 .. 3 : v.in[j] = (p[trn + j] # "low")
    <3>. DEFINE n == 3
    <3>1. n \in Nat /\ trn + n <= Len(p)
      BY <2>1
    <3>. HIDE DEF n
    <3>2. LET x == Read(w3, n)
          IN  /\ Moved(x, w3, p, trn + n)
              /\ Len(x.in) = n
              /\ \A j \in 1 .. n : x.in[j] = (p[trn + j] # "low")
              /\ Kept(x.target, w3.target, p, trn, n)
      BY <2>1, <2>11, <3>1, ReadMoved
    <3>. QED
      BY <3>2 DEF n
  <2>. HIDE DEF v
  <2>3. ~\E j \in trn + 1 .. trn + 3 : p[j] = "take"
    <3>1. ASSUME NEW j \in trn + 1 .. trn + 3 PROVE p[j] # "take"
      <4>1. j - trn \in 1 .. 3 /\ trn + (j - trn) = j
        OBVIOUS
      <4>2. p[j] = HighLow(AckBits[r.ack][j - trn])
        BY <1>2, <4>1
      <4>. QED
        BY <4>2 DEF HighLow
    <3>. QED
      BY <3>1
  <2>4. v.target.taken = w3.target.taken /\ v.target.got = w3.target.got
    BY <2>1, <2>2, <2>3 DEF Kept
  <2>. QED
    BY <1>5, <2>2, <2>4, FollowingMoved
<1>7. Acknowledge(w, req, trn) = v
  BY <1>1 DEF Asked, w1, w2, w3
<1>. HIDE DEF v
<1>8. v.in = AckBits[r.ack]
  <2>. DEFINE b == AckBits[r.ack]
  <2>1. b \in BitString /\ Len(b) = 3 /\ \A j \in 1 .. 3 : b[j] \in BOOLEAN
    BY AcksTyped, BitsOf
  <2>2. v.in \in BitString
    BY <1>6 DEF Following, Wires
  <2>3. \A j \in 1 .. 3 : p[trn + j] = HighLow(b[j])
    BY <1>2
  <2>. HIDE DEF b
  <2>4. \A j \in 1 .. 3 : v.in[j] = b[j]
    <3>1. ASSUME NEW j \in 1 .. 3 PROVE v.in[j] = b[j]
      <4>1. v.in[j] \in BOOLEAN /\ b[j] \in BOOLEAN
        BY <1>6, <2>1, <2>2, BitsOf
      <4>2. v.in[j] = (p[trn + j] # "low") /\ p[trn + j] = HighLow(b[j])
        BY <1>6, <2>3
      <4>3. v.in[j] <=> b[j]
        BY <4>2 DEF HighLow
      <4>. QED
        BY <4>1, <4>3
    <3>. QED
      BY <3>1
  <2>5. v.in = b
    BY <1>6, <2>1, <2>2, <2>4, SameString
  <2>. QED
    BY <2>5 DEF b
<1>. QED
  BY <1>6, <1>7, <1>8

\* A clock on which the probe does not drive the line ends a row of ones.
LEMMA LostQuiet ==
  ASSUME NEW c \in Nat, c < ResetOnes, NEW w \in LostWires(c), Pulses(w), ~Drives(w)
  PROVE  Clock(w) \in LostWires(0)
<1>. DEFINE t == w.target
<1>1. /\ w \in Wires /\ t \in Targets /\ t.st = "lost" /\ t.plan = <<>> /\ t.taken = <<>>
      /\ Clock(w) \in Wires
  BY ClockTyped DEF LostWires, Wires
<1>2. Clock(w) \in LostWires(c)
  BY LostClock
<1>. DEFINE probe == Drives(w)
            line == Line(w)
<1>3. Clock(w).target = Edge(t, line, probe) /\ ~probe
  BY <1>1, ClockFields
<1>. HIDE DEF probe, line, t
<1>4. Edge(t, line, probe) = [t EXCEPT !.ones = 0]
  BY <1>1, <1>3, WireAssumption DEF Edge
<1>5. Clock(w).target.ones = 0
  BY <1>1, <1>3, <1>4 DEF Targets
<1>. QED
  BY <1>1, <1>2, <1>5 DEF LostWires

\* From the header to the acknowledge, if the target does not answer.
LEMMA Unanswered ==
  ASSUME NEW w \in Wires, Pulses(w), Drives(w), ~w.fought, Attentive(w.target),
         w.target.reply.ack = "none",
         NEW req \in BitString, Len(req) = 4, NEW trn \in Nat \ {0}
  PROVE  LET v == Acknowledge(w, req, trn)
         IN  v \in LostWires(0) /\ ~Drives(v)
             /\ v.in \notin {AckBits.OK, AckBits.WAIT, AckBits.FAULT}
<1>1. PICK h : IsHeader(h, req) /\ Acknowledge(w, req, trn) = Asked(w, h, trn)
  BY AcknowledgePieces
<1>. DEFINE w1 == Write(w, h)
            w2 == TMS_in(w1)
            w3 == Run(w2, trn)
            v == Read(w3, 3)
<1>0. 8 \in Nat /\ 8 < ResetOnes /\ trn - 1 \in Nat /\ (trn - 1) + 1 = trn
  BY WireAssumption
<1>2. w1 \in LostWires(8) /\ Pulses(w1)
  <2>1. /\ w1 \in Wires /\ SamePins(w1, w) /\ (w1.fought <=> w.fought)
        /\ w1.target.got = <<>> /\ w1.target.taken = <<>>
        /\ IF w.target.reply.ack = "none"
             THEN w1.target.st = "lost" /\ w1.target.plan = <<>> /\ w1.target.ones <= 8
             ELSE w1.target.st = "idle" /\ w1.target.ones = 0
                  /\ w1.target.plan = Plan(w.target, req[2])
    BY <1>1, HeaderSent
  <2>. HIDE DEF w1
  <2>. QED
    BY <2>1, PinsDecide DEF LostWires
<1>. HIDE DEF w1
<1>3. w2 \in LostWires(8) /\ Pulses(w2) /\ ~Drives(w2)
  BY <1>0, <1>2, LostTurn, TurnFields DEF LostWires
<1>. HIDE DEF w2
<1>4. w3 \in LostWires(0) /\ ~Drives(w3)
  <2>. DEFINE x == Run(w2, trn - 1)
  <2>1. x \in LostWires(8) /\ SameLines(x, w2)
    BY <1>0, <1>3, LostRun
  <2>2. w3 = Clock(x)
    <3>1. \A n \in Nat : Run(w2, n + 1) = Clock(Run(w2, n))
      BY RunNext
    <3>. QED
      BY <1>0, <3>1
  <2>. HIDE DEF x, w3
  <2>3. Pulses(x) /\ ~Drives(x)
    BY <1>3, <2>1, PinsDecide DEF SameLines
  <2>4. w3 \in LostWires(0)
    BY <1>0, <2>1, <2>2, <2>3, LostQuiet
  <2>5. SameLines(w3, x)
    BY <1>0, <2>1, <2>2, LostClock
  <2>. QED
    BY <2>3, <2>4, <2>5, PinsDecide DEF SameLines
<1>. HIDE DEF w3
<1>5. v \in LostWires(0) /\ ~Drives(v) /\ Len(v.in) = 3 /\ \A j \in 1 .. 3 : v.in[j]
  BY <1>4, LostRead
<1>6. Acknowledge(w, req, trn) = v
  BY <1>1 DEF Asked, w1, w2, w3
<1>. HIDE DEF v
<1>7. v.in[1] /\ v.in[2]
  BY <1>5
<1>8. v.in \notin {AckBits.OK, AckBits.WAIT, AckBits.FAULT}
  <2>1. ~AckBits.OK[2] /\ ~AckBits.WAIT[1] /\ ~AckBits.FAULT[1]
    BY AcksTyped
  <2>. QED
    BY <1>7, <2>1
<1>. QED
  BY <1>5, <1>6, <1>8

\* The target is in step, and ready for the next header.
Rested(v) ==
    /\ v \in Wires /\ Pulses(v) /\ ~v.fought
    /\ v.target.st = "idle" /\ v.target.plan = <<>> /\ v.target.got = <<>> /\ v.target.ones = 0

LEMMA PlanOver ==
  ASSUME NEW v, NEW r, NEW p \in Plans, NEW k, k = Len(p), Following(v, r, p, k),
         v.target.got = <<>>
  PROVE  Rested(v)
<1>1. v.target \in Targets /\ At(v.target, p, Len(p))
  BY DEF Following, Wires
<1>2. v.target.plan = <<>>
  BY <1>1, AtEnd
<1>. QED
  BY <1>2 DEF Following, Rested

LEMMA RestedTurned ==
  ASSUME NEW w, Rested(w)
  PROVE  /\ Rested(TMS_out(w)) /\ Drives(TMS_out(w)) /\ TMS_out(w).target = w.target
         /\ \A b \in BOOLEAN : /\ Rested(Level(w, b)) /\ Level(w, b).target = w.target
                               /\ Level(w, b).level = b
                               /\ (Drives(Level(w, b)) <=> Drives(w))
<1>1. w \in Wires
  BY DEF Rested
<1>2. Rested(TMS_out(w)) /\ Drives(TMS_out(w)) /\ TMS_out(w).target = w.target
  BY <1>1, TurnTyped, TurnFields DEF Rested
<1>3. ASSUME NEW b \in BOOLEAN
      PROVE  /\ Rested(Level(w, b)) /\ Level(w, b).target = w.target
             /\ Level(w, b).level = b /\ (Drives(Level(w, b)) <=> Drives(w))
  BY <1>1, LevelFields DEF Rested
<1>. QED
  BY <1>2, <1>3

\* The idle cycles: zeros between two operations.
LEMMA IdleClock ==
  ASSUME NEW w, Rested(w), Drives(w), ~w.level
  PROVE  /\ Rested(Clock(w)) /\ Drives(Clock(w)) /\ ~Clock(w).level
         /\ Clock(w).target.taken = w.target.taken
<1>. DEFINE t == w.target
            probe == Drives(w)
            line == Line(w)
<1>1. w \in Wires /\ t \in Targets /\ Clock(w) \in Wires
  BY ClockTyped DEF Rested, Wires
<1>2. ~line /\ Slot(t) = "leave"
  BY DEF Line, Slot, Rested
<1>3. /\ SameLines(Clock(w), w) /\ Clock(w).target = Edge(t, line, probe)
      /\ (Clock(w).fought <=> w.fought)
  BY <1>1, <1>2, ClockFields DEF Rested
<1>4. /\ t.plan = <<>> /\ t.st = "idle" /\ t.got = <<>> /\ ~w.fought /\ Pulses(w)
  BY DEF Rested
<1>. HIDE DEF t, probe, line
<1>5. Edge(t, line, probe) = [t EXCEPT !.ones = 0]
  BY <1>1, <1>2, <1>4, WireAssumption DEF Edge
<1>6. /\ Clock(w).target.st = "idle" /\ Clock(w).target.plan = <<>>
      /\ Clock(w).target.got = <<>> /\ Clock(w).target.ones = 0
      /\ Clock(w).target.taken = t.taken
  BY <1>1, <1>3, <1>4, <1>5 DEF Targets
<1>7. Pulses(Clock(w)) /\ Drives(Clock(w)) /\ Clock(w).level = w.level
  BY <1>3, <1>4, PinsDecide DEF SameLines
<1>. QED
  BY <1>1, <1>3, <1>4, <1>6, <1>7 DEF Rested, t

LEMMA IdleRun ==
  ASSUME NEW w, Rested(w), Drives(w), NEW n \in Nat
  PROVE  /\ Rested(Run(Level(w, FALSE), n))
         /\ Run(Level(w, FALSE), n).target.taken = w.target.taken
<1>. DEFINE x == Level(w, FALSE)
            S == {y \in Wires : /\ Rested(y) /\ Drives(y) /\ ~y.level
                                /\ y.target.taken = w.target.taken}
<1>1. x \in S
  <2>1. FALSE \in BOOLEAN
    OBVIOUS
  <2>2. /\ Rested(x) /\ x.target = w.target /\ x.level = FALSE /\ (Drives(x) <=> Drives(w))
    BY <2>1, RestedTurned
  <2>. HIDE DEF x
  <2>. QED
    BY <2>2 DEF Rested
<1>2. ASSUME NEW y \in S PROVE Clock(y) \in S
  <2>1. Rested(y) /\ Drives(y) /\ ~y.level /\ y.target.taken = w.target.taken
    OBVIOUS
  <2>2. /\ Rested(Clock(y)) /\ Drives(Clock(y)) /\ ~Clock(y).level
        /\ Clock(y).target.taken = y.target.taken
    BY <2>1, IdleClock
  <2>. QED
    BY <2>1, <2>2 DEF Rested
<1>. HIDE DEF x, S
<1>3. Run(x, n) \in S
  BY <1>1, <1>2, Clocks!Stays DEF Run
<1>. QED
  BY <1>3 DEF S, x

\* The wire is at the beginning of the data phase after the answer OK.
InRead(w, r, p, trn) ==
    /\ trn \in Nat \ {0} /\ PlanOf(p, r, TRUE, trn, DataBits + 1)
    /\ Following(w, r, p, trn + 3) /\ ~Drives(w) /\ w.target.got = <<>> /\ r.ack = "OK"

InWrite(w, r, p, trn) ==
    /\ trn \in Nat \ {0} /\ PlanOf(p, r, FALSE, trn, DataBits + 1)
    /\ Following(w, r, p, trn + 3) /\ ~Drives(w) /\ w.target.got = <<>> /\ r.ack = "OK"

\* The data phase of a read.
LEMMA ReadPhaseDone ==
  ASSUME NEW w, NEW r, NEW p, NEW trn, InRead(w, r, p, trn),
         NEW settings, settings.trn = trn, NEW idle \in Nat,
         r.word \in BitString, Len(r.word) = DataBits, r.bad \in BOOLEAN
  PROVE  LET res == ReadPhase(w, settings, idle)
         IN  /\ Rested(res.wire)
             /\ IF r.bad THEN res.ack = "ERROR" ELSE res.ack = "OK" /\ res.value = r.word
<1>. SUFFICES ASSUME trn \in Nat \ {0}, NEW d, d = DataBits + 1, PlanOf(p, r, TRUE, trn, d),
                     Following(w, r, p, trn + 3), ~Drives(w), w.target.got = <<>>, r.ack = "OK"
              PROVE  LET res == ReadPhase(w, settings, idle)
                     IN  /\ Rested(res.wire)
                         /\ IF r.bad THEN res.ack = "ERROR" ELSE res.ack = "OK" /\ res.value = r.word
  BY DEF InRead
<1>. DEFINE data == Read(w, DataBits)
            one == 1
            parity == Read(data, 1)
            run == Run(parity, trn)
            turned == TMS_out(run)
            k == trn + 3
<1>1. /\ p \in Plans /\ Len(p) = trn + 3 + trn + d
      /\ \A j \in 1 .. trn : p[trn + 3 + d + j] = "leave"
      /\ \A j \in 1 .. DataBits : p[trn + 3 + j] = HighLow(r.word[j])
      /\ p[trn + 3 + DataBits + 1] = HighLow(Odd(r.word) # r.bad)
  BY DEF PlanOf
<1>2. /\ DataBits \in Nat \ {0} /\ one \in Nat /\ k \in Nat /\ k + DataBits \in Nat
      /\ trn \in Nat /\ k + DataBits + one \in Nat
  BY WireAssumption
<1>3. /\ Len(p) = k + DataBits + one + trn
      /\ k + DataBits < Len(p) /\ k + DataBits + one < Len(p)
      /\ k + DataBits <= Len(p) /\ k + DataBits + one <= Len(p)
      /\ k + DataBits + one + trn <= Len(p)
  <2>1. Len(p) = trn + 3 + trn + d
    BY <1>1
  <2>. QED
    BY <1>2, <2>1
<1>4. /\ \A j \in 1 .. DataBits : p[k + j] = HighLow(r.word[j])
      /\ p[k + DataBits + one] = HighLow(Odd(r.word) # r.bad)
  BY <1>1
<1>5. Following(w, r, p, k)
  OBVIOUS
<1>6. parity = Read(data, one)
  OBVIOUS
<1>. HIDE DEF k, one, parity
<1>7. /\ Following(data, r, p, k + DataBits) /\ ~Drives(data) /\ data.in = r.word
      /\ data.target.got = <<>>
  <2>1. w \in Wires /\ Pulses(w) /\ At(w.target, p, k)
    BY <1>5 DEF Following
  <2>2. /\ Moved(data, w, p, k + DataBits) /\ Kept(data.target, w.target, p, k, DataBits)
        /\ Len(data.in) = DataBits
        /\ \A j \in 1 .. DataBits : data.in[j] = (p[k + j] # "low")
    <3>1. ~Drives(w) /\ p \in Plans /\ k \in Nat /\ DataBits \in Nat /\ k + DataBits <= Len(p)
      BY <1>1, <1>2, <1>3
    <3>2. LET x == Read(w, DataBits)
          IN  /\ Moved(x, w, p, k + DataBits)
              /\ Len(x.in) = DataBits
              /\ \A j \in 1 .. DataBits : x.in[j] = (p[k + j] # "low")
              /\ Kept(x.target, w.target, p, k, DataBits)
      BY <2>1, <3>1, ReadMoved
    <3>. QED
      BY <3>2
  <2>. HIDE DEF data
  <2>3. ~\E j \in k + 1 .. k + DataBits : p[j] = "take"
    <3>1. ASSUME NEW j \in k + 1 .. k + DataBits PROVE p[j] # "take"
      <4>1. j - k \in 1 .. DataBits /\ k + (j - k) = j
        BY <1>2
      <4>2. p[j] = HighLow(r.word[j - k])
        BY <1>4, <4>1
      <4>. QED
        BY <4>2 DEF HighLow
    <3>. QED
      BY <3>1
  <2>4. data.target.got = <<>>
    BY <1>3, <2>2, <2>3 DEF Kept
  <2>5. data.in = r.word
    <3>1. data.in \in BitString
      BY <2>2 DEF Moved, Wires
    <3>2. ASSUME NEW j \in 1 .. DataBits PROVE data.in[j] = r.word[j]
      <4>1. data.in[j] \in BOOLEAN /\ r.word[j] \in BOOLEAN
        BY <2>2, <3>1, BitsOf
      <4>2. data.in[j] = (p[k + j] # "low") /\ p[k + j] = HighLow(r.word[j])
        BY <1>4, <2>2
      <4>3. data.in[j] <=> r.word[j]
        BY <4>2 DEF HighLow
      <4>. QED
        BY <4>1, <4>3
    <3>. QED
      BY <2>2, <3>1, <3>2, SameString
  <2>. QED
    BY <1>5, <2>2, <2>4, <2>5, FollowingMoved
<1>. HIDE DEF data
<1>8. /\ Following(parity, r, p, k + DataBits + one) /\ ~Drives(parity)
      /\ parity.target.got = <<>>
      /\ parity.in[1] \in BOOLEAN /\ (parity.in[1] <=> (Odd(r.word) # r.bad))
  <2>1. data \in Wires /\ Pulses(data) /\ At(data.target, p, k + DataBits)
    BY <1>7 DEF Following
  <2>2. /\ Moved(parity, data, p, k + DataBits + one)
        /\ Kept(parity.target, data.target, p, k + DataBits, one)
        /\ Len(parity.in) = one
        /\ \A j \in 1 .. one : parity.in[j] = (p[k + DataBits + j] # "low")
    <3>. DEFINE m == k + DataBits
    <3>1. ~Drives(data) /\ p \in Plans /\ m \in Nat /\ one \in Nat /\ m + one <= Len(p)
      BY <1>1, <1>2, <1>3, <1>7
    <3>2. At(data.target, p, m)
      BY <2>1
    <3>. HIDE DEF m
    <3>3. LET x == Read(data, one)
          IN  /\ Moved(x, data, p, m + one)
              /\ Len(x.in) = one
              /\ \A j \in 1 .. one : x.in[j] = (p[m + j] # "low")
              /\ Kept(x.target, data.target, p, m, one)
      BY <2>1, <3>1, <3>2, ReadMoved
    <3>. QED
      BY <1>6, <3>3 DEF m
  <2>3. one = 1
    BY DEF one
  <2>. DEFINE q == k + DataBits + one
  <2>4. q = k + DataBits + 1
    BY DEF one
  <2>5. p[q] = HighLow(Odd(r.word) # r.bad) /\ p[q] \in {"high", "low"}
    BY <1>4 DEF HighLow
  <2>6. parity.in[one] = (p[q] # "low")
    <3>1. one \in 1 .. one
      BY <2>3
    <3>. QED
      BY <2>2, <3>1
  <2>7. parity.target.got = <<>>
    <3>1. ~\E j \in k + DataBits + 1 .. k + DataBits + one : p[j] = "take"
      <4>1. ASSUME NEW j \in k + DataBits + 1 .. k + DataBits + one PROVE p[j] # "take"
        <5>1. j = q
          BY <1>2, <2>4
        <5>. QED
          BY <2>5, <5>1
      <4>. QED
        BY <4>1
    <3>. QED
      BY <1>3, <1>7, <2>2, <3>1 DEF Kept
  <2>8. parity.in[1] \in BOOLEAN
    <3>1. parity.in \in BitString
      BY <2>2 DEF Moved, Wires
    <3>2. 1 \in 1 .. Len(parity.in)
      BY <2>2, <2>3
    <3>. QED
      BY <3>1, <3>2, BitsOf
  <2>9. parity.in[1] <=> (Odd(r.word) # r.bad)
    <3>1. (p[q] # "low") <=> (Odd(r.word) # r.bad)
      BY <2>5 DEF HighLow
    <3>2. parity.in[1] = (p[q] # "low")
      BY <2>3, <2>6
    <3>. QED
      BY <3>1, <3>2
  <2>. QED
    BY <1>7, <2>2, <2>7, <2>8, <2>9, FollowingMoved
<1>9. Rested(run)
  <2>1. parity \in Wires /\ Pulses(parity) /\ At(parity.target, p, k + DataBits + one)
    BY <1>8 DEF Following
  <2>. DEFINE m == k + DataBits + one
  <2>2. m \in Nat /\ m + trn <= Len(p) /\ m + trn = Len(p) /\ trn # 0
    BY <1>2, <1>3
  <2>. HIDE DEF m
  <2>3. /\ Moved(run, parity, p, m + trn) /\ Kept(run.target, parity.target, p, m, trn)
    BY <1>1, <1>2, <1>8, <2>1, <2>2, RunMoved DEF m
  <2>. HIDE DEF run
  <2>4. run.target.got = <<>>
    <3>1. parity.target.st = "idle"
      BY <1>8 DEF Following
    <3>2. ~(trn = 0 \/ m + trn < Len(p) \/ parity.target.st = "lost")
      BY <1>1, <2>2, <3>1, Lengths
    <3>. QED
      BY <2>3, <3>2 DEF Kept
  <2>5. Following(run, r, p, m + trn)
    BY <1>8, <2>3, FollowingMoved DEF m
  <2>. QED
    BY <1>1, <2>2, <2>4, <2>5, PlanOver
<1>10. Rested(turned) /\ Drives(turned)
  BY <1>9, RestedTurned
<1>. HIDE DEF run
<1>11. ReadPhase(w, settings, idle) =
         Result(Run(Level(turned, FALSE), idle),
                IF parity.in[1] = Odd(data.in) THEN "OK" ELSE "ERROR", data.in)
  BY DEF ReadPhase, turned, run, parity, data
<1>. HIDE DEF turned
<1>12. Rested(Run(Level(turned, FALSE), idle))
  BY <1>10, IdleRun
<1>13. (parity.in[1] = Odd(data.in)) <=> ~r.bad
  <2>. DEFINE o == Odd(r.word)
  <2>1. o \in BOOLEAN /\ Odd(data.in) = o
    BY <1>7, OddTyped
  <2>. HIDE DEF o
  <2>. DEFINE x == parity.in[1]
              bad == r.bad
  <2>2. x \in BOOLEAN /\ bad \in BOOLEAN /\ (x <=> (o # bad))
    BY <1>8 DEF o
  <2>. HIDE DEF x, bad
  <2>3. (x = o) <=> ~bad
    BY <2>1, <2>2
  <2>. QED
    BY <2>1, <2>3 DEF x, bad
<1>. DEFINE res == ReadPhase(w, settings, idle)
<1>14. /\ res.wire = Run(Level(turned, FALSE), idle) /\ res.value = data.in
       /\ res.ack = IF parity.in[1] = Odd(data.in) THEN "OK" ELSE "ERROR"
  <2>. DEFINE a == IF parity.in[1] = Odd(data.in) THEN "OK" ELSE "ERROR"
              x == Run(Level(turned, FALSE), idle)
              b == data.in
  <2>1. res = Result(x, a, b)
    BY <1>11
  <2>. HIDE DEF res, a, x, b
  <2>2. res.wire = x /\ res.ack = a /\ res.value = b
    BY <2>1 DEF Result
  <2>. QED
    BY <2>2, Zenon DEF a, x, b
<1>15. IF r.bad THEN res.ack = "ERROR" ELSE res.ack = "OK"
  <2>. HIDE DEF res
  <2>1. CASE r.bad
    <3>1. ~(parity.in[1] = Odd(data.in))
      BY <1>13, <2>1, Zenon
    <3>. QED
      BY <1>14, <2>1, <3>1, Zenon
  <2>2. CASE ~r.bad
    <3>1. parity.in[1] = Odd(data.in)
      BY <1>13, <2>2, Zenon
    <3>. QED
      BY <1>14, <2>2, <3>1, Zenon
  <2>. QED
    BY <2>1, <2>2
<1>. HIDE DEF res
<1>. QED
  BY <1>7, <1>12, <1>14, <1>15 DEF res

\* A slot of the plan in which the target takes a bit, after which it has the bits g.
Took(u, r, p, i, g) ==
    /\ Following(u, r, p, i) /\ Drives(u)
    /\ i < Len(p) => u.target.got = g
    /\ i = Len(p) => u.target.got = <<>>
    /\ (/\ i = Len(p) /\ r.ack = "OK" /\ Len(g) = DataBits + 1
        /\ g[DataBits + 1] = Odd(SubSeq(g, 1, DataBits))) =>
          u.target.taken = SubSeq(g, 1, DataBits)

LEMMA TakeClock ==
  ASSUME NEW v, NEW r, NEW p \in Plans, NEW i \in Nat, i < Len(p), p[i + 1] = "take",
         Following(v, r, p, i), Drives(v), NEW level \in BOOLEAN,
         NEW g, g = Append(v.target.got, level)
  PROVE  Took(Clock(Level(v, level)), r, p, i + 1, g)
<1>. DEFINE y == Level(v, level)
            u == Clock(y)
            t == y.target
            probe == Drives(y)
<1>1. v \in Wires
  BY DEF Following
<1>2. /\ y \in Wires /\ y.target = v.target /\ (y.fought <=> v.fought) /\ SamePins(y, v)
      /\ (Pulses(y) <=> Pulses(v)) /\ (Drives(y) <=> Drives(v)) /\ y.level = level
  BY <1>1, LevelFields DEF SamePins
<1>. HIDE DEF y
<1>3. Following(y, r, p, i) /\ Drives(y) /\ Line(y) = level
  BY <1>2 DEF Following, Line
<1>4. /\ Moved(u, y, p, i + 1) /\ y \in Wires
  BY <1>3, ClockMoved DEF Following
<1>5. Following(u, r, p, i + 1) /\ Drives(u)
  BY <1>3, <1>4, FollowingMoved
<1>6. u.target = Edge(t, level, probe) /\ t \in Targets /\ At(t, p, i) /\ Pulses(y)
  BY <1>2, <1>3, ClockFields DEF Following, Wires
<1>7. t.st = "idle" /\ t.reply = r /\ g = Append(t.got, level)
  BY <1>2, <1>3 DEF Following
<1>8. u.target.plan = Tail(t.plan) /\ t.plan # <<>> /\ Head(t.plan) = "take"
      /\ (u.target.plan = <<>> <=> i + 1 = Len(p))
  <2>1. t.plan # <<>> /\ Head(t.plan) = p[i + 1]
    <3>. DEFINE z == [plan |-> Tail(t.plan)]
    <3>1. z.plan = Tail(t.plan)
      OBVIOUS
    <3>. HIDE DEF z, t
    <3>. QED
      BY <1>6, <3>1, AtClock
  <2>. HIDE DEF t, u, probe
  <2>2. Edge(t, level, probe).plan = Tail(t.plan)
    BY <1>6, <2>1, FollowFields
  <2>3. u.target.plan = Tail(t.plan)
    BY <1>6, <2>2
  <2>4. u.target.plan = <<>> <=> i + 1 = Len(p)
    <3>1. u.target \in Targets /\ At(u.target, p, i + 1)
      BY <1>4 DEF Moved, Wires
    <3>. QED
      BY <3>1, EndOfPlan
  <2>. QED
    BY <2>1, <2>3, <2>4
<1>. HIDE DEF t, u, probe
<1>. DEFINE e == Edge(t, level, probe)
<1>9. /\ e.plan # <<>> => e.got = g
      /\ e.plan = <<>> =>
            /\ e.got = <<>>
            /\ e.taken = IF /\ r.ack = "OK" /\ Len(g) = DataBits + 1
                            /\ g[DataBits + 1] = Odd(SubSeq(g, 1, DataBits))
                         THEN SubSeq(g, 1, DataBits) ELSE <<>>
  <2>. DEFINE got == IF Head(t.plan) = "take" THEN Append(t.got, level) ELSE t.got
              word == SubSeq(got, 1, DataBits)
  <2>1. /\ (e.plan # <<>> \/ t.st = "lost") => e.got = got
        /\ (e.plan = <<>> /\ t.st # "lost") =>
              /\ e.got = <<>>
              /\ e.taken = IF /\ t.reply.ack = "OK" /\ Len(got) = DataBits + 1
                              /\ got[DataBits + 1] = Odd(word)
                           THEN word ELSE <<>>
    <3>1. t \in Targets /\ t.plan # <<>>
      BY <1>6, <1>8
    <3>. QED
      BY <3>1, FollowFields
  <2>2. got = g
    BY <1>7, <1>8
  <2>. HIDE DEF e, got
  <2>. QED
    BY <1>7, <2>1, <2>2
<1>. HIDE DEF e
<1>10. /\ i + 1 < Len(p) => e.got = g
       /\ i + 1 = Len(p) => e.got = <<>>
       /\ (/\ i + 1 = Len(p) /\ r.ack = "OK" /\ Len(g) = DataBits + 1
           /\ g[DataBits + 1] = Odd(SubSeq(g, 1, DataBits))) =>
             e.taken = SubSeq(g, 1, DataBits)
  <2>1. e.plan = <<>> <=> i + 1 = Len(p)
    BY <1>6, <1>8 DEF e
  <2>2. Len(p) \in Nat
    BY Lengths
  <2>3. i + 1 < Len(p) => e.plan # <<>>
    BY <2>1, <2>2
  <2>. QED
    BY <1>9, <2>1, <2>3
<1>11. Took(u, r, p, i + 1, g)
  BY <1>5, <1>6, <1>10 DEF e, Took
<1>. QED
  BY <1>11 DEF u, y

\* From here on the target takes every bit, which are a word and its parity.
TakesAll(w, r, p, k, word) ==
    /\ p \in Plans /\ k \in Nat /\ Following(w, r, p, k) /\ Drives(w)
    /\ w.target.got = <<>> /\ Len(p) = k + DataBits + 1
    /\ \A j \in 1 .. DataBits + 1 : p[k + j] = "take"
    /\ r.ack = "OK" /\ word \in BitString /\ Len(word) = DataBits

\* The word is with the target, and the target is at rest.
Wrote(w, b, word) ==
    /\ Rested(Write(w, b)) /\ Drives(Write(w, b))
    /\ Write(w, b).target.taken = word

\* A data word and its parity, on the clocks on which the target takes them.
LEMMA DataTaken ==
  ASSUME NEW w, NEW r, NEW p, NEW k, NEW word, TakesAll(w, r, p, k, word),
         NEW b, b = Append(word, Odd(word))
  PROVE  Wrote(w, b, word)
<1>. SUFFICES ASSUME p \in Plans, k \in Nat, Following(w, r, p, k), Drives(w),
                     w.target.got = <<>>, Len(p) = k + DataBits + 1,
                     \A j \in 1 .. DataBits + 1 : p[k + j] = "take",
                     r.ack = "OK", word \in BitString, Len(word) = DataBits
              PROVE  /\ Rested(Write(w, b)) /\ Drives(Write(w, b))
                     /\ Write(w, b).target.taken = word
  BY DEF TakesAll, Wrote
<1>. DEFINE B(m) == Bits!Iterated(w, b, m)
            Good(m) == /\ Following(B(m), r, p, k + m) /\ Drives(B(m))
                       /\ Len(B(m).target.got) = m
                       /\ \A j \in 1 .. m : B(m).target.got[j] = b[j]
            T == {m \in Nat : m <= DataBits => Good(m)}
<1>0. /\ DataBits \in Nat \ {0} /\ Odd(word) \in BOOLEAN
      /\ b \in BitString /\ Len(b) = DataBits + 1 /\ b[DataBits + 1] = Odd(word)
      /\ \A j \in 1 .. DataBits : b[j] = word[j]
  BY WireAssumption, OddTyped, Longer
<1>00. \A j \in 1 .. DataBits + 1 : b[j] \in BOOLEAN
  BY <1>0, BitsOf
<1>01. \A n \in Nat : B(n + 1) = Clock(Level(B(n), b[n + 1]))
  BY WrittenNext
<1>1. 0 \in T
  <2>1. B(0) = w
    BY WrittenNone
  <2>. HIDE DEF B
  <2>2. Following(B(0), r, p, k + 0) /\ Drives(B(0))
    BY <2>1
  <2>. QED
    BY <2>1, <2>2
<1>2. ASSUME NEW m \in Nat, m <= DataBits, Good(m),
             NEW g, g = Append(B(m).target.got, b[m + 1])
      PROVE  g \in BitString /\ Len(g) = m + 1 /\ \A j \in 1 .. m + 1 : g[j] = b[j]
  <2>. DEFINE got == B(m).target.got
  <2>1. got \in BitString /\ Len(got) = m /\ \A j \in 1 .. m : got[j] = b[j]
    BY <1>2 DEF Following, Wires, Targets
  <2>. DEFINE y == b[m + 1]
  <2>2. y \in BOOLEAN /\ g = Append(got, y)
    BY <1>0, <1>00, <1>2
  <2>. HIDE DEF got, B, y
  <2>3. ASSUME NEW a \in BitString, NEW x \in BOOLEAN, Len(a) = m
        PROVE  /\ Append(a, x) \in BitString /\ Len(Append(a, x)) = m + 1
               /\ \A j \in 1 .. m : Append(a, x)[j] = a[j]
               /\ Append(a, x)[m + 1] = x
    BY <2>3, Longer
  <2>4. g \in BitString /\ Len(g) = m + 1 /\ (\A j \in 1 .. m : g[j] = got[j]) /\ g[m + 1] = y
    BY <2>1, <2>2, <2>3
  <2>5. ASSUME NEW j \in 1 .. m + 1 PROVE g[j] = b[j]
    <3>1. j \in 1 .. m \/ j = m + 1
      OBVIOUS
    <3>. QED
      BY <2>1, <2>4, <3>1 DEF y
  <2>. QED
    BY <2>4, <2>5
<1>3. ASSUME NEW m \in Nat, m <= DataBits, Good(m),
             NEW g, g = Append(B(m).target.got, b[m + 1])
      PROVE  Took(B(m + 1), r, p, k + (m + 1), g)
  <2>. DEFINE v == B(m)
              i == k + m
              x == b[m + 1]
  <2>00. m \in Nat /\ m <= DataBits /\ k \in Nat /\ Len(p) = k + DataBits + 1 /\ DataBits \in Nat
    BY <1>0, <1>3
  <2>1. B(m + 1) = Clock(Level(B(m), b[m + 1]))
    BY <1>01, <2>00
  <2>2. Following(v, r, p, i) /\ Drives(v) /\ x \in BOOLEAN /\ g = Append(v.target.got, x)
    BY <1>0, <1>00, <1>3
  <2>3. i \in Nat /\ i < Len(p) /\ i + 1 = k + (m + 1)
    BY <2>00
  <2>4. p[i + 1] = "take"
    <3>1. m + 1 \in 1 .. DataBits + 1
      BY <1>0, <1>3
    <3>. QED
      BY <2>3, <3>1
  <2>5. B(m + 1) = Clock(Level(v, x))
    BY <2>1
  <2>. HIDE DEF B, v, i, x
  <2>6. Took(Clock(Level(v, x)), r, p, i + 1, g)
    BY <2>2, <2>3, <2>4, TakeClock
  <2>. QED
    BY <2>3, <2>5, <2>6
<1>4. ASSUME NEW m \in T PROVE m + 1 \in T
  <2>1. m \in Nat /\ (m <= DataBits => Good(m))
    OBVIOUS
  <2>2. ASSUME m + 1 <= DataBits PROVE Good(m + 1)
    <3>. HIDE DEF T
    <3>1. m <= DataBits /\ m < DataBits /\ Good(m)
      BY <1>0, <2>1, <2>2
    <3>. DEFINE g == Append(B(m).target.got, b[m + 1])
    <3>. HIDE DEF B
    <3>2. Len(g) = m + 1 /\ \A j \in 1 .. m + 1 : g[j] = b[j]
      BY <1>2, <2>1, <3>1
    <3>3. /\ Following(B(m + 1), r, p, k + (m + 1)) /\ Drives(B(m + 1))
          /\ B(m + 1).target.got = g
      <4>1. k + (m + 1) < Len(p)
        BY <1>0, <2>1, <2>2
      <4>2. Took(B(m + 1), r, p, k + (m + 1), g)
        BY <1>3, <2>1, <3>1
      <4>. QED
        BY <4>1, <4>2 DEF Took
    <3>. HIDE DEF g
    <3>. QED
      BY <3>2, <3>3
  <2>. HIDE DEF Good
  <2>. QED
    BY <2>1, <2>2
<1>5. T \in SUBSET Nat
  OBVIOUS
<1>. HIDE DEF T, B
<1>6. T = Nat
  BY <1>1, <1>4, <1>5, Bits!Induction
<1>7. Good(DataBits)
  <2>. HIDE DEF Good
  <2>. QED
    BY <1>0, <1>6 DEF T
<1>. DEFINE g == Append(B(DataBits).target.got, b[DataBits + 1])
            u == B(DataBits + 1)
<1>. HIDE DEF Good
<1>70. DataBits \in Nat /\ DataBits <= DataBits
  BY <1>0
<1>8. g \in BitString /\ Len(g) = DataBits + 1 /\ \A j \in 1 .. DataBits + 1 : g[j] = b[j]
  BY <1>2, <1>7, <1>70
<1>9. /\ Following(u, r, p, k + (DataBits + 1)) /\ Drives(u) /\ u.target.got = <<>>
      /\ (/\ Len(g) = DataBits + 1
          /\ g[DataBits + 1] = Odd(SubSeq(g, 1, DataBits))) =>
            u.target.taken = SubSeq(g, 1, DataBits)
  <2>1. Took(u, r, p, k + (DataBits + 1), g)
    BY <1>3, <1>7, <1>70
  <2>2. k + (DataBits + 1) = Len(p)
    BY <1>0
  <2>. HIDE DEF g, u
  <2>. QED
    BY <2>1, <2>2 DEF Took
<1>. HIDE DEF g, u
<1>10. SubSeq(g, 1, DataBits) = word
  <2>. DEFINE s == SubSeq(g, 1, DataBits)
  <2>1. s \in BitString /\ Len(s) = DataBits /\ \A j \in 1 .. DataBits : s[j] = g[j]
    <3>1. /\ 1 \in Nat \ {0} /\ DataBits \in Nat /\ 1 + DataBits <= Len(g) + 1
          /\ 1 + DataBits - 1 = DataBits /\ \A j \in 1 .. DataBits : (1 - 1) + j = j
      BY <1>0, <1>8
    <3>2. LET c == SubSeq(g, 1, 1 + DataBits - 1)
          IN  c \in BitString /\ Len(c) = DataBits /\ \A j \in 1 .. DataBits : c[j] = g[(1 - 1) + j]
      BY <1>8, <3>1, PartOf
    <3>. QED
      BY <3>1, <3>2
  <2>. HIDE DEF s
  <2>2. ASSUME NEW j \in 1 .. DataBits PROVE s[j] = word[j]
    <3>1. j \in 1 .. DataBits + 1
      BY <1>0
    <3>. QED
      BY <1>0, <1>8, <2>1, <3>1
  <2>3. s = word
    BY <2>1, <2>2, SameString
  <2>. QED
    BY <2>3 DEF s
<1>11. u.target.taken = word
  <2>1. g[DataBits + 1] = b[DataBits + 1]
    BY <1>0, <1>8
  <2>2. g[DataBits + 1] = Odd(SubSeq(g, 1, DataBits))
    BY <1>0, <1>10, <2>1, Zenon
  <2>. QED
    BY <1>8, <1>9, <1>10, <2>2
<1>12. Rested(u)
  <2>1. k + (DataBits + 1) = Len(p)
    BY <1>0
  <2>. QED
    BY <1>9, <2>1, PlanOver
<1>13. Write(w, b) = u
  BY <1>0 DEF Write, u, B
<1>. QED
  BY <1>9, <1>11, <1>12, <1>13

\* The data phase of a write.
LEMMA WritePhaseDone ==
  ASSUME NEW w, NEW r, NEW p, NEW trn, InWrite(w, r, p, trn),
         NEW settings, settings.trn = trn, NEW idle \in Nat,
         NEW word \in BitString, Len(word) = DataBits
  PROVE  LET res == WritePhase(w, word, settings, idle)
         IN  Rested(res.wire) /\ res.ack = "OK" /\ res.wire.target.taken = word
<1>. SUFFICES ASSUME trn \in Nat \ {0}, NEW d, d = DataBits + 1, PlanOf(p, r, FALSE, trn, d),
                     Following(w, r, p, trn + 3), ~Drives(w), w.target.got = <<>>, r.ack = "OK"
              PROVE  LET res == WritePhase(w, word, settings, idle)
                     IN  Rested(res.wire) /\ res.ack = "OK" /\ res.wire.target.taken = word
  BY DEF InWrite
<1>. DEFINE run == Run(w, trn)
            turned == TMS_out(run)
            b == Append(word, Odd(word))
            data == Write(turned, b)
            k == trn + 3
<1>1. /\ p \in Plans /\ Len(p) = trn + 3 + trn + d
      /\ \A j \in 1 .. trn : p[trn + 3 + j] = "leave"
      /\ \A j \in 1 .. d : p[trn + 3 + trn + j] = "take"
  BY DEF PlanOf
<1>2. DataBits \in Nat /\ k \in Nat /\ trn \in Nat /\ k + trn \in Nat
  BY WireAssumption
<1>3. /\ k + trn < Len(p) /\ k + trn <= Len(p) /\ Len(p) = k + trn + DataBits + 1
  <2>1. Len(p) = trn + 3 + trn + d
    BY <1>1
  <2>. QED
    BY <1>2, <2>1
<1>4. /\ \A j \in 1 .. trn : p[k + j] = "leave"
      /\ \A j \in 1 .. DataBits + 1 : p[k + trn + j] = "take"
  BY <1>1
<1>5. Following(w, r, p, k)
  OBVIOUS
<1>. HIDE DEF k
<1>6. Following(run, r, p, k + trn) /\ run.target.got = <<>>
  <2>1. w \in Wires /\ Pulses(w) /\ At(w.target, p, k)
    BY <1>5 DEF Following
  <2>2. /\ Moved(run, w, p, k + trn) /\ Kept(run.target, w.target, p, k, trn)
    BY <1>1, <1>2, <1>3, <2>1, RunMoved
  <2>. HIDE DEF run
  <2>3. ~\E j \in k + 1 .. k + trn : p[j] = "take"
    <3>1. ASSUME NEW j \in k + 1 .. k + trn PROVE p[j] # "take"
      <4>1. j - k \in 1 .. trn /\ k + (j - k) = j
        BY <1>2
      <4>2. p[j] = "leave"
        BY <1>4, <4>1
      <4>. QED
        BY <4>2
    <3>. QED
      BY <3>1
  <2>4. run.target.got = <<>>
    BY <1>3, <2>2, <2>3 DEF Kept
  <2>. QED
    BY <1>5, <2>2, <2>4, FollowingMoved
<1>. HIDE DEF run
<1>7. Following(turned, r, p, k + trn) /\ Drives(turned) /\ turned.target.got = <<>>
  BY <1>6, FollowingTurned
<1>. HIDE DEF turned
<1>8. Rested(data) /\ Drives(data) /\ data.target.taken = word
  <2>. DEFINE m == k + trn
  <2>1. /\ m \in Nat /\ Following(turned, r, p, m) /\ Len(p) = m + DataBits + 1
        /\ \A j \in 1 .. DataBits + 1 : p[m + j] = "take"
    BY <1>2, <1>3, <1>4, <1>7
  <2>2. b = Append(word, Odd(word)) /\ p \in Plans /\ word \in BitString /\ Len(word) = DataBits
        /\ r.ack = "OK"
    BY <1>1
  <2>3. /\ \A j \in 1 .. DataBits + 1 : p[m + j] = "take"
        /\ Following(turned, r, p, m) /\ Drives(turned) /\ turned.target.got = <<>>
    BY <2>1, <1>7
  <2>. HIDE DEF m, b
  <2>. USE DEF data
  <2>. HIDE DEF data
  <2>4. TakesAll(turned, r, p, m, word)
    BY <2>1, <2>2, <2>3 DEF TakesAll
  <2>5. Wrote(turned, b, word)
    BY <2>2, <2>4, DataTaken
  <2>. QED
    BY <2>5 DEF data, Wrote
<1>. DEFINE res == WritePhase(w, word, settings, idle)
<1>9. res = Result(Run(Level(data, FALSE), idle), "OK", <<>>)
  BY DEF WritePhase, data, turned, run
<1>. HIDE DEF data
<1>10. /\ Rested(Run(Level(data, FALSE), idle))
       /\ Run(Level(data, FALSE), idle).target.taken = word
  BY <1>8, IdleRun
<1>. DEFINE x == Run(Level(data, FALSE), idle)
<1>. HIDE DEF x, res
<1>11. res.wire = x /\ res.ack = "OK"
  BY <1>9 DEF Result, x
<1>. QED
  BY <1>10, <1>11 DEF x, res

\* The target has not been ready, or has a fault.
LEMMA DeclinedDone ==
  ASSUME NEW w, NEW r, NEW p, NEW trn \in Nat \ {0}, NEW settings, settings.trn = trn,
         NEW d, d = (IF settings.phase THEN DataBits + 1 ELSE 0), settings.phase \in BOOLEAN,
         NEW rnw \in BOOLEAN, PlanOf(p, r, rnw, trn, d),
         Following(w, r, p, trn + 3), ~Drives(w),
         w.target.got = <<>>, w.target.taken = <<>>,
         r.ack # "OK", NEW ack
  PROVE  LET res == Declined(w, ack, rnw, settings)
         IN  Rested(res.wire) /\ res.ack = ack /\ res.wire.target.taken = <<>>
<1>. DEFINE late == settings.phase /\ ~rnw
            n == trn + (IF settings.phase /\ rnw THEN DataBits + 1 ELSE 0)
            run == Run(w, n)
            turned == TMS_out(run)
            k == trn + 3
<1>1. /\ p \in Plans /\ Len(p) = trn + 3 + trn + d
      /\ ~rnw => /\ \A j \in 1 .. trn : p[trn + 3 + j] = "leave"
                 /\ \A j \in 1 .. d : p[trn + 3 + trn + j] = "take"
  BY DEF PlanOf
<1>2. DataBits \in Nat /\ d \in Nat /\ k \in Nat /\ n \in Nat \ {0} /\ k + n \in Nat
  BY WireAssumption
<1>3. /\ k + n <= Len(p)
      /\ ~late => k + n = Len(p)
      /\ late => k + n < Len(p) /\ n = trn /\ d = DataBits + 1 /\ Len(p) = k + n + d
  <2>1. Len(p) = trn + 3 + trn + d
    BY <1>1
  <2>. QED
    BY <1>2, <2>1
<1>4. late => /\ \A j \in 1 .. n : p[k + j] = "leave"
              /\ \A j \in 1 .. d : p[k + n + j] = "take"
  BY <1>1
<1>5. Following(w, r, p, k)
  OBVIOUS
<1>6. \/ Declined(w, ack, rnw, settings) = Result(turned, ack, <<>>) /\ ~late
      \/ Declined(w, ack, rnw, settings)
            = Result(Run(Level(turned, FALSE), DataBits + 1), ack, <<>>) /\ late
  BY DEF Declined
<1>. HIDE DEF k, n, late
<1>7. w \in Wires /\ Pulses(w) /\ At(w.target, p, k) /\ w.target.st = "idle" /\ w.target.reply = r
  BY <1>5 DEF Following
<1>8. /\ Following(run, r, p, k + n) /\ run.target.got = <<>> /\ run.target.taken = <<>>
  <2>1. /\ Moved(run, w, p, k + n) /\ Kept(run.target, w.target, p, k, n)
    BY <1>1, <1>2, <1>3, <1>7, RunMoved
  <2>. HIDE DEF run
  <2>2. CASE late
    <3>1. ~\E j \in k + 1 .. k + n : p[j] = "take"
      <4>1. ASSUME NEW j \in k + 1 .. k + n PROVE p[j] # "take"
        <5>1. j - k \in 1 .. n /\ k + (j - k) = j
          BY <1>2
        <5>2. p[j] = "leave"
          BY <1>4, <2>2, <5>1
        <5>. QED
          BY <5>2
      <4>. QED
        BY <4>1
    <3>2. run.target.got = <<>> /\ run.target.taken = <<>>
      BY <1>3, <2>1, <2>2, <3>1 DEF Kept
    <3>. QED
      BY <1>5, <2>1, <3>2, FollowingMoved
  <2>3. CASE ~late
    <3>1. ~(n = 0 \/ k + n < Len(p) \/ w.target.st = "lost")
      BY <1>2, <1>3, <1>7, <2>3
    <3>2. run.target.got = <<>> /\ run.target.taken = <<>>
      BY <1>7, <2>1, <3>1 DEF Kept
    <3>. QED
      BY <1>5, <2>1, <3>2, FollowingMoved
  <2>. QED
    BY <2>2, <2>3
<1>. HIDE DEF run
<1>9. /\ Following(turned, r, p, k + n) /\ Drives(turned)
      /\ turned.target.got = <<>> /\ turned.target.taken = <<>>
  BY <1>8, FollowingTurned
<1>. HIDE DEF turned
<1>10. CASE ~late
  <2>1. Rested(turned)
    BY <1>1, <1>3, <1>9, <1>10, PlanOver
  <2>2. Declined(w, ack, rnw, settings) = Result(turned, ack, <<>>)
    BY <1>6, <1>10
  <2>. QED
    BY <1>9, <2>1, <2>2 DEF Result
<1>11. CASE late
  <2>. DEFINE y == Level(turned, FALSE)
              m == k + n
              x == Run(y, d)
  <2>1. turned \in Wires /\ FALSE \in BOOLEAN
    BY <1>9 DEF Following
  <2>2. /\ y \in Wires /\ y.target = turned.target /\ (y.fought <=> turned.fought)
        /\ (Pulses(y) <=> Pulses(turned)) /\ (Drives(y) <=> Drives(turned))
    BY <2>1, LevelFields
  <2>. HIDE DEF y
  <2>3. Following(y, r, p, m) /\ Drives(y) /\ y.target.got = <<>>
    BY <1>9, <2>2 DEF Following
  <2>4. /\ m \in Nat /\ d \in Nat \ {0} /\ m + d = Len(p) /\ m + d <= Len(p) /\ p \in Plans
        /\ \A j \in 1 .. d : p[m + j] = "take"
    BY <1>1, <1>2, <1>3, <1>4, <1>11
  <2>. HIDE DEF m
  <2>5. \A j \in m + 1 .. m + d : p[j] \notin {"high", "low"}
    <3>1. ASSUME NEW j \in m + 1 .. m + d PROVE p[j] = "take"
      <4>1. j - m \in 1 .. d /\ m + (j - m) = j
        BY <2>4
      <4>. QED
        BY <2>4, <4>1
    <3>. QED
      BY <3>1
  <2>6. Moved(x, y, p, m + d) /\ Kept(x.target, y.target, p, m, d)
    BY <2>3, <2>4, <2>5, RunMoved DEF Following
  <2>. HIDE DEF x
  <2>7. x.target.got = <<>> /\ x.target.taken = <<>>
    <3>1. y.target.st = "idle" /\ y.target.reply = r
      BY <2>3 DEF Following
    <3>2. ~(d = 0 \/ m + d < Len(p) \/ y.target.st = "lost")
      BY <2>4, <3>1
    <3>. QED
      BY <2>6, <3>1, <3>2 DEF Kept
  <2>8. Rested(x)
    <3>1. Following(x, r, p, m + d)
      BY <2>3, <2>6, FollowingMoved
    <3>. QED
      BY <2>4, <2>7, <3>1, PlanOver
  <2>9. Declined(w, ack, rnw, settings) = Result(x, ack, <<>>)
    BY <1>3, <1>6, <1>11 DEF x, y
  <2>. QED
    BY <2>7, <2>8, <2>9 DEF Result
<1>. QED
  BY <1>10, <1>11

\* What an operation with a target in step comes to, if the target replies with r.
Honest(res, r, read, word) ==
    /\ ~res.wire.fought
    /\ r.ack = "none" =>
          res.ack = "PROTOCOL" /\ res.wire.target.taken = <<>> /\ res.wire.target.st = "lost"
    /\ r.ack # "none" => Rested(res.wire) /\ res.ack # "PROTOCOL"
    /\ r.ack \in {"WAIT", "FAULT"} => res.ack = r.ack /\ res.wire.target.taken = <<>>
    /\ r.ack = "OK" =>
          IF read THEN IF r.bad THEN res.ack = "ERROR"
                                ELSE res.ack = "OK" /\ res.value = r.word
                  ELSE res.ack = "OK" /\ res.wire.target.taken = word

\* An operation ends with the line high, which changes nothing at the target.
LEMMA EndsRested ==
  ASSUME NEW res, NEW d, EndsAs(res, d), Rested(d.wire)
  PROVE  /\ Rested(res.wire) /\ ~res.wire.fought /\ res.wire.target = d.wire.target
         /\ res.ack = d.ack /\ res.value = d.value
<1>. DEFINE v == d.wire
<1>1. /\ res.wire = Level(v, TRUE) /\ res.ack = d.ack /\ res.value = d.value /\ Rested(v)
  BY DEF EndsAs
<1>. HIDE DEF v
<1>2. Rested(Level(v, TRUE)) /\ Level(v, TRUE).target = v.target
  BY <1>1, RestedTurned
<1>. QED
  BY <1>1, <1>2 DEF Rested, v

\* The wire after the answer r to a header.
AfterAnswer(v, r, p, settings, rnw) ==
    LET d == IF r.ack = "OK" \/ settings.phase THEN DataBits + 1 ELSE 0
    IN  /\ PlanOf(p, r, rnw, settings.trn, d)
        /\ Following(v, r, p, settings.trn + 3) /\ ~Drives(v)
        /\ v.target.got = <<>> /\ v.target.taken = <<>>

\* The rest of the operation.
Continues(res, v, r, settings, rnw, word, idle) ==
    /\ (r.ack = "OK" /\ rnw) => EndsAs(res, ReadPhase(v, settings, idle))
    /\ (r.ack = "OK" /\ ~rnw) => EndsAs(res, WritePhase(v, word, settings, idle))
    /\ r.ack # "OK" => EndsAs(res, Declined(v, r.ack, rnw, settings))

LEMMA AnsweredOperation ==
  ASSUME NEW v, NEW r \in Answers, r.ack # "none", NEW p, NEW settings \in Settings,
         NEW rnw \in BOOLEAN, AfterAnswer(v, r, p, settings, rnw), NEW idle \in Nat,
         NEW word \in BitString, ~rnw => Len(word) = DataBits,
         (r.ack = "OK" /\ rnw) => Len(r.word) = DataBits,
         NEW res, Continues(res, v, r, settings, rnw, word, idle)
  PROVE  Honest(res, r, rnw, word)
<1>. SUFFICES ASSUME NEW trn, trn = settings.trn, NEW d,
                     d = (IF r.ack = "OK" \/ settings.phase THEN DataBits + 1 ELSE 0),
                     PlanOf(p, r, rnw, trn, d), Following(v, r, p, trn + 3), ~Drives(v),
                     v.target.got = <<>>, v.target.taken = <<>>,
                     (r.ack = "OK" /\ rnw) => EndsAs(res, ReadPhase(v, settings, idle)),
                     (r.ack = "OK" /\ ~rnw) => EndsAs(res, WritePhase(v, word, settings, idle)),
                     r.ack # "OK" => EndsAs(res, Declined(v, r.ack, rnw, settings))
              PROVE  Honest(res, r, rnw, word)
  BY DEF AfterAnswer, Continues
<1>1. /\ trn \in Nat \ {0} /\ settings.phase \in BOOLEAN
      /\ r.ack \in {"OK", "WAIT", "FAULT"} /\ r.word \in BitString /\ r.bad \in BOOLEAN
  BY PortAssumption DEF Answers
<1>2. CASE r.ack = "OK" /\ rnw
  <2>. DEFINE e == ReadPhase(v, settings, idle)
  <2>1. InRead(v, r, p, trn)
    <3>1. rnw = TRUE /\ d = DataBits + 1
      BY <1>2
    <3>2. PlanOf(p, r, TRUE, trn, DataBits + 1)
      BY <3>1
    <3>. QED
      BY <1>1, <1>2, <3>2 DEF InRead
  <2>2. Rested(e.wire) /\ IF r.bad THEN e.ack = "ERROR" ELSE e.ack = "OK" /\ e.value = r.word
    BY <1>1, <1>2, <2>1, ReadPhaseDone
  <2>3. EndsAs(res, e)
    BY <1>2
  <2>. HIDE DEF e
  <2>. QED
    BY <1>2, <2>2, <2>3, EndsRested DEF Honest
<1>3. CASE r.ack = "OK" /\ ~rnw
  <2>. DEFINE e == WritePhase(v, word, settings, idle)
  <2>1. InWrite(v, r, p, trn)
    <3>1. rnw = FALSE /\ d = DataBits + 1
      BY <1>3
    <3>2. PlanOf(p, r, FALSE, trn, DataBits + 1)
      BY <3>1
    <3>. QED
      BY <1>1, <1>3, <3>2 DEF InWrite
  <2>2. Rested(e.wire) /\ e.ack = "OK" /\ e.wire.target.taken = word
    BY <1>1, <1>3, <2>1, WritePhaseDone
  <2>3. EndsAs(res, e)
    BY <1>3
  <2>. HIDE DEF e
  <2>. QED
    BY <1>3, <2>2, <2>3, EndsRested DEF Honest
<1>4. CASE r.ack # "OK"
  <2>. DEFINE e == Declined(v, r.ack, rnw, settings)
  <2>1. d = (IF settings.phase THEN DataBits + 1 ELSE 0)
    BY <1>4
  <2>2. Rested(e.wire) /\ e.ack = r.ack /\ e.wire.target.taken = <<>>
    BY <1>1, <1>4, <2>1, DeclinedDone
  <2>3. EndsAs(res, e)
    BY <1>4
  <2>. HIDE DEF e
  <2>. QED
    BY <1>1, <1>4, <2>2, <2>3, EndsRested DEF Honest
<1>. QED
  BY <1>2, <1>3, <1>4

LEMMA LinkedOperation ==
  ASSUME NEW w \in Wires, Pulses(w), Drives(w), ~w.fought, Attentive(w.target),
         NEW r, r = w.target.reply, NEW settings, settings = w.target.settings,
         NEW req \in BitString, Len(req) = 4, NEW idle \in Nat,
         NEW word \in BitString, Len(word) <= DataBits, ~req[2] => Len(word) = DataBits,
         (r.ack = "OK" /\ req[2]) => Len(r.word) = DataBits
  PROVE  Honest(dap_swd_operation(w, req, word, settings, idle), r, req[2], word)
<1>. DEFINE trn == settings.trn
            w1 == Acknowledge(w, req, trn)
            res == dap_swd_operation(w, req, word, settings, idle)
            rnw == req[2]
            t == w.target
<1>1. /\ settings \in Settings /\ trn \in Nat \ {0} /\ settings.phase \in BOOLEAN
      /\ r.ack \in {"OK", "WAIT", "FAULT", "none"} /\ r.word \in BitString
      /\ r.bad \in BOOLEAN /\ t \in Targets
  BY PortAssumption DEF Wires, Targets, Answers
<1>2. rnw \in BOOLEAN
  <2>1. 2 \in 1 .. Len(req)
    OBVIOUS
  <2>. QED
    BY <2>1, BitsOf
<1>3. /\ (w1.in = AckBits.OK /\ rnw) => EndsAs(res, ReadPhase(w1, settings, idle))
      /\ (w1.in = AckBits.OK /\ ~rnw) => EndsAs(res, WritePhase(w1, word, settings, idle))
      /\ w1.in = AckBits.WAIT => EndsAs(res, Declined(w1, "WAIT", rnw, settings))
      /\ w1.in = AckBits.FAULT => EndsAs(res, Declined(w1, "FAULT", rnw, settings))
  BY OperationPieces, Zenon
<1>4. CASE r.ack = "none"
  <2>1. /\ w1 \in LostWires(0) /\ ~Drives(w1)
        /\ w1.in \notin {AckBits.OK, AckBits.WAIT, AckBits.FAULT}
    BY <1>1, <1>4, Unanswered
  <2>2. /\ res.wire.target.st = "lost" /\ res.wire.target.taken = <<>>
        /\ ~res.wire.fought /\ res.ack = "PROTOCOL"
    BY <1>1, <2>1, LostOperation
  <2>. HIDE DEF res
  <2>3. Honest(res, r, rnw, word)
    BY <1>4, <2>2 DEF Honest
  <2>. QED
    BY <2>3 DEF res
<1>5. CASE r.ack # "none"
  <2>. DEFINE d == IF r.ack = "OK" \/ settings.phase THEN DataBits + 1 ELSE 0
              p == Plan(t, rnw)
  <2>1. r.ack \in {"OK", "WAIT", "FAULT"} /\ d \in Nat
    BY <1>1, <1>5, WireAssumption
  <2>2. PlanOf(p, r, rnw, trn, d)
    <3>. HIDE DEF p, t, rnw
    <3>1. r = t.reply /\ trn = t.settings.trn /\ trn \in Nat
          /\ d = (IF r.ack = "OK" \/ t.settings.phase THEN DataBits + 1 ELSE 0)
          /\ ((r.ack = "OK" /\ rnw) => Len(r.word) = DataBits)
      BY <1>1 DEF t, rnw
    <3>. HIDE DEF d, trn
    <3>2. PlanOf(Plan(t, rnw), r, rnw, trn, d)
      BY <1>1, <1>2, <2>1, <3>1, PlanSlots
    <3>. QED
      BY <3>2 DEF p
  <2>3. /\ Following(w1, r, p, trn + 3) /\ ~Drives(w1) /\ w1.in = AckBits[r.ack]
        /\ w1.target.got = <<>> /\ w1.target.taken = <<>>
    <3>1. p = Plan(w.target, req[2]) /\ PlanOf(p, r, req[2], trn, d)
      BY <2>2
    <3>. HIDE DEF p, d, trn, t, rnw
    <3>. QED
      BY <1>1, <2>1, <3>1, Answered DEF trn
  <2>. HIDE DEF p, w1, res, rnw, t
  <2>4. Honest(res, r, rnw, word)
    <3>1. r \in Answers
      BY DEF Wires, Targets
    <3>2. Continues(res, w1, r, settings, rnw, word, idle)
      BY <1>3, <2>1, <2>3 DEF Continues
    <3>3. AfterAnswer(w1, r, p, settings, rnw)
      BY <2>2, <2>3 DEF AfterAnswer
    <3>4. (~rnw => Len(word) = DataBits) /\ ((r.ack = "OK" /\ rnw) => Len(r.word) = DataBits)
      BY DEF rnw
    <3>. HIDE DEF d, trn
    <3>. QED
      BY <1>1, <1>2, <1>5, <3>1, <3>2, <3>3, <3>4, AnsweredOperation
  <2>. QED
    BY <2>4 DEF res, rnw
<1>. QED
  BY <1>4, <1>5

\* A target between requests: it is in step and waits for a header, or it is lost.
AtRest(t) ==
    /\ t.reply.ack = "none" /\ t.st \in {"idle", "lost"}
    /\ t.plan = <<>> /\ t.got = <<>> /\ t.taken = <<>> /\ t.ones = 0

ClockOut == mode["SWCLK"] = "out" /\ dir["SWCLK"] = "out"
DataOut == mode["SWDIO"] = "out" /\ dir["SWDIO"] = "out"

\* A target is in step only as long as the probe drives both lines.
WireIInv ==
    /\ dap_swd \in Settings /\ target \in Targets /\ AtRest(target)
    /\ target.st = "idle" => ClockOut /\ DataOut

\* Functions on 1 .. n are strings of bits.
LEMMA FunctionsAreStrings ==
  ASSUME NEW n \in Nat, NEW f \in [1 .. n -> BOOLEAN]
  PROVE  f \in BitString /\ Len(f) = n
<1>1. f \in Seq(BOOLEAN)
  OBVIOUS
<1>2. DOMAIN f = 1 .. n
  OBVIOUS
<1>. QED
  BY <1>1, <1>2 DEF BitString

\* What the host sends with an access, and what the target may reply.
LEMMA AccessTyped ==
  /\ \A req \in Requests : req \in BitString /\ Len(req) = 4 /\ req[2] \in BOOLEAN
  /\ \A read : \A word \in Data(read) :
        word \in BitString /\ Len(word) <= DataBits /\ (~read => Len(word) = DataBits)
  /\ \A read : \A r \in Replies(read) :
        r \in Answers /\ ((r.ack = "OK" /\ read) => Len(r.word) = DataBits)
<1>0. DataBits \in Nat
  BY WireAssumption
<1>1. \A word \in Words : word \in BitString /\ Len(word) = DataBits
  BY <1>0, FunctionsAreStrings, PortAssumption
<1>2. ASSUME NEW req \in Requests
      PROVE  req \in BitString /\ Len(req) = 4 /\ req[2] \in BOOLEAN
  <2>1. req \in [1 .. 4 -> BOOLEAN]
    BY PortAssumption
  <2>. DEFINE n == 4
  <2>2. n \in Nat /\ req \in [1 .. n -> BOOLEAN]
    BY <2>1
  <2>. HIDE DEF n
  <2>3. req \in BitString /\ Len(req) = n
    BY <2>2, FunctionsAreStrings
  <2>. QED
    BY <2>1, <2>3 DEF n
<1>3. ASSUME NEW read, NEW word \in Data(read)
      PROVE  word \in BitString /\ Len(word) <= DataBits /\ (~read => Len(word) = DataBits)
  <2>1. CASE read
    <3>1. word = <<>>
      BY <2>1 DEF Data
    <3>. QED
      BY <1>0, <2>1, <3>1 DEF BitString
  <2>2. CASE ~read
    <3>1. word \in Words
      BY <2>2 DEF Data
    <3>. QED
      BY <1>0, <1>1, <3>1
  <2>. QED
    BY <2>1, <2>2
<1>4. ASSUME NEW read, NEW r \in Replies(read)
      PROVE  r \in Answers /\ ((r.ack = "OK" /\ read) => Len(r.word) = DataBits)
  <2>1. <<>> \in BitString
    BY EmptyStrings
  <2>2. CASE \E word \in Words, bad \in BOOLEAN : r = Reply("OK", word, bad)
    BY <1>1, <2>2 DEF Reply, Answers
  <2>3. CASE r = Reply("OK", <<>>, FALSE) /\ ~read
    BY <2>1, <2>3 DEF Reply, Answers
  <2>4. CASE \E ack \in {"WAIT", "FAULT", "none"} : r = Reply(ack, <<>>, FALSE)
    BY <2>1, <2>4 DEF Reply, Answers
  <2>5. \/ \E word \in Words, bad \in BOOLEAN : r = Reply("OK", word, bad)
        \/ r = Reply("OK", <<>>, FALSE) /\ ~read
        \/ \E ack \in {"WAIT", "FAULT", "none"} : r = Reply(ack, <<>>, FALSE)
    <3>. DEFINE A == {Reply("OK", word, bad) : word \in Words, bad \in BOOLEAN}
                B == {Reply("OK", <<>>, FALSE)}
                C == {Reply(ack, <<>>, FALSE) : ack \in {"WAIT", "FAULT", "none"}}
    <3>1. Replies(read) = (IF read THEN A ELSE B) \cup C
      BY DEF Replies
    <3>2. r \in A => \E word \in Words, bad \in BOOLEAN : r = Reply("OK", word, bad)
      OBVIOUS
    <3>3. r \in B => r = Reply("OK", <<>>, FALSE)
      BY Zenon
    <3>4. r \in C => \E ack \in {"WAIT", "FAULT", "none"} : r = Reply(ack, <<>>, FALSE)
      BY Zenon
    <3>5. r \in A \/ (r \in B /\ ~read) \/ r \in C
      <4>. HIDE DEF A, B, C
      <4>. QED
        BY <3>1
    <3>. HIDE DEF A, B, C
    <3>. QED
      BY <3>2, <3>3, <3>4, <3>5
  <2>. QED
    BY <2>2, <2>3, <2>4, <2>5
<1>. QED
  BY <1>2, <1>3, <1>4

\* A target that is in step, at the beginning of an operation.
LEMMA ReadyLinked ==
  ASSUME TypeOK, WireIInv, Linked, NEW r \in Answers
  PROVE  LET w == Wire(Ready(r))
         IN  /\ w \in Wires /\ Pulses(w) /\ Drives(w) /\ ~w.fought /\ Attentive(w.target)
             /\ w.target.reply = r /\ w.target.settings = dap_swd
<1>. DEFINE t == Ready(r)
            w == Wire(t)
<1>1. t = [target EXCEPT !.reply = r]
  BY DEF Ready
<1>2. t \in Targets /\ t.reply = r /\ t.settings = dap_swd /\ Attentive(t)
  BY <1>1 DEF WireIInv, Linked, AtRest, Attentive, Targets
<1>. HIDE DEF t
<1>3. w \in Wires /\ w.target = t /\ ~w.fought /\ w.mode = mode /\ w.dir = dir
  BY <1>2, WireFields
<1>. HIDE DEF w
<1>4. Pulses(w) /\ Drives(w)
  BY <1>3 DEF WireIInv, Linked, ClockOut, DataOut, Pulses, Drives
<1>. QED
  BY <1>2, <1>3, <1>4 DEF t, w

\* The target at rest again.
LEMMA RestingTyped ==
  ASSUME NEW t \in Targets, \/ t.st = "lost"
                            \/ t.st = "idle" /\ t.plan = <<>> /\ t.got = <<>> /\ t.ones = 0
  PROVE  /\ Resting(t) \in Targets /\ AtRest(Resting(t)) /\ Resting(t).st = t.st
         /\ Resting(t).settings = t.settings
<1>1. t.settings \in Settings
  BY DEF Targets
<1>2. <<>> \in BitString /\ Reply("none", <<>>, FALSE) \in Answers
  BY EmptyStrings DEF Reply, Answers
<1>3. CASE t.st = "lost"
  <2>1. Resting(t) = Target(t.settings)
    BY <1>3 DEF Resting
  <2>2. Target(t.settings) \in Targets
    BY <1>1, NewTarget
  <2>. QED
    BY <1>3, <2>1, <2>2 DEF Target, Reply, AtRest
<1>4. CASE t.st # "lost"
  <2>. DEFINE n == Reply("none", <<>>, FALSE)
              e == <<>>
              u == [t EXCEPT !.reply = n, !.taken = e]
  <2>1. Resting(t) = u
    BY <1>4 DEF Resting
  <2>2. n \in Answers /\ n.ack = "none" /\ e \in BitString
    BY <1>2 DEF Reply
  <2>3. t.st = "idle" /\ t.plan = <<>> /\ t.got = <<>> /\ t.ones = 0 /\ e = <<>>
    BY <1>4
  <2>. HIDE DEF n, e
  <2>4. u \in Targets /\ u.reply = n /\ u.taken = e /\ u.st = t.st /\ u.plan = t.plan
        /\ u.got = t.got /\ u.ones = t.ones /\ u.settings = t.settings
    BY <2>2 DEF Targets
  <2>. HIDE DEF u
  <2>. QED
    BY <2>1, <2>2, <2>3, <2>4 DEF AtRest
<1>. QED
  BY <1>3, <1>4

\* What an operation comes to, whatever the target.
Outcome(res, linked, r, read, word) ==
    /\ res.wire \in Wires /\ ~res.wire.fought
    /\ Resting(res.wire.target) \in Targets /\ AtRest(Resting(res.wire.target))
    /\ Resting(res.wire.target).st = "idle" => Pulses(res.wire) /\ Drives(res.wire)
    /\ linked => Honest(res, r, read, word)
    /\ (linked /\ r.ack # "none") => Resting(res.wire.target).st = "idle"

LEMMA AccessOutcome ==
  ASSUME TypeOK, WireIInv, NEW req \in BitString, Len(req) = 4, req[2] \in BOOLEAN,
         NEW word \in BitString, Len(word) <= DataBits, ~req[2] => Len(word) = DataBits,
         NEW r \in Answers, (r.ack = "OK" /\ req[2]) => Len(r.word) = DataBits,
         NEW idle \in Nat
  PROVE  Outcome(dap_swd_operation(Wire(Ready(r)), req, word, dap_swd, idle),
                 Linked, r, req[2], word)
<1>. DEFINE w == Wire(Ready(r))
            res == dap_swd_operation(w, req, word, dap_swd, idle)
            t == res.wire.target
<1>1. dap_swd \in Settings /\ target \in Targets /\ r.ack \in {"OK", "WAIT", "FAULT", "none"}
  BY DEF WireIInv, Answers
<1>2. CASE ~Linked
  <2>1. res.wire \in Wires /\ t.st = "lost" /\ ~res.wire.fought
    BY <1>1, <1>2, UnlinkedOperation
  <2>. HIDE DEF res
  <2>3. t \in Targets
    BY <2>1 DEF Wires
  <2>. HIDE DEF t
  <2>4. Resting(t) \in Targets /\ AtRest(Resting(t)) /\ Resting(t).st = "lost"
    BY <2>1, <2>3, RestingTyped
  <2>5. Outcome(res, Linked, r, req[2], word)
    BY <1>2, <2>1, <2>4 DEF Outcome, t
  <2>. QED
    BY <2>5 DEF res
<1>3. CASE Linked
  <2>1. /\ w \in Wires /\ Pulses(w) /\ Drives(w) /\ ~w.fought /\ Attentive(w.target)
        /\ w.target.reply = r /\ w.target.settings = dap_swd
    BY <1>3, ReadyLinked
  <2>2. Lined(w, mode, dir)
    BY WireLined
  <2>. HIDE DEF w
  <2>3. Honest(res, r, req[2], word)
    BY <2>1, LinkedOperation
  <2>4. Ended(res, mode, dir) /\ res.wire \in Wires
    <3>1. dap_swd.trn \in Nat
      BY <1>1, PortAssumption
    <3>2. Ended(res, mode, dir)
      BY <2>2, <3>1, OperationEnded DEF BitString
    <3>. QED
      BY <1>1, <2>1, <3>2, OperationTyped
  <2>. HIDE DEF res
  <2>5. t \in Targets
    BY <2>4 DEF Wires
  <2>6. CASE r.ack = "none"
    <3>1. t.st = "lost" /\ ~res.wire.fought
      BY <2>3, <2>6 DEF Honest
    <3>. HIDE DEF t
    <3>2. Resting(t) \in Targets /\ AtRest(Resting(t)) /\ Resting(t).st = "lost"
      BY <2>5, <3>1, RestingTyped
    <3>3. Outcome(res, Linked, r, req[2], word)
      BY <2>3, <2>4, <2>6, <3>1, <3>2 DEF Outcome, t
    <3>. QED
      BY <3>3 DEF res, w
  <2>7. CASE r.ack # "none"
    <3>1. Rested(res.wire) /\ res.ack # "PROTOCOL" /\ ~res.wire.fought
      BY <2>3, <2>7 DEF Honest
    <3>2. Pulses(res.wire) /\ t.st = "idle" /\ t.plan = <<>> /\ t.got = <<>> /\ t.ones = 0
      BY <3>1 DEF Rested
    <3>3. Drives(res.wire)
      <4>1. Lined(res.wire, Put(mode, "SWDIO", "out"), Put(dir, "SWDIO", "out"))
        BY <2>4, <3>1 DEF Ended
      <4>2. mode \in [Pins -> {"in", "out"}] /\ dir \in [Shifted -> {"in", "out"}]
            /\ "SWDIO" \in Pins /\ "SWDIO" \in Shifted
        BY DEF TypeOK, Pins, Shifted
      <4>. QED
        BY <4>1, <4>2 DEF Lined, Put, Drives
    <3>. HIDE DEF t
    <3>4. Resting(t) \in Targets /\ AtRest(Resting(t)) /\ Resting(t).st = "idle"
      BY <2>5, <3>2, RestingTyped
    <3>5. Outcome(res, Linked, r, req[2], word)
      BY <2>3, <2>4, <3>1, <3>2, <3>3, <3>4 DEF Outcome, t
    <3>. QED
      BY <3>5 DEF res, w
  <2>. QED
    BY <2>6, <2>7
<1>. QED
  BY <1>2, <1>3

WireSafe == LineNotFought /\ OperationHonest /\ StaysInStep

LEMMA AccessKeeps ==
  ASSUME TypeOK, WireIInv, NEW req \in BitString, Len(req) = 4, req[2] \in BOOLEAN,
         NEW word \in BitString, Len(word) <= DataBits, ~req[2] => Len(word) = DataBits,
         NEW r \in Answers, (r.ack = "OK" /\ req[2]) => Len(r.word) = DataBits,
         NEW idle \in Nat, Access(req, word, idle, r)
  PROVE  WireIInv' /\ WireSafe'
<1>. DEFINE res == dap_swd_operation(Wire(Ready(r)), req, word, dap_swd, idle)
            rnw == req[2]
            t == Resting(res.wire.target)
            linked == Linked
<1>1. Outcome(res, linked, r, rnw, word)
  BY AccessOutcome
<1>2. /\ mode' = res.wire.mode /\ dir' = res.wire.dir /\ target' = t /\ dap_swd' = dap_swd
      /\ last' = [kind |-> "access", linked |-> linked, read |-> rnw,
                  ack |-> res.ack, value |-> res.value, word |-> word, reply |-> r,
                  taken |-> res.wire.target.taken, fought |-> res.wire.fought]
  BY DEF Access
<1>. HIDE DEF res, t, rnw, linked
<1>3. WireIInv'
  <2>1. /\ t \in Targets /\ AtRest(t)
        /\ t.st = "idle" => Pulses(res.wire) /\ Drives(res.wire)
    BY <1>1 DEF Outcome, t
  <2>2. dap_swd \in Settings
    BY DEF WireIInv
  <2>. QED
    BY <1>2, <2>1, <2>2 DEF WireIInv, AtRest, Pulses, Drives, ClockOut, DataOut
<1>4. /\ last'.kind = "access" /\ last'.linked = linked /\ last'.read = rnw
      /\ last'.ack = res.ack /\ last'.value = res.value /\ last'.word = word
      /\ last'.reply = r /\ last'.taken = res.wire.target.taken
      /\ last'.fought = res.wire.fought
  BY <1>2
<1>5. LineNotFought'
  <2>1. ~res.wire.fought
    BY <1>1 DEF Outcome
  <2>. QED
    BY <1>4, <2>1, Zenon DEF LineNotFought
<1>6. OperationHonest'
  <2>1. linked => Honest(res, r, rnw, word)
    BY <1>1 DEF Outcome
  <2>. QED
    BY <1>4, <2>1 DEF OperationHonest, Honest
<1>7. StaysInStep'
  <2>1. AtRest(t) /\ (linked /\ r.ack # "none" => t.st = "idle")
    BY <1>1 DEF Outcome, t
  <2>2. /\ t.st \in {"idle", "lost"} /\ t.plan = <<>> /\ t.got = <<>>
    BY <2>1 DEF AtRest
  <2>. QED
    BY <1>2, <1>4, <2>1, <2>2 DEF StaysInStep
<1>. QED
  BY <1>3, <1>5, <1>6, <1>7 DEF WireSafe

(***************************************************************************)
(* What the host sends: no target answers, and only a line reset brings    *)
(* one back.                                                               *)
(***************************************************************************)

\* A target that has nothing to do, and listens.
Listens(t) ==
    /\ t \in Targets /\ t.reply.ack = "none" /\ t.plan = <<>> /\ t.taken = <<>>

\* The next state u of it, the ones in a row being n.
Listened(u, t, level, n) ==
    /\ Listens(u) /\ u.settings = t.settings
    /\ n >= ResetOnes => u.st = "reset" /\ u.got = <<>>
    /\ (n < ResetOnes /\ t.st = "reset" /\ level) => u = t
    /\ (n < ResetOnes /\ t.st = "reset" /\ ~level) => u.st = "idle" /\ u.ones = 0 /\ u.got = t.got
    /\ (n < ResetOnes /\ t.st # "reset") =>
          /\ u.st # "reset" /\ u.ones = n
          /\ t.st # "idle" => u.st = t.st
          /\ (t.st = "idle" /\ ~level /\ t.got = <<>>) => u.st = "idle" /\ u.got = <<>>
          /\ (t.st = "idle" /\ (level \/ t.got # <<>>) /\ u.st = "idle") => u.got # <<>>

LEMMA EdgeListened ==
  ASSUME NEW t, Listens(t), NEW level \in BOOLEAN, NEW probe \in BOOLEAN,
         NEW n, n = (IF level /\ probe THEN t.ones + 1 ELSE 0)
  PROVE  Listened(Edge(t, level, probe), t, level, n)
<1>. DEFINE u == Edge(t, level, probe)
            counted == [t EXCEPT !.ones = n]
            x == [counted EXCEPT !.got = Append(@, level)]
<1>1. /\ t \in Targets /\ t.reply.ack = "none" /\ t.plan = <<>> /\ t.taken = <<>>
      /\ u \in Targets /\ n \in Nat /\ ResetOnes \in Nat
  BY EdgeTyped, WireAssumption DEF Listens, Targets
<1>2. CASE n >= ResetOnes
  <2>1. u = [t EXCEPT !.st = "reset", !.ones = 0, !.got = <<>>]
    BY <1>1, <1>2 DEF Edge
  <2>. HIDE DEF u
  <2>2. /\ u.st = "reset" /\ u.got = <<>> /\ u.settings = t.settings /\ u.reply = t.reply
        /\ u.plan = t.plan /\ u.taken = t.taken
    BY <1>1, <2>1 DEF Targets
  <2>3. Listened(u, t, level, n)
    BY <1>1, <1>2, <2>2 DEF Listened, Listens
  <2>. QED
    BY <2>3 DEF u
<1>3. CASE ~(n >= ResetOnes) /\ t.st = "reset"
  <2>1. u = IF level THEN t ELSE [t EXCEPT !.st = "idle", !.ones = 0]
    BY <1>1, <1>3 DEF Edge
  <2>. HIDE DEF u
  <2>2. /\ u.settings = t.settings /\ u.reply = t.reply /\ u.got = t.got
        /\ u.plan = t.plan /\ u.taken = t.taken
        /\ level => u = t
        /\ ~level => u.st = "idle" /\ u.ones = 0
    BY <1>1, <2>1 DEF Targets
  <2>3. Listened(u, t, level, n)
    BY <1>1, <1>3, <2>2 DEF Listened, Listens
  <2>. QED
    BY <2>3 DEF u
<1>4. CASE ~(n >= ResetOnes) /\ t.st # "reset" /\ ~(t.st = "idle" /\ (level \/ t.got # <<>>))
  <2>1. u = counted
    BY <1>1, <1>4 DEF Edge
  <2>. HIDE DEF u
  <2>2. /\ u.settings = t.settings /\ u.reply = t.reply /\ u.got = t.got
        /\ u.plan = t.plan /\ u.taken = t.taken /\ u.st = t.st /\ u.ones = n
    BY <1>1, <2>1 DEF Targets
  <2>3. Listened(u, t, level, n)
    BY <1>1, <1>4, <2>2 DEF Listened, Listens
  <2>. QED
    BY <2>3 DEF u
<1>5. CASE ~(n >= ResetOnes) /\ t.st = "idle" /\ (level \/ t.got # <<>>)
  <2>. DEFINE g == Append(t.got, level)
  <2>1. n < ResetOnes
    BY <1>1, <1>5
  <2>2. g \in BitString /\ Len(g) \in Nat \ {0}
    <3>1. ASSUME NEW a \in BitString, NEW b \in BOOLEAN
          PROVE  Append(a, b) \in BitString /\ Len(Append(a, b)) \in Nat \ {0}
      <4>1. Append(a, b) \in BitString /\ Len(Append(a, b)) = Len(a) + 1 /\ Len(a) \in Nat
        BY Longer
      <4>. QED
        BY <4>1
    <3>2. t.got \in BitString
      BY <1>1 DEF Targets
    <3>. HIDE DEF counted, x, u
    <3>. QED
      BY <3>1, <3>2
  <2>3. g # <<>>
    BY <2>2
  <2>. HIDE DEF u, g
  <2>4. AfterBit(u, t, g, n)
    BY <1>1, <1>5, <2>1, HeaderClock DEF u, g
  <2>5. /\ u.settings = t.settings /\ u.reply = t.reply /\ u.taken = t.taken
        /\ u.plan = <<>> /\ u.ones = n /\ u.st \in {"idle", "lost", "error"}
        /\ u.st = "idle" => u.got = g
    <3>1. CASE Len(g) < 8
      BY <2>4, <3>1 DEF AfterBit
    <3>2. CASE ~(Len(g) < 8) /\ g[6] = Odd(SubSeq(g, 2, 5)) /\ ~g[7] /\ g[8]
      BY <1>1, <2>2, <2>4, <3>2 DEF AfterBit
    <3>3. CASE ~(Len(g) < 8) /\ ~(g[6] = Odd(SubSeq(g, 2, 5)) /\ ~g[7] /\ g[8])
      BY <1>1, <2>2, <2>4, <3>3 DEF AfterBit
    <3>. QED
      BY <3>1, <3>2, <3>3
  <2>6. Listened(u, t, level, n)
    BY <1>1, <1>5, <2>1, <2>3, <2>5 DEF Listened, Listens
  <2>. QED
    BY <2>6 DEF u
<1>. QED
  BY <1>2, <1>3, <1>4, <1>5

\* A wire at which there is no line reset.
Quiet(w) ==
    /\ w \in Wires /\ Listens(w.target) /\ w.target.st # "reset"
    /\ (w.target.st = "idle" /\ w.target.got = <<>>) => w.target.ones = 0

\* From w to v no line reset has been sent.
Calm(v, w) ==
    /\ Quiet(v) /\ v.target.settings = w.target.settings
    /\ w.target.st = "lost" => v.target.st = "lost"

LEMMA QuietClock ==
  ASSUME NEW w, Quiet(w),
         (Pulses(w) /\ Drives(w) /\ w.level) => w.target.ones + 1 < ResetOnes
  PROVE  /\ Calm(Clock(w), w) /\ SameLines(Clock(w), w)
         /\ Clock(w).target.ones <= w.target.ones + 1
         /\ ~Drives(w) => Clock(w).target.ones <= w.target.ones
<1>. DEFINE t == w.target
            level == Line(w)
            probe == Drives(w)
            n == IF level /\ probe THEN t.ones + 1 ELSE 0
            u == Clock(w).target
<1>1. /\ w \in Wires /\ Listens(t) /\ t.st # "reset" /\ t \in Targets /\ t.ones \in Nat
      /\ (t.st = "idle" /\ t.got = <<>>) => t.ones = 0
      /\ Clock(w) \in Wires /\ probe \in BOOLEAN
  BY ClockTyped DEF Quiet, Listens, Targets, Drives
<1>2. /\ SameLines(Clock(w), w) /\ level \in BOOLEAN
      /\ Pulses(w) => u = Edge(t, level, probe)
      /\ ~Pulses(w) => u = t
  BY <1>1, ClockFields
<1>3. /\ level /\ probe => w.level
      /\ n \in Nat /\ n <= t.ones + 1 /\ (~probe => n <= t.ones)
  BY <1>1 DEF Line
<1>4. CASE ~Pulses(w)
  <2>1. u = t
    BY <1>2, <1>4
  <2>. HIDE DEF u, t
  <2>2. Calm(Clock(w), w)
    BY <1>1, <2>1 DEF Calm, Quiet, u, t
  <2>3. u.ones <= t.ones /\ u.ones <= t.ones + 1
    BY <1>1, <2>1
  <2>. QED
    BY <1>2, <2>2, <2>3 DEF u, t
<1>5. CASE Pulses(w)
  <2>0. n < ResetOnes
    BY <1>3, <1>5, WireAssumption
  <2>01. n = 0 \/ level
    OBVIOUS
  <2>1. Listened(Edge(t, level, probe), t, level, n)
    <3>. HIDE DEF t, level, probe
    <3>. QED
      BY <1>1, <1>2, EdgeListened
  <2>2. Listened(u, t, level, n)
    BY <1>2, <1>5, <2>1
  <2>. HIDE DEF u, t, level, n, probe
  <2>3. /\ Listens(u) /\ u.settings = t.settings /\ u.st # "reset" /\ u.ones = n
        /\ t.st # "idle" => u.st = t.st
        /\ (t.st = "idle" /\ (level \/ t.got # <<>>) /\ u.st = "idle") => u.got # <<>>
    BY <1>1, <2>0, <2>2 DEF Listened
  <2>4. (u.st = "idle" /\ u.got = <<>>) => u.ones = 0
    <3>. SUFFICES ASSUME u.st = "idle", u.got = <<>> PROVE u.ones = 0
      OBVIOUS
    <3>1. t.st = "idle" /\ ~level
      BY <1>2, <2>3
    <3>. QED
      BY <2>01, <2>3, <3>1
  <2>5. Calm(Clock(w), w)
    BY <1>1, <2>3, <2>4 DEF Calm, Quiet, u, t
  <2>. QED
    BY <1>2, <1>3, <2>3, <2>5 DEF u, t, probe
<1>. QED
  BY <1>4, <1>5

LEMMA QuietTurned ==
  ASSUME NEW w, Quiet(w)
  PROVE  /\ Calm(w, w) /\ Calm(TMS_in(w), w) /\ Calm(TMS_out(w), w)
         /\ TMS_in(w).target = w.target /\ TMS_out(w).target = w.target
         /\ (Pulses(TMS_in(w)) <=> Pulses(w)) /\ (Pulses(TMS_out(w)) <=> Pulses(w))
         /\ ~Drives(TMS_in(w)) /\ Drives(TMS_out(w))
         /\ \A b \in BOOLEAN : Quiet(Level(w, b)) /\ Level(w, b).target = w.target
<1>1. w \in Wires
  BY DEF Quiet
<1>2. /\ TMS_in(w) \in Wires /\ TMS_out(w) \in Wires
      /\ TMS_in(w).target = w.target /\ TMS_out(w).target = w.target
      /\ (Pulses(TMS_in(w)) <=> Pulses(w)) /\ (Pulses(TMS_out(w)) <=> Pulses(w))
      /\ ~Drives(TMS_in(w)) /\ Drives(TMS_out(w))
  BY <1>1, TurnTyped, TurnFields
<1>3. \A b \in BOOLEAN : Level(w, b) \in Wires /\ Level(w, b).target = w.target
  BY <1>1, LevelFields
<1>. QED
  BY <1>2, <1>3 DEF Quiet, Calm

\* Clocks with the probe listening.
LEMMA QuietRun ==
  ASSUME NEW w, Quiet(w), ~Drives(w), NEW n \in Nat
  PROVE  /\ Calm(Run(w, n), w) /\ SamePins(Run(w, n), w)
         /\ Run(w, n).target.ones <= w.target.ones
<1>. DEFINE S == {x \in Wires : /\ Calm(x, w) /\ SamePins(x, w)
                                /\ x.target.ones <= w.target.ones}
<1>1. w \in S
  BY DEF Calm, Quiet, SamePins, Wires, Targets
<1>2. ASSUME NEW x \in S PROVE Clock(x) \in S
  <2>1. /\ x \in Wires /\ Calm(x, w) /\ SamePins(x, w) /\ Quiet(x)
        /\ x.target.ones <= w.target.ones
    BY DEF Calm
  <2>2. ~Drives(x)
    BY <2>1, PinsDecide
  <2>3. /\ Calm(Clock(x), x) /\ SameLines(Clock(x), x)
        /\ Clock(x).target.ones <= x.target.ones
    BY <2>1, <2>2, QuietClock
  <2>4. Clock(x) \in Wires
    BY <2>1, ClockTyped
  <2>5. /\ Clock(x).target.ones \in Nat /\ x.target.ones \in Nat /\ w.target.ones \in Nat
    BY <2>1, <2>4 DEF Quiet, Wires, Targets
  <2>6. Clock(x).target.ones <= w.target.ones
    BY <2>1, <2>3, <2>5
  <2>. QED
    BY <2>1, <2>3, <2>4, <2>6 DEF Calm, SameLines, SamePins
<1>. HIDE DEF S
<1>3. Run(w, n) \in S
  BY <1>1, <1>2, Clocks!Stays DEF Run
<1>. QED
  BY <1>3 DEF S

\* Bits that are too few for a line reset.
LEMMA QuietWritten ==
  ASSUME NEW w, Quiet(w), NEW b \in BitString,
         (Pulses(w) /\ Drives(w)) => w.target.ones + Len(b) < ResetOnes
  PROVE  /\ Calm(Write(w, b), w) /\ SamePins(Write(w, b), w)
         /\ Write(w, b).target.ones <= w.target.ones + Len(b)
<1>. DEFINE B(k) == Bits!Iterated(w, b, k)
            Good(x, k) == /\ Calm(x, w) /\ SamePins(x, w)
                          /\ x.target.ones <= w.target.ones + k
            T == {k \in Nat : k <= Len(b) => Good(B(k), k)}
<1>0. Len(b) \in Nat /\ w.target.ones \in Nat
  BY BitsOf DEF Quiet, Wires, Targets
<1>1. 0 \in T
  <2>1. B(0) = w
    BY WrittenNone
  <2>2. Good(w, 0)
    BY <1>0 DEF Calm, Quiet, SamePins
  <2>. HIDE DEF B, Good
  <2>. QED
    BY <2>1, <2>2
<1>2. ASSUME NEW k \in Nat, k + 1 <= Len(b), NEW x, Good(x, k)
      PROVE  Good(Clock(Level(x, b[k + 1])), k + 1)
  <2>. DEFINE y == Level(x, b[k + 1])
  <2>1. b[k + 1] \in BOOLEAN
    <3>1. k + 1 \in 1 .. Len(b)
      BY <1>0, <1>2
    <3>. QED
      BY <3>1, BitsOf
  <2>2. Calm(x, w) /\ SamePins(x, w) /\ x.target.ones <= w.target.ones + k
    BY <1>2
  <2>3. Quiet(x) /\ x \in Wires
    BY <2>2 DEF Calm, Quiet
  <2>4. /\ Quiet(y) /\ y.target = x.target /\ y \in Wires
        /\ y.mode = x.mode /\ y.dir = x.dir
    BY <2>1, <2>3, QuietTurned, LevelFields
  <2>. HIDE DEF y
  <2>5. SamePins(y, w) /\ y.target.ones \in Nat
    BY <2>2, <2>4 DEF SamePins, Wires, Targets
  <2>6. (Pulses(y) /\ Drives(y)) => y.target.ones + 1 < ResetOnes
    <3>. SUFFICES ASSUME Pulses(y), Drives(y) PROVE y.target.ones + 1 < ResetOnes
      OBVIOUS
    <3>1. Pulses(w) /\ Drives(w)
      BY <2>5, PinsDecide
    <3>2. w.target.ones + Len(b) < ResetOnes /\ y.target.ones <= w.target.ones + k
      BY <2>2, <2>4, <3>1
    <3>. DEFINE o == w.target.ones
                z == y.target.ones
    <3>3. o \in Nat /\ z \in Nat /\ o + Len(b) < ResetOnes /\ z <= o + k /\ ResetOnes \in Nat
      BY <1>0, <2>5, <3>2, WireAssumption
    <3>. HIDE DEF o, z
    <3>4. z + 1 < ResetOnes
      BY <1>0, <1>2, <3>3
    <3>. QED
      BY <3>4 DEF z
  <2>7. /\ Calm(Clock(y), y) /\ SameLines(Clock(y), y)
        /\ Clock(y).target.ones <= y.target.ones + 1
    BY <2>4, <2>6, QuietClock
  <2>8. Calm(Clock(y), w) /\ SamePins(Clock(y), w)
    BY <2>2, <2>4, <2>5, <2>7 DEF Calm, SameLines, SamePins
  <2>9. Clock(y).target.ones <= w.target.ones + (k + 1)
    <3>. DEFINE o == w.target.ones
                z == y.target.ones
                q == Clock(y).target.ones
    <3>1. o \in Nat /\ z \in Nat /\ z <= o + k /\ q <= z + 1 /\ q \in Nat
      BY <1>0, <2>2, <2>4, <2>5, <2>7 DEF Calm, Quiet, Wires, Targets
    <3>. HIDE DEF o, z, q
    <3>2. q <= o + (k + 1)
      BY <3>1
    <3>. QED
      BY <3>2 DEF o, q
  <2>10. Good(Clock(y), k + 1)
    BY <2>8, <2>9
  <2>. QED
    BY <2>10 DEF y
<1>3. ASSUME NEW k \in T PROVE k + 1 \in T
  <2>1. B(k + 1) = Clock(Level(B(k), b[k + 1]))
    BY WrittenNext
  <2>2. k \in Nat /\ (k <= Len(b) => Good(B(k), k))
    OBVIOUS
  <2>. HIDE DEF T, B, Good
  <2>3. k + 1 <= Len(b) => Good(B(k + 1), k + 1)
    BY <1>0, <1>2, <2>1, <2>2
  <2>. QED
    BY <2>2, <2>3 DEF T
<1>4. T \in SUBSET Nat
  OBVIOUS
<1>. HIDE DEF T
<1>5. T = Nat
  BY <1>1, <1>3, <1>4, Bits!Induction
<1>6. Good(B(Len(b)), Len(b))
  <2>. HIDE DEF Good, B
  <2>. QED
    BY <1>0, <1>5 DEF T
<1>. QED
  BY <1>6 DEF Write

\* During a line reset, k ones have been sent from w.
Counting(v, w, k) ==
    /\ v \in Wires /\ SamePins(v, w) /\ Listens(v.target)
    /\ v.target.settings = w.target.settings
    /\ IF v.target.st = "reset" THEN v.target.got = <<>>
                                ELSE k <= v.target.ones /\ v.target.ones < ResetOnes

LEMMA OneCounted ==
  ASSUME NEW w, Pulses(w), Drives(w), NEW k \in Nat, NEW v, Counting(v, w, k),
         NEW b \in BOOLEAN, b
  PROVE  Counting(Clock(Level(v, b)), w, k + 1)
<1>. DEFINE y == Level(v, b)
            u == Clock(y).target
            t == y.target
            n == t.ones + 1
            probe == Drives(y)
            level == Line(y)
<1>1. v \in Wires /\ SamePins(v, w) /\ Listens(v.target)
  BY DEF Counting
<1>2. /\ y \in Wires /\ t = v.target /\ y.mode = v.mode /\ y.dir = v.dir /\ y.level = b
  BY <1>1, LevelFields
<1>. HIDE DEF y
<1>3. Pulses(y) /\ Drives(y) /\ SamePins(y, w) /\ (level <=> TRUE)
  <2>1. SamePins(y, w)
    BY <1>1, <1>2 DEF SamePins
  <2>2. Pulses(y) /\ Drives(y)
    BY <2>1, PinsDecide
  <2>. QED
    BY <1>2, <2>1, <2>2 DEF Line
<1>4. /\ u = Edge(t, level, probe) /\ SamePins(Clock(y), y) /\ level \in BOOLEAN
      /\ probe \in BOOLEAN /\ Clock(y) \in Wires
  BY <1>2, <1>3, ClockFields, ClockTyped DEF SameLines, Drives
<1>5. n = IF level /\ probe THEN t.ones + 1 ELSE 0
  BY <1>3
<1>6. Listens(t) /\ t.ones \in Nat
  BY <1>1, <1>2 DEF Listens, Targets
<1>7. /\ IF t.st = "reset" THEN t.got = <<>> ELSE k <= t.ones /\ t.ones < ResetOnes
      /\ t.settings = w.target.settings
  BY <1>2 DEF Counting
<1>8. n \in Nat /\ n = t.ones + 1 /\ ResetOnes \in Nat
  BY <1>6, WireAssumption
<1>. HIDE DEF t, u, n, probe, level
<1>9. Listened(u, t, level, n)
  BY <1>4, <1>5, <1>6, EdgeListened
<1>10. Listens(u) /\ u.settings = t.settings
  BY <1>9 DEF Listened
<1>11. IF u.st = "reset" THEN u.got = <<>> ELSE k + 1 <= u.ones /\ u.ones < ResetOnes
  <2>1. CASE n >= ResetOnes
    BY <1>9, <2>1 DEF Listened
  <2>2. CASE n < ResetOnes /\ t.st = "reset"
    BY <1>3, <1>7, <1>9, <2>2 DEF Listened
  <2>3. CASE n < ResetOnes /\ t.st # "reset"
    <3>1. u.st # "reset" /\ u.ones = n /\ k <= t.ones
      BY <1>7, <1>9, <2>3 DEF Listened
    <3>2. k + 1 <= n
      BY <1>6, <1>8, <3>1
    <3>. QED
      BY <2>3, <3>1, <3>2
  <2>. QED
    BY <1>8, <2>1, <2>2, <2>3
<1>12. Counting(Clock(y), w, k + 1)
  BY <1>3, <1>4, <1>7, <1>10, <1>11 DEF Counting, SamePins, u
<1>. QED
  BY <1>12 DEF y

\* The reset is over, and the target is in step again.
Back(v, w) ==
    /\ v \in Wires /\ SamePins(v, w) /\ Listens(v.target)
    /\ v.target.settings = w.target.settings
    /\ v.target.st = "idle" /\ v.target.got = <<>> /\ v.target.ones = 0

LEMMA ResetEnds ==
  ASSUME NEW w, Pulses(w), Drives(w), NEW v, v \in Wires, SamePins(v, w), Listens(v.target),
         v.target.settings = w.target.settings,
         v.target.st \in {"reset", "idle"}, v.target.got = <<>>,
         NEW b \in BOOLEAN, ~b
  PROVE  Back(Clock(Level(v, b)), w)
<1>. DEFINE y == Level(v, b)
            u == Clock(y).target
            t == y.target
            n == 0
            probe == Drives(y)
            level == Line(y)
<1>2. /\ y \in Wires /\ t = v.target /\ y.mode = v.mode /\ y.dir = v.dir /\ y.level = b
  BY LevelFields
<1>. HIDE DEF y
<1>3. Pulses(y) /\ Drives(y) /\ SamePins(y, w) /\ ~level
  <2>1. SamePins(y, w)
    BY <1>2 DEF SamePins
  <2>2. Pulses(y) /\ Drives(y)
    BY <2>1, PinsDecide
  <2>. QED
    BY <1>2, <2>1, <2>2 DEF Line
<1>4. /\ u = Edge(t, level, probe) /\ SamePins(Clock(y), y) /\ level \in BOOLEAN
      /\ probe \in BOOLEAN /\ Clock(y) \in Wires
  BY <1>2, <1>3, ClockFields, ClockTyped DEF SameLines, Drives
<1>5. n = (IF level /\ probe THEN t.ones + 1 ELSE 0) /\ n < ResetOnes /\ n = 0
  BY <1>3, WireAssumption
<1>6. /\ Listens(t) /\ t.settings = w.target.settings /\ t.st \in {"reset", "idle"}
      /\ t.got = <<>>
  BY <1>2
<1>. HIDE DEF t, u, n, probe, level
<1>9. Listened(u, t, level, n)
  BY <1>4, <1>5, <1>6, EdgeListened
<1>10. /\ Listens(u) /\ u.settings = t.settings /\ u.st = "idle" /\ u.got = <<>> /\ u.ones = 0
  BY <1>3, <1>5, <1>6, <1>9 DEF Listened
<1>11. SamePins(Clock(y), w)
  BY <1>3, <1>4 DEF SamePins
<1>12. Back(Clock(y), w)
  BY <1>4, <1>6, <1>10, <1>11 DEF Back, u
<1>. QED
  BY <1>12 DEF y

LEMMA SentBits ==
  /\ LineReset \in BitString /\ Len(LineReset) = ResetOnes + 2
  /\ \A k \in 1 .. ResetOnes : LineReset[k]
  /\ ~LineReset[ResetOnes + 1] /\ ~LineReset[ResetOnes + 2]
  /\ Zeros \in BitString /\ Len(Zeros) = 2 /\ Junk \in BitString /\ Len(Junk) = 3
  /\ Zeros # LineReset /\ Junk # LineReset
<1>. DEFINE ones == [k \in 1 .. ResetOnes |-> TRUE]
            ends == <<FALSE, FALSE>>
<1>0. ResetOnes \in Nat /\ ResetOnes > 8
  BY WireAssumption
<1>1. ones \in BitString /\ Len(ones) = ResetOnes /\ \A k \in 1 .. ResetOnes : ones[k]
  <2>1. ones \in [1 .. ResetOnes -> BOOLEAN]
    OBVIOUS
  <2>2. \A k \in 1 .. ResetOnes : ones[k]
    OBVIOUS
  <2>. HIDE DEF ones
  <2>3. ones \in BitString /\ Len(ones) = ResetOnes
    BY <1>0, <2>1, FunctionsAreStrings
  <2>. QED
    BY <2>2, <2>3
<1>2. ends \in BitString /\ Len(ends) = 2 /\ ~ends[1] /\ ~ends[2]
  BY DEF BitString
<1>3. LineReset = ones \o ends
  BY DEF LineReset
<1>. HIDE DEF ones, ends
<1>4. /\ ones \o ends \in BitString /\ Len(ones \o ends) = Len(ones) + Len(ends)
      /\ \A j \in 1 .. Len(ones) : (ones \o ends)[j] = ones[j]
      /\ \A j \in 1 .. Len(ends) : (ones \o ends)[Len(ones) + j] = ends[j]
  BY <1>1, <1>2, Concat
<1>5. /\ LineReset \in BitString /\ Len(LineReset) = ResetOnes + 2
      /\ \A k \in 1 .. ResetOnes : LineReset[k]
      /\ ~LineReset[ResetOnes + 1] /\ ~LineReset[ResetOnes + 2]
  <2>1. 1 \in 1 .. Len(ends) /\ 2 \in 1 .. Len(ends)
    BY <1>2
  <2>2. \A k \in 1 .. ResetOnes : LineReset[k] = ones[k]
    BY <1>1, <1>3, <1>4
  <2>3. LineReset[ResetOnes + 1] = ends[1] /\ LineReset[ResetOnes + 2] = ends[2]
    BY <1>1, <1>3, <1>4, <2>1
  <2>4. \A k \in 1 .. ResetOnes : LineReset[k]
    BY <1>1, <2>2, Zenon
  <2>5. ~LineReset[ResetOnes + 1] /\ ~LineReset[ResetOnes + 2]
    BY <1>2, <2>3, Zenon
  <2>6. LineReset \in BitString /\ Len(LineReset) = ResetOnes + 2
    BY <1>1, <1>2, <1>3, <1>4
  <2>. QED
    BY <2>4, <2>5, <2>6
<1>6. Zeros \in BitString /\ Len(Zeros) = 2 /\ Junk \in BitString /\ Len(Junk) = 3
  BY DEF Zeros, Junk, BitString
<1>7. Zeros # LineReset /\ Junk # LineReset
  <2>1. Len(Zeros) # Len(LineReset) /\ Len(Junk) # Len(LineReset)
    BY <1>0, <1>5, <1>6
  <2>. QED
    BY <2>1, Zenon
<1>. QED
  BY <1>5, <1>6, <1>7

\* A line reset brings the target back.
LEMMA LineResetWritten ==
  ASSUME NEW w, Quiet(w), Pulses(w), Drives(w), w.target.ones < ResetOnes
  PROVE  Back(Write(w, LineReset), w) /\ Quiet(Write(w, LineReset))
<1>. DEFINE b == LineReset
            B(k) == Bits!Iterated(w, b, k)
            T == {k \in Nat : k <= ResetOnes => Counting(B(k), w, k)}
<1>0. ResetOnes \in Nat /\ w.target.ones \in Nat
  BY WireAssumption DEF Quiet, Wires, Targets
<1>00. /\ Len(b) = ResetOnes + 2 /\ b \in BitString
       /\ \A k \in 1 .. ResetOnes + 2 : b[k] \in BOOLEAN
       /\ \A k \in 1 .. ResetOnes : b[k]
       /\ ~b[ResetOnes + 1] /\ ~b[ResetOnes + 2]
  BY <1>0, SentBits, BitsOf
<1>01. \A k \in Nat : B(k + 1) = Clock(Level(B(k), b[k + 1]))
  BY WrittenNext
<1>02. B(0) = w
  BY WrittenNone
<1>03. Write(w, LineReset) = B(ResetOnes + 2)
  BY <1>00 DEF Write
<1>. HIDE DEF B, b
<1>1. 0 \in T
  <2>1. Counting(w, w, 0)
    BY <1>0 DEF Quiet, Counting, SamePins
  <2>. QED
    BY <1>02, <2>1
<1>2. ASSUME NEW k \in T PROVE k + 1 \in T
  <2>1. k \in Nat /\ (k <= ResetOnes => Counting(B(k), w, k))
    OBVIOUS
  <2>. HIDE DEF T
  <2>2. ASSUME k + 1 <= ResetOnes PROVE Counting(B(k + 1), w, k + 1)
    <3>. DEFINE v == B(k)
                bit == b[k + 1]
    <3>1. k + 1 \in 1 .. ResetOnes /\ k + 1 \in 1 .. ResetOnes + 2
      BY <1>0, <2>1, <2>2
    <3>2. bit \in BOOLEAN /\ bit
      BY <1>00, <3>1
    <3>3. Counting(v, w, k)
      BY <1>0, <2>1, <2>2
    <3>4. B(k + 1) = Clock(Level(v, bit))
      BY <1>01, <2>1
    <3>. HIDE DEF v, bit
    <3>. QED
      BY <2>1, <3>2, <3>3, <3>4, OneCounted
  <2>. QED
    BY <2>1, <2>2 DEF T
<1>3. T \in SUBSET Nat
  OBVIOUS
<1>. HIDE DEF T
<1>4. T = Nat
  BY <1>1, <1>2, <1>3, Bits!Induction
<1>. DEFINE v == B(ResetOnes)
            v1 == B(ResetOnes + 1)
            v2 == B(ResetOnes + 2)
            b1 == b[ResetOnes + 1]
            b2 == b[ResetOnes + 2]
<1>5. Counting(v, w, ResetOnes)
  BY <1>0, <1>4 DEF T
<1>6. v1 = Clock(Level(v, b1)) /\ v2 = Clock(Level(v1, b2))
  BY <1>0, <1>01
<1>7. b1 \in BOOLEAN /\ b2 \in BOOLEAN /\ ~b1 /\ ~b2
  BY <1>0, <1>00
<1>. HIDE DEF v, v1, v2, b1, b2
<1>8. /\ v \in Wires /\ SamePins(v, w) /\ Listens(v.target)
      /\ v.target.settings = w.target.settings
      /\ v.target.st = "reset" /\ v.target.got = <<>>
  <2>1. v.target.ones \in Nat
    BY <1>5 DEF Counting, Listens, Targets
  <2>. QED
    BY <1>0, <1>5, <2>1 DEF Counting
<1>9. Back(v1, w)
  BY <1>6, <1>7, <1>8, ResetEnds
<1>10. Back(v2, w)
  BY <1>6, <1>7, <1>9, ResetEnds DEF Back
<1>11. Quiet(v2)
  BY <1>10 DEF Back, Quiet
<1>. QED
  BY <1>03, <1>10, <1>11 DEF v2

\* From w to v some bits have been sent, and read.
Sequenced(v, w) ==
    /\ Quiet(v) /\ v.target.settings = w.target.settings
    /\ Pulses(v) <=> Pulses(w)
    /\ (~Pulses(w) /\ w.target.st = "lost") => v.target.st = "lost"

\* Bits that are written, whatever they are.
LEMMA SentQuiet ==
  ASSUME NEW w, Quiet(w), w.target.ones <= 2, NEW b \in {LineReset, Zeros, Junk}
  PROVE  LET v == Write(w, b)
         IN  /\ Sequenced(v, w) /\ SamePins(v, w)
             /\ b = Zeros => v.target.ones <= w.target.ones + 2
             /\ (~(Pulses(w) /\ Drives(w)) /\ w.target.st = "lost") => v.target.st = "lost"
             /\ (Pulses(w) /\ Drives(w) /\ b = LineReset) =>
                   v.target.st = "idle" /\ v.target.got = <<>>
<1>. DEFINE v == Write(w, b)
<1>0. /\ ResetOnes \in Nat /\ ResetOnes > 8 /\ w.target.ones \in Nat
      /\ b \in BitString
  BY WireAssumption, SentBits DEF Quiet, Wires, Targets
<1>1. CASE Pulses(w) /\ Drives(w) /\ b = LineReset
  <2>1. w.target.ones < ResetOnes
    BY <1>0
  <2>2. Back(v, w) /\ Quiet(v)
    BY <1>1, <2>1, LineResetWritten
  <2>. HIDE DEF v
  <2>3. b # Zeros
    BY <1>1, SentBits
  <2>4. /\ Quiet(v) /\ v.target.settings = w.target.settings /\ SamePins(v, w)
        /\ v.target.st = "idle" /\ v.target.got = <<>>
    BY <2>2 DEF Back
  <2>5. Pulses(v) <=> Pulses(w)
    BY <2>4, PinsDecide
  <2>. QED
    BY <1>1, <2>3, <2>4, <2>5 DEF Sequenced, v
<1>2. CASE ~(Pulses(w) /\ Drives(w) /\ b = LineReset)
  <2>1. (Pulses(w) /\ Drives(w)) => w.target.ones + Len(b) < ResetOnes
    <3>. SUFFICES ASSUME Pulses(w), Drives(w) PROVE w.target.ones + Len(b) < ResetOnes
      OBVIOUS
    <3>1. Len(b) \in 2 .. 3
      BY <1>2, SentBits
    <3>. DEFINE o == w.target.ones
                l == Len(b)
    <3>2. o \in Nat /\ o <= 2 /\ l \in 2 .. 3
      BY <1>0, <3>1
    <3>. HIDE DEF o, l
    <3>3. o + l < ResetOnes
      BY <1>0, <3>2
    <3>. QED
      BY <3>3 DEF o, l
  <2>2. /\ Calm(v, w) /\ SamePins(v, w) /\ v.target.ones <= w.target.ones + Len(b)
    BY <1>0, <2>1, QuietWritten
  <2>. HIDE DEF v
  <2>3. Pulses(v) <=> Pulses(w)
    BY <2>2, PinsDecide
  <2>4. b = Zeros => v.target.ones <= w.target.ones + 2
    BY <2>2, SentBits
  <2>. QED
    BY <1>2, <2>2, <2>3, <2>4 DEF Calm, Sequenced, v
<1>. QED
  BY <1>1, <1>2

\* A part of dap_swd_sequence.
LEMMA PlayQuiet ==
  ASSUME NEW w, Quiet(w), NEW part, part.din \in BOOLEAN, part.bits \in {LineReset, Zeros, Junk},
         ~part.din => w.target.ones <= 2
  PROVE  LET v == Play(w, part)
         IN  /\ Sequenced(v, w)
             /\ (part.bits = Zeros /\ w.target.ones = 0) => v.target.ones <= 2
             /\ (~part.din /\ part.bits = LineReset /\ Pulses(w)) =>
                   v.target.st = "idle" /\ v.target.got = <<>>
<1>. DEFINE v == Play(w, part)
            b == part.bits
            x == TMS_in(w)
            y == TMS_out(w)
<1>1. /\ Calm(x, w) /\ Calm(y, w) /\ x.target = w.target /\ y.target = w.target
      /\ (Pulses(x) <=> Pulses(w)) /\ (Pulses(y) <=> Pulses(w))
      /\ ~Drives(x) /\ Drives(y)
  BY QuietTurned
<1>2. v = IF part.din THEN Run(x, Len(b)) ELSE Write(y, b)
  BY DEF Play
<1>. HIDE DEF v, x, y
<1>3. Len(b) \in Nat /\ Quiet(x) /\ Quiet(y) /\ w.target.ones \in Nat
  BY <1>1, SentInputs DEF Calm, Quiet, Wires, Targets
<1>. HIDE DEF b
<1>4. CASE part.din
  <2>1. v = Run(x, Len(b))
    BY <1>2, <1>4
  <2>2. Calm(v, x) /\ SamePins(v, x) /\ v.target.ones <= x.target.ones
    BY <1>1, <1>3, <2>1, QuietRun
  <2>3. Pulses(v) <=> Pulses(x)
    BY <2>2, PinsDecide
  <2>4. Sequenced(v, w)
    BY <1>1, <2>2, <2>3 DEF Calm, Sequenced
  <2>5. w.target.ones = 0 => v.target.ones <= 2
    <3>1. v.target.ones \in Nat
      BY <2>2 DEF Calm, Quiet, Wires, Targets
    <3>. QED
      BY <1>1, <2>2, <3>1
  <2>. QED
    BY <1>4, <2>4, <2>5 DEF v
<1>5. CASE ~part.din
  <2>1. v = Write(y, b) /\ y.target.ones <= 2 /\ b \in {LineReset, Zeros, Junk}
    BY <1>1, <1>2, <1>5 DEF b
  <2>2. /\ Sequenced(v, y)
        /\ b = Zeros => v.target.ones <= y.target.ones + 2
        /\ (Pulses(y) /\ Drives(y) /\ b = LineReset) =>
              v.target.st = "idle" /\ v.target.got = <<>>
    BY <1>3, <2>1, SentQuiet
  <2>3. Sequenced(v, w)
    BY <1>1, <2>2 DEF Sequenced
  <2>. QED
    BY <1>1, <1>5, <2>2, <2>3 DEF v, b
<1>. QED
  BY <1>4, <1>5

LEMMA TwoPlayed ==
  ASSUME NEW parts, Len(parts) = 2, parts[1].din \in BOOLEAN, parts[2].din \in BOOLEAN,
         parts[1].bits \in {LineReset, Zeros, Junk}, parts[2].bits \in {LineReset, Zeros, Junk},
         parts[2].din \/ parts[1].bits = Zeros, parts[2].din => parts[2].bits = Zeros,
         Quiet(Wire(target)), target.ones = 0, Wire(target).target = target
  PROVE  LET v == Sequence(parts)
         IN  /\ Sequenced(v, Wire(target)) /\ Drives(v)
             /\ (parts[Len(parts)].bits = LineReset /\ Pulses(Wire(target))) =>
                   v.target.st = "idle" /\ v.target.got = <<>>
<1>. DEFINE w == Wire(target)
            P(n) == Parts!Iterated(w, parts, n)
            x == P(1)
            y == P(2)
            v == TMS_out(y)
            p == parts[1]
            q == parts[2]
<1>1. P(0) = w /\ P(0 + 1) = Play(P(0), parts[0 + 1]) /\ P(1 + 1) = Play(P(1), parts[1 + 1])
  BY Parts!Unrolled
<1>2. x = Play(w, p) /\ y = Play(x, q)
  <2>. HIDE DEF P
  <2>. QED
    BY <1>1
<1>3. v = Sequence(parts)
  BY DEF Sequence
<1>4. Quiet(w) /\ w.target.ones = 0
  OBVIOUS
<1>5. /\ p.din \in BOOLEAN /\ q.din \in BOOLEAN
      /\ p.bits \in {LineReset, Zeros, Junk} /\ q.bits \in {LineReset, Zeros, Junk}
      /\ q.din \/ p.bits = Zeros
      /\ q.din => q.bits = Zeros
      /\ parts[Len(parts)].bits = q.bits
  OBVIOUS
<1>. HIDE DEF P, w, x, y, v, p, q
<1>6. Sequenced(x, w) /\ (p.bits = Zeros => x.target.ones <= 2)
  <2>1. w.target.ones <= 2
    BY <1>4
  <2>. QED
    BY <1>2, <1>4, <1>5, <2>1, PlayQuiet
<1>7. /\ Sequenced(y, x)
      /\ (~q.din /\ q.bits = LineReset /\ Pulses(x)) =>
            y.target.st = "idle" /\ y.target.got = <<>>
  <2>1. Quiet(x) /\ (~q.din => x.target.ones <= 2)
    BY <1>5, <1>6 DEF Sequenced
  <2>. QED
    BY <1>2, <1>5, <2>1, PlayQuiet
<1>8. /\ Calm(v, y) /\ v.target = y.target /\ (Pulses(v) <=> Pulses(y)) /\ Drives(v)
  <2>1. Quiet(y)
    BY <1>7 DEF Sequenced
  <2>. HIDE DEF y
  <2>. QED
    BY <2>1, QuietTurned DEF v
<1>9. Sequenced(v, w)
  BY <1>6, <1>7, <1>8 DEF Sequenced, Calm
<1>10. (q.bits = LineReset /\ Pulses(w)) => v.target.st = "idle" /\ v.target.got = <<>>
  <2>1. q.bits = LineReset => ~q.din
    BY <1>5, SentBits
  <2>2. Pulses(w) => Pulses(x)
    BY <1>6 DEF Sequenced
  <2>. QED
    BY <1>7, <1>8, <2>1, <2>2
<1>. QED
  BY <1>3, <1>5, <1>8, <1>9, <1>10 DEF w

\* dap_swd_sequence, with one of its two lists of parts.
LEMMA SequenceQuiet ==
  ASSUME NEW b \in {LineReset, Zeros, Junk}, NEW parts,
         \/ \E din \in BOOLEAN : parts = <<Part(din, Zeros), Part(FALSE, b)>>
         \/ parts = <<Part(FALSE, b), Part(TRUE, Zeros)>>,
         Quiet(Wire(target)), target.ones = 0, Wire(target).target = target
  PROVE  LET v == Sequence(parts)
         IN  /\ Sequenced(v, Wire(target)) /\ Drives(v)
             /\ (parts[Len(parts)].bits = LineReset /\ Pulses(Wire(target))) =>
                   v.target.st = "idle" /\ v.target.got = <<>>
<1>1. CASE parts = <<Part(FALSE, b), Part(TRUE, Zeros)>>
  <2>1. /\ Len(parts) = 2 /\ parts[1].din = FALSE /\ parts[1].bits = b
        /\ parts[2].din = TRUE /\ parts[2].bits = Zeros
    BY <1>1 DEF Part
  <2>2. parts[1].din \in BOOLEAN /\ parts[2].din \in BOOLEAN
    BY <2>1
  <2>3. /\ parts[1].bits \in {LineReset, Zeros, Junk}
        /\ parts[2].bits \in {LineReset, Zeros, Junk}
    BY <2>1
  <2>. QED
    BY <2>1, <2>2, <2>3, TwoPlayed
<1>2. ASSUME NEW din \in BOOLEAN, parts = <<Part(din, Zeros), Part(FALSE, b)>>
      PROVE  LET v == Sequence(parts)
             IN  /\ Sequenced(v, Wire(target)) /\ Drives(v)
                 /\ (parts[Len(parts)].bits = LineReset /\ Pulses(Wire(target))) =>
                       v.target.st = "idle" /\ v.target.got = <<>>
  <2>1. /\ Len(parts) = 2 /\ parts[1].din = din /\ parts[1].bits = Zeros
        /\ parts[2].din = FALSE /\ parts[2].bits = b
    BY <1>2 DEF Part
  <2>2. parts[1].din \in BOOLEAN /\ parts[2].din \in BOOLEAN
    BY <2>1
  <2>3. /\ parts[1].bits \in {LineReset, Zeros, Junk}
        /\ parts[2].bits \in {LineReset, Zeros, Junk}
    BY <2>1
  <2>4. ~parts[2].din
    BY <2>1
  <2>. QED
    BY <2>1, <2>2, <2>3, <2>4, TwoPlayed
<1>. QED
  BY <1>1, <1>2

LEMMA SentKeeps ==
  ASSUME NEW v, Quiet(v), Sent(v)
  PROVE  /\ target' \in Targets /\ AtRest(target')
         /\ target'.st = "idle" <=> (v.target.st = "idle" /\ v.target.got = <<>>)
<1>. DEFINE t == v.target
<1>1. /\ t \in Targets /\ t.plan = <<>> /\ t.st # "reset" /\ t.settings \in Settings
      /\ (t.st = "idle" /\ t.got = <<>>) => t.ones = 0
  BY DEF Quiet, Listens, Targets
<1>2. target' = IF t.st \in {"idle", "reset"} /\ t.got = <<>>
                THEN Resting(t) ELSE Target(t.settings)
  BY DEF Sent
<1>. HIDE DEF t
<1>3. CASE t.st = "idle" /\ t.got = <<>>
  <2>1. target' = Resting(t)
    BY <1>2, <1>3
  <2>2. Resting(t) \in Targets /\ AtRest(Resting(t)) /\ Resting(t).st = t.st
    BY <1>1, <1>3, RestingTyped
  <2>. QED
    BY <1>3, <2>1, <2>2 DEF t
<1>4. CASE ~(t.st = "idle" /\ t.got = <<>>)
  <2>1. target' = Target(t.settings)
    BY <1>1, <1>2, <1>4
  <2>2. Target(t.settings) \in Targets
    BY <1>1, NewTarget
  <2>3. Target(t.settings).st = "lost" /\ AtRest(Target(t.settings))
    BY DEF Target, AtRest, Reply
  <2>. QED
    BY <1>4, <2>1, <2>2, <2>3 DEF t
<1>. QED
  BY <1>3, <1>4

\* The wire at the beginning of a request.
LEMMA WireQuiet ==
  ASSUME TypeOK, WireIInv
  PROVE  /\ Quiet(Wire(target)) /\ Wire(target).target = target /\ target.ones = 0
         /\ Wire(target).mode = mode /\ Wire(target).dir = dir
         /\ Pulses(Wire(target)) <=> ClockOut
         /\ Drives(Wire(target)) <=> DataOut
<1>. DEFINE w == Wire(target)
<1>1. w \in Wires /\ w.target = target /\ w.mode = mode /\ w.dir = dir
  BY WireFields DEF WireIInv
<1>. HIDE DEF w
<1>2. Quiet(w)
  BY <1>1 DEF WireIInv, AtRest, Quiet, Listens
<1>3. (Pulses(w) <=> ClockOut) /\ (Drives(w) <=> DataOut)
  BY <1>1 DEF Pulses, Drives, ClockOut, DataOut
<1>. QED
  BY <1>1, <1>2, <1>3 DEF w, WireIInv, AtRest

\* A report of a sequence.
LEMMA SequenceSafe ==
  ASSUME last'.kind = "sequence", AtRest(target'),
         (/\ last'.bits = LineReset /\ dap_port' = "swd" /\ ~silent' /\ ~foreign')
            => target'.st = "idle"
  PROVE  WireSafe'
BY DEF WireSafe, LineNotFought, OperationHonest, StaysInStep, AtRest

\* Any other report.
LEMMA OtherSafe ==
  ASSUME last'.kind \notin {"access", "sequence"}, AtRest(target')
  PROVE  WireSafe'
BY DEF WireSafe, LineNotFought, OperationHonest, StaysInStep, AtRest

LEMMA LostRests ==
  ASSUME WireIInv, Lost \/ target' = Target(DefaultSettings)
  PROVE  target' \in Targets /\ AtRest(target') /\ target'.st = "lost"
<1>1. PICK settings \in Settings : target' = Target(settings)
  BY PortAssumption DEF WireIInv, Lost, Targets
<1>2. Target(settings) \in Targets
  BY NewTarget
<1>3. Target(settings).st = "lost" /\ AtRest(Target(settings))
  BY DEF Target, AtRest, Reply
<1>. QED
  BY <1>1, <1>2, <1>3

\* Steps that do not touch the wire, and those after which the target is lost.
LEMMA StillKeeps ==
  ASSUME WireIInv, dap_swd' \in Settings,
         \/ Lost \/ target' = Target(DefaultSettings)
         \/ mode' = mode /\ dir' = dir /\ target' = target
  PROVE  WireIInv' /\ AtRest(target')
<1>1. CASE Lost \/ target' = Target(DefaultSettings)
  <2>1. target' \in Targets /\ AtRest(target') /\ target'.st = "lost"
    BY <1>1, LostRests
  <2>. QED
    BY <2>1 DEF WireIInv, AtRest
<1>2. CASE mode' = mode /\ dir' = dir /\ target' = target
  BY <1>2 DEF WireIInv, AtRest, ClockOut, DataOut
<1>. QED
  BY <1>1, <1>2

LEMMA SwjSequenceKeeps ==
  ASSUME TypeOK, ConnectedLines, WireIInv, NEW b \in {LineReset, Zeros, Junk},
         dap_swj_sequence(b)
  PROVE  WireIInv' /\ WireSafe'
<1>. DEFINE w == Wire(target)
            v == Write(w, b)
<1>1. /\ Quiet(w) /\ w.target = target /\ target.ones = 0
      /\ (Pulses(w) <=> ClockOut) /\ (Drives(w) <=> DataOut)
  BY WireQuiet
<1>2. /\ Sent(v) /\ last' = [kind |-> "sequence", bits |-> b]
      /\ mode' = mode /\ dir' = dir /\ dap_swd' = dap_swd
      /\ dap_port' = dap_port /\ silent' = silent /\ foreign' = foreign
  BY DEF dap_swj_sequence, vars, pins
<1>. HIDE DEF w
<1>3. /\ Sequenced(v, w)
      /\ (~(Pulses(w) /\ Drives(w)) /\ w.target.st = "lost") => v.target.st = "lost"
      /\ (Pulses(w) /\ Drives(w) /\ b = LineReset) =>
             v.target.st = "idle" /\ v.target.got = <<>>
  <2>1. w.target.ones <= 2
    BY <1>1
  <2>. QED
    BY <1>1, <2>1, SentQuiet
<1>. HIDE DEF v
<1>4. /\ target' \in Targets /\ AtRest(target')
      /\ target'.st = "idle" <=> (v.target.st = "idle" /\ v.target.got = <<>>)
  BY <1>2, <1>3, SentKeeps DEF Sequenced
<1>5. target'.st = "idle" => ClockOut /\ DataOut
  <2>. SUFFICES ASSUME target'.st = "idle", ~(ClockOut /\ DataOut) PROVE FALSE
    OBVIOUS
  <2>1. target.st = "lost"
    BY DEF WireIInv, AtRest
  <2>. QED
    BY <1>1, <1>3, <1>4, <2>1
<1>6. WireIInv'
  BY <1>2, <1>4, <1>5 DEF WireIInv, AtRest, ClockOut, DataOut
<1>7. (/\ last'.bits = LineReset /\ dap_port' = "swd" /\ ~silent' /\ ~foreign')
            => target'.st = "idle"
  <2>. SUFFICES ASSUME last'.bits = LineReset, dap_port' = "swd", ~silent', ~foreign'
                PROVE  target'.st = "idle"
    OBVIOUS
  <2>1. b = LineReset
    BY <1>2
  <2>2. ClockOut /\ DataOut
    <3>1. dap_port = "swd" /\ ~silent /\ ~foreign
      BY <1>2
    <3>2. mode["SWDIO"] \in {"in", "out"}
      BY DEF TypeOK, Pins, Shifted
    <3>. QED
      BY <3>1, <3>2 DEF ConnectedLines, ClockOut, DataOut
  <2>. QED
    BY <1>1, <1>3, <1>4, <2>1, <2>2
<1>8. WireSafe'
  BY <1>2, <1>4, <1>7, SequenceSafe
<1>. QED
  BY <1>6, <1>8

LEMMA SwdSequenceKeeps ==
  ASSUME TypeOK, ConnectedLines, WireIInv, NEW b \in {LineReset, Zeros, Junk}, NEW parts,
         \/ \E din \in BOOLEAN : parts = <<Part(din, Zeros), Part(FALSE, b)>>
         \/ parts = <<Part(FALSE, b), Part(TRUE, Zeros)>>,
         dap_swd_sequence(parts)
  PROVE  WireIInv' /\ WireSafe'
<1>. DEFINE w == Wire(target)
            v == Sequence(parts)
            bits == parts[Len(parts)].bits
<1>1. /\ Quiet(w) /\ w.target = target /\ target.ones = 0
      /\ (Pulses(w) <=> ClockOut)
  BY WireQuiet
<1>2. /\ Sent(v) /\ last' = [kind |-> "sequence", bits |-> bits] /\ dap_port = "swd"
      /\ mode' = v.mode /\ dir' = v.dir /\ dap_swd' = dap_swd /\ foreign' = foreign
  BY DEF dap_swd_sequence
<1>3. /\ Sequenced(v, w) /\ Drives(v)
      /\ (bits = LineReset /\ Pulses(w)) => v.target.st = "idle" /\ v.target.got = <<>>
  BY <1>1, SequenceQuiet
<1>. HIDE DEF w, v, bits
<1>4. /\ target' \in Targets /\ AtRest(target')
      /\ target'.st = "idle" <=> (v.target.st = "idle" /\ v.target.got = <<>>)
  BY <1>2, <1>3, SentKeeps DEF Sequenced
<1>5. target'.st = "idle" => Pulses(v) /\ Drives(v)
  <2>. SUFFICES ASSUME target'.st = "idle", ~Pulses(v) PROVE FALSE
    BY <1>3
  <2>1. ~Pulses(w) /\ ~ClockOut
    BY <1>1, <1>3 DEF Sequenced
  <2>2. target.st = "lost"
    BY <2>1 DEF WireIInv, AtRest
  <2>. QED
    BY <1>1, <1>3, <1>4, <2>1, <2>2 DEF Sequenced
<1>6. WireIInv'
  BY <1>2, <1>4, <1>5 DEF WireIInv, AtRest, ClockOut, DataOut, Pulses, Drives
<1>7. (/\ last'.bits = LineReset /\ dap_port' = "swd" /\ ~silent' /\ ~foreign')
            => target'.st = "idle"
  <2>. SUFFICES ASSUME last'.bits = LineReset, ~foreign' PROVE target'.st = "idle"
    OBVIOUS
  <2>1. bits = LineReset
    BY <1>2
  <2>2. Pulses(w)
    BY <1>1, <1>2 DEF ConnectedLines, ClockOut
  <2>. QED
    BY <1>3, <1>4, <2>1, <2>2
<1>8. WireSafe'
  BY <1>2, <1>4, <1>7, SequenceSafe
<1>. QED
  BY <1>6, <1>8

LEMMA ReportingKeeps ==
  ASSUME TypeOK, ConnectedLines, WireIInv, Reporting
  PROVE  WireIInv' /\ WireSafe'
<1>1. CASE dap_init
  <2>1. Lost /\ dap_swd' \in Settings /\ last'.kind = "clock"
    BY <1>1, PortAssumption DEF dap_init, ClockSet
  <2>. QED
    BY <2>1, StillKeeps, OtherSafe
<1>2. ASSUME NEW idle \in IdleCycles, NEW req \in Requests,
             NEW word \in Data(req[2]), NEW r \in Replies(req[2]), Access(req, word, idle, r)
      PROVE  WireIInv' /\ WireSafe'
  <2>1. idle \in Nat
    BY PortAssumption
  <2>. DEFINE rnw == req[2]
  <2>2. /\ req \in BitString /\ Len(req) = 4 /\ rnw \in BOOLEAN
    BY AccessTyped
  <2>3. word \in BitString /\ Len(word) <= DataBits /\ (~rnw => Len(word) = DataBits)
    BY AccessTyped
  <2>4. r \in Answers /\ ((r.ack = "OK" /\ rnw) => Len(r.word) = DataBits)
    BY AccessTyped
  <2>. QED
    BY <1>2, <2>1, <2>2, <2>3, <2>4, AccessKeeps
<1>3. ASSUME NEW idle \in IdleCycles, NEW word \in Data(FALSE), NEW r \in Replies(FALSE),
             dap_write_abort(word, idle, r)
      PROVE  WireIInv' /\ WireSafe'
  <2>1. idle \in Nat
    BY PortAssumption
  <2>. DEFINE req == <<FALSE, FALSE, FALSE, FALSE>>
              read == FALSE
  <2>2. req \in BitString /\ Len(req) = 4 /\ req[2] \in BOOLEAN /\ ~req[2]
    BY DEF BitString
  <2>3. word \in Data(read) /\ r \in Replies(read) /\ ~read
    OBVIOUS
  <2>4. Access(req, word, idle, r)
    BY <1>3 DEF dap_write_abort
  <2>. HIDE DEF req, read
  <2>5. word \in BitString /\ Len(word) <= DataBits /\ Len(word) = DataBits
    BY <2>3, AccessTyped
  <2>6. r \in Answers
    BY <2>3, AccessTyped
  <2>. QED
    BY <2>1, <2>2, <2>4, <2>5, <2>6, AccessKeeps
<1>4. ASSUME NEW b \in {LineReset, Zeros, Junk}, dap_swj_sequence(b)
      PROVE  WireIInv' /\ WireSafe'
  BY <1>4, SwjSequenceKeeps
<1>5. ASSUME NEW b \in {LineReset, Zeros, Junk},
             NEW parts, dap_swd_sequence(parts),
             \/ \E din \in BOOLEAN : parts = <<Part(din, Zeros), Part(FALSE, b)>>
             \/ parts = <<Part(FALSE, b), Part(TRUE, Zeros)>>
      PROVE  WireIInv' /\ WireSafe'
  BY <1>5, SwdSequenceKeeps
<1>6. ASSUME NEW freq, dap_swj_clock(freq) PROVE WireIInv' /\ WireSafe'
  <2>1. /\ mode' = mode /\ dir' = dir /\ target' = target /\ dap_swd' = dap_swd
        /\ last'.kind = "clock"
    BY <1>6 DEF dap_swj_clock, ClockSet, vars, pins
  <2>2. dap_swd' \in Settings
    BY <2>1 DEF WireIInv
  <2>. QED
    BY <2>1, <2>2, StillKeeps, OtherSafe
<1>7. ASSUME NEW half, NEW wide, dap_delay(half, wide) PROVE WireIInv' /\ WireSafe'
  <2>1. /\ mode' = mode /\ dir' = dir /\ target' = target /\ dap_swd' = dap_swd
        /\ last'.kind = "wait"
    BY <1>7 DEF dap_delay, vars, pins
  <2>2. dap_swd' \in Settings
    BY <2>1 DEF WireIInv
  <2>. QED
    BY <2>1, <2>2, StillKeeps, OtherSafe
<1>8. ASSUME NEW lines, NEW wait, NEW wide, dap_swj_pins(lines, wait, wide)
      PROVE  WireIInv' /\ WireSafe'
  <2>1. /\ mode' = mode /\ dir' = dir /\ dap_swd' = dap_swd
        /\ last'.kind = "wait" /\ (Lost \/ target' = target)
    BY <1>8 DEF dap_swj_pins, vars, pins
  <2>2. dap_swd' \in Settings
    BY <2>1 DEF WireIInv
  <2>. QED
    BY <2>1, <2>2, StillKeeps, OtherSafe
<1>. QED
  BY <1>1, <1>2, <1>3, <1>4, <1>5, <1>6, <1>7, <1>8 DEF Reporting

LEMMA UnreportedKeeps ==
  ASSUME WireIInv, Unreported
  PROVE  WireIInv' /\ AtRest(target')
<1>0. dap_swd \in Settings
  BY DEF WireIInv
<1>1. CASE dap_connect
  <2>1. /\ dap_swd' = dap_swd
        /\ Lost \/ (mode' = mode /\ dir' = dir /\ target' = target)
    BY <1>1 DEF dap_connect, ConnectOther, pins
  <2>. QED
    BY <1>0, <2>1, StillKeeps
<1>2. CASE dap_disconnect
  BY <1>0, <1>2, StillKeeps DEF dap_disconnect
<1>3. CASE ThreadBegin
  <2>1. /\ dap_swd' = dap_swd /\ mode' = mode /\ dir' = dir /\ target' = target
    BY <1>3 DEF ThreadBegin, PlatformInit, Float, Drive, ClkOutputEnable, Begin, pins
  <2>. QED
    BY <1>0, <2>1, StillKeeps
<1>4. CASE ThreadStep
  BY <1>0, <1>4, StillKeeps DEF ThreadStep
<1>5. ASSUME NEW settings \in Settings, dap_swd_configure(settings)
      PROVE  WireIInv' /\ AtRest(target')
  <2>1. /\ dap_swd' \in Settings /\ mode' = mode /\ dir' = dir /\ target' = target
    BY <1>5 DEF dap_swd_configure, vars, pins
  <2>. QED
    BY <2>1, StillKeeps
<1>6. ASSUME NEW settings \in Settings, Retune(settings)
      PROVE  WireIInv' /\ AtRest(target')
  <2>1. /\ dap_swd' = dap_swd /\ mode' = mode /\ dir' = dir
        /\ target' = [target EXCEPT !.settings = settings]
    BY <1>6 DEF Retune, vars, pins
  <2>2. target \in Targets /\ AtRest(target) /\ (target.st = "idle" => ClockOut /\ DataOut)
    BY DEF WireIInv
  <2>. DEFINE t == [target EXCEPT !.settings = settings]
  <2>3. t \in Targets /\ AtRest(t) /\ t.st = target.st
    BY <2>2 DEF Targets, AtRest
  <2>. HIDE DEF t
  <2>4. target' = t
    BY <2>1 DEF t
  <2>. QED
    BY <1>0, <2>1, <2>2, <2>3, <2>4 DEF WireIInv, AtRest, ClockOut, DataOut
<1>7. CASE PowerCycle
  <2>1. dap_swd' = dap_swd /\ target' = Target(DefaultSettings)
    BY <1>7 DEF PowerCycle
  <2>. QED
    BY <1>0, <2>1, StillKeeps
<1>. QED
  BY <1>1, <1>2, <1>3, <1>4, <1>5, <1>6, <1>7 DEF Unreported

(***************************************************************************)
(* What is proved of the wire.                                             *)
(***************************************************************************)

LEMMA WireStep ==
  ASSUME TypeOK, ConnectedLines, WireIInv, WireSafe, [PortNext]_portvars
  PROVE  WireIInv' /\ WireSafe'
<1>1. CASE Reporting
  BY <1>1, ReportingKeeps
<1>2. CASE last = Nothing /\ Unreported /\ UNCHANGED last
  <2>1. WireIInv' /\ AtRest(target')
    BY <1>2, UnreportedKeeps
  <2>2. last'.kind = "none"
    BY <1>2 DEF Nothing
  <2>. QED
    BY <2>1, <2>2, OtherSafe
<1>3. CASE Forget
  <2>1. /\ mode' = mode /\ dir' = dir /\ target' = target /\ dap_swd' = dap_swd
        /\ last'.kind = "none"
    BY <1>3 DEF Forget, Nothing, vars, pins
  <2>2. dap_swd' \in Settings
    BY <2>1 DEF WireIInv
  <2>. QED
    BY <2>1, <2>2, StillKeeps, OtherSafe
<1>4. CASE UNCHANGED portvars
  BY <1>4 DEF portvars, vars, pins, WireIInv, AtRest, ClockOut, DataOut, WireSafe,
       LineNotFought, OperationHonest, StaysInStep
<1>. QED
  BY <1>1, <1>2, <1>3, <1>4 DEF PortNext

LEMMA WireInit ==
  ASSUME PortInit
  PROVE  WireIInv /\ WireSafe
<1>1. /\ dap_swd \in Settings /\ target = Target(DefaultSettings) /\ last.kind = "none"
  BY PortAssumption DEF PortInit, Nothing
<1>2. Target(DefaultSettings) \in Targets
  BY NewTarget, PortAssumption
<1>3. Target(DefaultSettings).st = "lost" /\ AtRest(Target(DefaultSettings))
  BY DEF Target, AtRest, Reply
<1>. QED
  BY <1>1, <1>2, <1>3
    DEF WireIInv, WireSafe, AtRest, LineNotFought, OperationHonest, StaysInStep

\* Between requests the target is in step or lost and waits for nothing, in step only
\* while the probe drives both lines; and the last operation was honest.
THEOREM WireAlways == PortSpec => [](WireIInv /\ WireSafe)
<1>. DEFINE P == WireIInv /\ WireSafe
<1>1. PortInit => P
  BY WireInit
<1>2. PinsIInv /\ P /\ [PortNext]_portvars => P'
  BY WireStep DEF PinsIInv
<1>3. PortSpec => []PinsIInv
  BY Implemented, PinsAlways, PTL DEF PinsImplemented
<1>. HIDE DEF P
<1>4. PortSpec => []P
  BY <1>1, <1>2, <1>3, PTL DEF PortSpec
<1>. QED
  BY <1>4 DEF P

\* The port has its type: settings that dap_swd_configure can have given, a line reset
\* that is counted to ResetOnes at most, and the pins as TypeOK says.
THEOREM PortTyped == PortSpec => []PortTypeOK
<1>1. PinsIInv /\ WireIInv /\ WireSafe => PortTypeOK
  BY DEF PinsIInv, WireIInv, Targets, PortTypeOK
<1>2. PortSpec => []PinsIInv
  BY Implemented, PinsAlways, PTL DEF PinsImplemented
<1>. QED
  BY <1>1, <1>2, WireAlways, PTL

\* dap_swd_operation turns SWDIO in time, whatever is asked and whatever is answered:
\* a probe and a target that are in step and have the same settings never drive it at
\* the same time.
THEOREM NotFought == PortSpec => []LineNotFought
<1>1. WireIInv /\ WireSafe => LineNotFought
  BY DEF WireSafe
<1>. QED
  BY <1>1, WireAlways, PTL

\* What dap_swd_operation reports is what has happened at the target, for words of any
\* length, each turnaround and each answer.
THEOREM OperationsHonest == PortSpec => []OperationHonest
<1>1. WireIInv /\ WireSafe => OperationHonest
  BY DEF WireSafe
<1>. QED
  BY <1>1, WireAlways, PTL

\* Each operation that is answered leaves the target ready for the next one, and the
\* line reset of dap_swj_sequence and dap_swd_sequence brings a lost one back.
THEOREM InStep == PortSpec => []StaysInStep
<1>1. WireIInv /\ WireSafe => StaysInStep
  BY DEF WireSafe
<1>. QED
  BY <1>1, WireAlways, PTL
=============================================================================
