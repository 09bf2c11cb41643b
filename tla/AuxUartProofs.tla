---------------------------- MODULE AuxUartProofs ----------------------------
(***************************************************************************)
(* Theorems about AuxUart, for every size of the FIFO and of the message   *)
(* queue, and for every set of line codings.                               *)
(***************************************************************************)
EXTENDS AuxUart, SequenceTheorems, TLAPS

(***************************************************************************)
(* Lemmas about the helper and about the last element of a sequence.       *)
(***************************************************************************)

LEMMA LeastOf ==
  ASSUME NEW a \in Nat, NEW b \in Nat
  PROVE  /\ Least(a, b) \in Nat
         /\ Least(a, b) <= a /\ Least(a, b) <= b
         /\ a <= b => Least(a, b) = a
         /\ b <= a => Least(a, b) = b
BY DEF Least

\* The rest of a queue ends as the queue did.
LEMMA LastOfTail ==
  ASSUME NEW S, NEW s \in Seq(S), s # <<>>
  PROVE  /\ Head(s) \in S
         /\ Tail(s) \in Seq(S)
         /\ Len(Tail(s)) = Len(s) - 1
         /\ Tail(s) = <<>> => Head(s) = s[Len(s)]
         /\ Tail(s) # <<>> => Tail(s)[Len(Tail(s))] = s[Len(s)]
<1>. DEFINE t == Tail(s)
<1>1. Len(s) \in Nat \ {0} /\ Len(<<>>) = 0
  BY EmptySeq
<1>2. Head(s) = s[1]
  BY <1>1
<1>3. /\ Head(s) \in S /\ t \in Seq(S)
      /\ Len(t) = Len(s) - 1
      /\ \A k \in 1 .. Len(t) : t[k] = s[k + 1]
  BY <1>1, HeadTailProperties
<1>4. t # <<>> => Len(t) \in Nat \ {0}
  BY <1>3, EmptySeq
<1>. HIDE DEF t
<1>5. t = <<>> => Len(s) = 1
  BY <1>1, <1>3
<1>6. t # <<>> => t[Len(t)] = s[Len(s)]
  <2>1. ASSUME t # <<>> PROVE Len(t) \in 1 .. Len(t) /\ Len(t) + 1 = Len(s)
    BY <1>1, <1>3, <1>4, <2>1
  <2>. QED
    BY <1>3, <2>1
<1>7. t = <<>> => Head(s) = s[Len(s)]
  BY <1>2, <1>5
<1>. QED
  BY <1>3, <1>6, <1>7 DEF t

\* A queue with one element more ends with it.
LEMMA LastOfAppend ==
  ASSUME NEW S, NEW s \in Seq(S), NEW e \in S
  PROVE  /\ Append(s, e) \in Seq(S)
         /\ Append(s, e) # <<>>
         /\ Len(Append(s, e)) = Len(s) + 1
         /\ Append(s, e)[Len(Append(s, e))] = e
BY AppendProperties

(***************************************************************************)
(* The inductive invariant.                                                *)
(***************************************************************************)

\* Until aux_uart_init opens the device only the USB interrupt can have.
OpenOnce == upc \in {"mq", "open"} => refs <= 1

\* rt_mq_init throws no message away.
NothingQueuedEarly == upc = "mq" => rx_mq = <<>>

\* What is in the FIFO is covered by the last message: the size it has at the
\* end of the queue, or in the hands of the thread, is not less than what is
\* there, although reads have taken bytes since it was sent.
LastSizeCovers ==
  (~unannounced /\ fifo > 0) =>
     IF rx_mq = <<>> THEN upc = "read" /\ size >= fifo
     ELSE rx_mq[Len(rx_mq)] >= fifo

IInv == TypeOK /\ OpenOnce /\ NothingQueuedEarly /\ LastSizeCovers

LEMMA InitIInv == Init => IInv
<1>. SUFFICES ASSUME Init PROVE IInv
  OBVIOUS
<1>1. TypeOK
  <2>1. <<>> \in Seq(1 .. FifoSize) /\ Len(<<>>) = 0
    BY EmptySeq
  <2>2. {refused, unannounced} \subseteq BOOLEAN /\ indicate \in BOOLEAN
    BY DEF Init
  <2>. QED
    BY <2>1, <2>2, UartAssumption DEF Init, TypeOK
<1>2. OpenOnce /\ NothingQueuedEarly /\ LastSizeCovers
  BY DEF Init, OpenOnce, NothingQueuedEarly, LastSizeCovers
<1>. QED
  BY <1>1, <1>2 DEF IInv

LEMMA InitQueueKeeps == IInv /\ InitQueue => IInv'
<1>. SUFFICES ASSUME IInv, InitQueue PROVE IInv'
  OBVIOUS
<1>. USE DEF InitQueue, line
<1>1. TypeOK'
  BY UartAssumption DEF IInv, TypeOK
<1>2. LastSizeCovers'
  BY DEF IInv, NothingQueuedEarly, LastSizeCovers
<1>. QED
  BY <1>1, <1>2 DEF IInv, OpenOnce, NothingQueuedEarly

LEMMA InitOpenKeeps == IInv /\ InitOpen => IInv'
<1>. SUFFICES ASSUME IInv, InitOpen PROVE IInv'
  OBVIOUS
<1>. USE DEF InitOpen, line
<1>1. TypeOK'
  BY DEF IInv, TypeOK, OpenOnce
<1>2. LastSizeCovers'
  BY DEF IInv, LastSizeCovers
<1>. QED
  BY <1>1, <1>2 DEF IInv, OpenOnce, NothingQueuedEarly

LEMMA InitRestKeeps == IInv /\ (InitIndicate \/ InitThread \/ Write) => IInv'
<1>. SUFFICES ASSUME IInv, InitIndicate \/ InitThread \/ Write PROVE IInv'
  OBVIOUS
<1>. USE DEF InitIndicate, InitThread, Write, line
<1>1. TypeOK'
  BY DEF IInv, TypeOK
<1>2. LastSizeCovers'
  BY DEF IInv, LastSizeCovers
<1>. QED
  BY <1>1, <1>2 DEF IInv, OpenOnce, NothingQueuedEarly

LEMMA RecvKeeps == IInv /\ Recv => IInv'
<1>. SUFFICES ASSUME IInv, Recv PROVE IInv'
  OBVIOUS
<1>1. /\ rx_mq \in Seq(1 .. FifoSize) /\ rx_mq # <<>>
      /\ size' = Head(rx_mq) /\ rx_mq' = Tail(rx_mq) /\ upc' = "read"
      /\ UNCHANGED <<line, fifo, refs, indicate, unannounced>>
  BY DEF IInv, TypeOK, Recv
<1>2. /\ Head(rx_mq) \in 1 .. FifoSize
      /\ rx_mq' \in Seq(1 .. FifoSize)
      /\ Len(rx_mq') = Len(rx_mq) - 1
      /\ rx_mq' = <<>> => size' = rx_mq[Len(rx_mq)]
      /\ rx_mq' # <<>> => rx_mq'[Len(rx_mq')] = rx_mq[Len(rx_mq)]
  BY <1>1, LastOfTail
<1>3. TypeOK'
  BY <1>1, <1>2, UartAssumption DEF IInv, TypeOK, line
<1>4. LastSizeCovers'
  BY <1>1, <1>2 DEF IInv, LastSizeCovers
<1>. QED
  BY <1>1, <1>3, <1>4 DEF IInv, OpenOnce, NothingQueuedEarly

LEMMA ReadKeeps == IInv /\ Read => IInv'
<1>. SUFFICES ASSUME IInv, Read PROVE IInv'
  OBVIOUS
<1>. USE DEF Read, line
<1>1. size \in Nat /\ fifo \in Nat /\ fifo <= FifoSize /\ FifoSize \in Nat
  BY UartAssumption DEF IInv, TypeOK
<1>2. /\ fifo' \in 0 .. fifo
      /\ size >= fifo => fifo' = 0
  BY <1>1, LeastOf
<1>3. TypeOK'
  BY <1>1, <1>2 DEF IInv, TypeOK
<1>4. LastSizeCovers'
  <2>1. CASE rx_mq = <<>>
    BY <1>1, <1>2, <2>1 DEF IInv, LastSizeCovers
  <2>2. CASE rx_mq # <<>>
    <3>1. rx_mq[Len(rx_mq)] \in Nat
      BY <2>2, <1>1, EmptySeq DEF IInv, TypeOK
    <3>. QED
      BY <1>1, <1>2, <2>2, <3>1 DEF IInv, LastSizeCovers
  <2>. QED
    BY <2>1, <2>2
<1>. QED
  BY <1>3, <1>4 DEF IInv, OpenOnce, NothingQueuedEarly

LEMMA ReceiveKeeps == ASSUME NEW n \in 1 .. FifoSize PROVE IInv /\ Receive(n) => IInv'
<1>. SUFFICES ASSUME IInv, Receive(n) PROVE IInv'
  OBVIOUS
<1>. USE DEF Receive, line
<1>1. fifo \in Nat /\ n \in Nat \ {0} /\ FifoSize \in Nat \ {0}
  BY UartAssumption DEF IInv, TypeOK
<1>2. fifo' \in 1 .. FifoSize
  BY <1>1 DEF Least
<1>3. CASE indicate /\ upc # "mq" /\ Len(rx_mq) < QueueLen
  <2>1. /\ rx_mq' \in Seq(1 .. FifoSize) /\ rx_mq' # <<>>
        /\ Len(rx_mq') = Len(rx_mq) + 1 /\ rx_mq'[Len(rx_mq')] = fifo'
    <3>1. rx_mq \in Seq(1 .. FifoSize)
      BY DEF IInv, TypeOK
    <3>2. rx_mq' = Append(rx_mq, fifo')
      BY <1>3
    <3>. QED
      BY <1>2, <3>1, <3>2, LastOfAppend
  <2>2. Len(rx_mq') <= QueueLen
    BY <1>3, <2>1, UartAssumption DEF IInv, TypeOK
  <2>3. unannounced' = FALSE
    BY <1>3
  <2>4. TypeOK'
    <3>1. {refused, unannounced}' \subseteq BOOLEAN /\ indicate' \in BOOLEAN
      BY <2>3, Zenon DEF IInv, TypeOK
    <3>. QED
      BY <1>1, <1>2, <2>1, <2>2, <3>1 DEF IInv, TypeOK
  <2>. QED
    BY <1>2, <1>3, <2>1, <2>4 DEF IInv, OpenOnce, NothingQueuedEarly, LastSizeCovers
<1>4. CASE ~(indicate /\ upc # "mq" /\ Len(rx_mq) < QueueLen)
  <2>0. unannounced' = TRUE /\ UNCHANGED rx_mq
    BY <1>4
  <2>1. TypeOK'
    BY <1>1, <1>2, <2>0 DEF IInv, TypeOK
  <2>. QED
    BY <1>4, <2>1 DEF IInv, OpenOnce, NothingQueuedEarly, LastSizeCovers
<1>. QED
  BY <1>3, <1>4

LEMMA SetLineCodingKeeps ==
  ASSUME NEW s \in Speeds, NEW outcome \in {"done", "no_config", "no_open"}
  PROVE  IInv /\ SetLineCoding(s, outcome) => IInv'
<1>. SUFFICES ASSUME IInv, SetLineCoding(s, outcome) PROVE IInv'
  OBVIOUS
<1>. USE DEF SetLineCoding, SetSpeed
<1>1. TypeOK'
  <2>1. refs' \in 0 .. 2 /\ fifo' \in 0 .. FifoSize
    BY UartAssumption DEF IInv, TypeOK
  <2>2. indicate' \in BOOLEAN
    BY DEF IInv, TypeOK
  <2>3. {speed', cdc_line'} \subseteq Speeds \cup {"default"}
    BY DEF IInv, TypeOK
  <2>4. refused' \in BOOLEAN
    BY DEF IInv, TypeOK
  <2>5. unannounced' \in BOOLEAN
    BY DEF IInv, TypeOK
  <2>. QED
    BY <2>1, <2>2, <2>3, <2>4, <2>5 DEF IInv, TypeOK
<1>2. OpenOnce'
  BY DEF IInv, TypeOK, OpenOnce
<1>3. LastSizeCovers'
  BY DEF IInv, LastSizeCovers
<1>. QED
  BY <1>1, <1>2, <1>3 DEF IInv, NothingQueuedEarly

\* The whole: the invariant is kept by every step.
LEMMA NextKeeps == IInv /\ [Next]_vars => IInv'
<1>. SUFFICES ASSUME IInv, [Next]_vars PROVE IInv'
  OBVIOUS
<1>1. CASE Thread
  BY <1>1, InitQueueKeeps, InitOpenKeeps, InitRestKeeps, RecvKeeps, ReadKeeps DEF Thread
<1>2. ASSUME NEW n \in 1 .. FifoSize, Receive(n) PROVE IInv'
  BY <1>2, ReceiveKeeps
<1>3. ASSUME NEW s \in Speeds, NEW outcome \in {"done", "no_config", "no_open"},
             SetLineCoding(s, outcome)
      PROVE  IInv'
  BY <1>3, SetLineCodingKeeps
<1>4. CASE UNCHANGED vars
  BY <1>4 DEF IInv, TypeOK, OpenOnce, NothingQueuedEarly, LastSizeCovers, vars, line
<1>. QED
  BY <1>1, <1>2, <1>3, <1>4 DEF Next

LEMMA Invariance == Spec => []IInv
<1>. QED
  BY InitIInv, NextKeeps, PTL DEF Spec

(***************************************************************************)
(* Theorems.                                                               *)
(***************************************************************************)

\* The variables keep their types: the queue of messages never holds more than
\* fits, no message announces more than the FIFO holds, and the device is never
\* closed below zero or opened more than twice.
THEOREM TypeCorrect == Spec => []TypeOK
<1>1. IInv => TypeOK
  BY DEF IInv
<1>. QED
  BY <1>1, Invariance, PTL

\* When aux_uart_thread waits on an empty queue, the FIFO is empty, unless the
\* message for its last bytes could not be queued.
THEOREM Drained == Spec => []NothingStranded
<1>1. IInv => NothingStranded
  BY DEF IInv, TypeOK, LastSizeCovers, NothingStranded
<1>. QED
  BY <1>1, Invariance, PTL

\* A coding that cdc1_set_speed could carry out is in force from then on, also
\* when it came before or during aux_uart_init.
THEOREM CodingInForce == Spec => []SettingTakesEffect
<1>1. Init => SettingTakesEffect
  BY DEF Init, SettingTakesEffect
<1>2. IInv /\ SettingTakesEffect /\ [Next]_vars => SettingTakesEffect'
  <2>. SUFFICES ASSUME IInv, SettingTakesEffect, [Next]_vars PROVE SettingTakesEffect'
    OBVIOUS
  <2>1. refs \in 0 .. 2 /\ indicate \in BOOLEAN
    BY DEF IInv, TypeOK
  <2>2. CASE Thread
    BY <2>1, <2>2 DEF Thread, InitQueue, InitOpen, InitIndicate, InitThread, Recv, Read, Write,
                      line, SettingTakesEffect
  <2>3. ASSUME NEW n \in 1 .. FifoSize, Receive(n) PROVE SettingTakesEffect'
    BY <2>3 DEF Receive, line, SettingTakesEffect
  <2>4. ASSUME NEW s \in Speeds, NEW outcome \in {"done", "no_config", "no_open"},
               SetLineCoding(s, outcome)
        PROVE  SettingTakesEffect'
    <3>1. cdc_line' = s /\ refused' = (outcome # "done")
      BY <2>4 DEF SetLineCoding, SetSpeed
    <3>2. CASE outcome = "done"
      <4>1. refs' > 0 /\ speed' = s
        BY <2>1, <2>4, <3>2 DEF SetLineCoding, SetSpeed
      <4>2. indicate' = (indicate \/ outcome = "done")
        BY <2>4 DEF SetLineCoding, SetSpeed
      <4>. QED
        BY <3>1, <3>2, <4>1, <4>2, Zenon DEF SettingTakesEffect
    <3>3. CASE outcome # "done"
      BY <3>1, <3>3, Zenon DEF SettingTakesEffect
    <3>. QED
      BY <3>2, <3>3
  <2>5. CASE UNCHANGED vars
    BY <2>5 DEF vars, line, SettingTakesEffect
  <2>. QED
    BY <2>2, <2>3, <2>4, <2>5 DEF Next
<1>. QED
  BY <1>1, <1>2, Invariance, PTL DEF Spec
=============================================================================
