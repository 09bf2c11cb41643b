--------------------------- MODULE CdcWriteProofs ---------------------------
(***************************************************************************)
(* Proofs about CdcWrite, for any ports, writers and packet size.          *)
(***************************************************************************)
EXTENDS CdcWrite, SequenceTheorems, TLAPS

(***************************************************************************)
(* The inductive invariant.                                                *)
(***************************************************************************)

\* One writer holds ep_write_sem at most, and the semaphore is free exactly
\* when none does.
OneHolder ==
    /\ \A v, w \in Holders : v = w
    /\ ep_write_sem = IF Holders = {} THEN 1 ELSE 0
    /\ Holders = {} => waiters = <<>>

\* The threads on the queue are suspended and appear once.
WaitersBlocked ==
    /\ \A i \in DOMAIN waiters : pc[waiters[i]] = "blocked"
    /\ \A i, j \in DOMAIN waiters : waiters[i] = waiters[j] => i = j

Inv == /\ TypeOK
       /\ OneHolder
       /\ WaitersBlocked
       /\ BufferPinned
       /\ NoStaleCompletion
       /\ ReturnsAfterSent

(***************************************************************************)
(* The queue of suspended threads.                                         *)
(***************************************************************************)

LEMMA JoinQueue ==
    ASSUME NEW s \in Seq(Writers), NEW w \in Writers, NEW t, t = Append(s, w)
    PROVE  /\ t \in Seq(Writers)
           /\ DOMAIN s = 1 .. Len(s)
           /\ DOMAIN t = 1 .. Len(s) + 1
           /\ \A i \in DOMAIN s : t[i] = s[i]
           /\ t[Len(s) + 1] = w
<1>1. t \in Seq(Writers) /\ Len(t) = Len(s) + 1
  BY AppendProperties
<1>. QED
  BY <1>1, AppendProperties, LenProperties

LEMMA LeaveQueue ==
    ASSUME NEW s \in Seq(Writers), s # <<>>, NEW t, t = Tail(s)
    PROVE  /\ t \in Seq(Writers)
           /\ Head(s) \in Writers
           /\ Head(s) = s[1]
           /\ 1 \in DOMAIN s
           /\ \A i \in DOMAIN t : i \in Nat /\ i > 0 /\ i + 1 \in DOMAIN s /\ t[i] = s[i + 1]
<1>1. Len(s) \in Nat \ {0}
  BY EmptySeq
<1>2. t \in Seq(Writers) /\ Head(s) \in Writers /\ Len(t) = Len(s) - 1
  BY HeadTailProperties
<1>3. DOMAIN s = 1 .. Len(s) /\ DOMAIN t = 1 .. Len(t)
  BY <1>2, LenProperties
<1>4. \A i \in 1 .. Len(t) : t[i] = s[i + 1]
  BY HeadTailProperties
<1>5. Head(s) = s[1]
  BY <1>1 DEF Head
<1>. QED
  BY <1>1, <1>2, <1>3, <1>4, <1>5

LEMMA Rejoin ==
    ASSUME NEW s \in Seq(Writers), s # <<>>
    PROVE  <<Head(s)>> \o Tail(s) = s
<1>1. Len(s) \in Nat \ {0} /\ Head(s) = s[1] /\ Head(s) \in Writers
  BY EmptySeq, HeadTailProperties DEF Head
<1>2. /\ Tail(s) \in Seq(Writers) /\ Len(Tail(s)) = Len(s) - 1
      /\ \A i \in 1 .. Len(Tail(s)) : Tail(s)[i] = s[i + 1]
  BY HeadTailProperties
<1>3. /\ <<Head(s)>> \in Seq(Writers) /\ Len(<<Head(s)>>) = 1
      /\ <<Head(s)>>[1] = s[1]
  BY <1>1
<1>4. /\ <<Head(s)>> \o Tail(s) \in Seq(Writers)
      /\ Len(<<Head(s)>> \o Tail(s)) = Len(<<Head(s)>>) + Len(Tail(s))
      /\ \A i \in 1 .. Len(<<Head(s)>>) + Len(Tail(s)) :
            (<<Head(s)>> \o Tail(s))[i] =
                IF i <= Len(<<Head(s)>>) THEN <<Head(s)>>[i]
                ELSE Tail(s)[i - Len(<<Head(s)>>)]
  BY <1>2, <1>3, ConcatProperties
<1>5. Len(<<Head(s)>> \o Tail(s)) = Len(s)
  BY <1>1, <1>2, <1>3, <1>4
<1>6. \A i \in 1 .. Len(s) : (<<Head(s)>> \o Tail(s))[i] = s[i]
  BY <1>1, <1>2, <1>3, <1>4
<1>. QED
  BY <1>4, <1>5, <1>6, SeqEqual

(***************************************************************************)
(* The invariant holds.                                                    *)
(***************************************************************************)

LEMMA InvInit == Init => Inv
<1>. SUFFICES ASSUME Init PROVE Inv
  OBVIOUS
<1>. USE WriteAssumption DEF Init
<1>1. TypeOK
  <2>1. 0 \in Lengths
    BY DEF Lengths
  <2>2. (CHOOSE p \in Ports : TRUE) \in Ports
    OBVIOUS
  <2>3. (CHOOSE w \in Writers : TRUE) \in Writers
    OBVIOUS
  <2>4. nbytes \in [Writers -> Lengths] /\ port \in [Writers -> Ports]
    BY <2>1, <2>2
  <2>5. source \in [Ports -> Writers] /\ waiters \in Seq(Writers)
    BY <2>3
  <2>6. /\ pc \in [Writers -> {"idle", "take", "blocked", "start", "wait",
                               "release"}]
        /\ inEp \in [Ports -> {"closed", "idle", "data", "zlp"}]
    OBVIOUS
  <2>7. dtr \in [Ports -> BOOLEAN] /\ ended \in [Writers -> BOOLEAN]
    OBVIOUS
  <2>. QED
    BY <2>4, <2>5, <2>6, <2>7 DEF TypeOK
<1>2. Holders = {}
  BY DEF Holders
<1>3. OneHolder /\ WaitersBlocked
  BY <1>2 DEF OneHolder, WaitersBlocked
<1>4. \A p \in Ports : ~Sending(p)
  BY DEF Sending
<1>5. BufferPinned
  BY <1>4 DEF BufferPinned
<1>6. NoStaleCompletion /\ ReturnsAfterSent
  BY DEF NoStaleCompletion, ReturnsAfterSent
<1>. QED
  BY <1>1, <1>3, <1>5, <1>6 DEF Inv

LEMMA CallStep ==
    ASSUME Inv, NEW w \in Writers, NEW p \in Ports, NEW n \in Lengths, Call(w, p, n)
    PROVE  Inv'
<1>. USE DEF Inv, Call, sems, usb, flags
<1>1. TypeOK'
  BY DEF TypeOK
<1>2. Holders' = Holders
  BY DEF Holders, TypeOK
<1>3. OneHolder' /\ WaitersBlocked'
  BY <1>2 DEF OneHolder, WaitersBlocked, TypeOK
<1>4. BufferPinned' /\ NoStaleCompletion' /\ ReturnsAfterSent'
  BY DEF BufferPinned, NoStaleCompletion, ReturnsAfterSent, Sending, TypeOK
<1>. QED
  BY <1>1, <1>3, <1>4

LEMMA TakeEpStep ==
    ASSUME Inv, NEW w \in Writers, TakeEp(w)
    PROVE  Inv'
<1>. USE DEF Inv, TakeEp, sems, usb, flags
<1>1. TypeOK'
  <2>1. CASE ep_write_sem > 0
    BY <2>1 DEF TypeOK
  <2>2. CASE ~(ep_write_sem > 0)
    <3>1. waiters' \in Seq(Writers)
      BY <2>2, JoinQueue DEF TypeOK
    <3>. QED
      BY <2>2, <3>1 DEF TypeOK
  <2>. QED
    BY <2>1, <2>2
<1>2. OneHolder' /\ WaitersBlocked'
  <2>1. CASE ep_write_sem > 0
    <3>1. Holders = {} /\ Holders' = {w} /\ waiters = <<>> /\ ep_write_sem = 1
      BY <2>1 DEF OneHolder, Holders, TypeOK
    <3>. QED
      BY <2>1, <3>1 DEF OneHolder, WaitersBlocked, TypeOK
  <2>2. CASE ~(ep_write_sem > 0)
    <3>1. Holders' = Holders /\ Holders # {}
      BY <2>2 DEF OneHolder, Holders, TypeOK
    <3>2. OneHolder'
      BY <2>2, <3>1 DEF OneHolder
    <3>3. /\ DOMAIN waiters = 1 .. Len(waiters) /\ Len(waiters) \in Nat
          /\ DOMAIN waiters' = 1 .. Len(waiters) + 1
          /\ \A i \in DOMAIN waiters : waiters'[i] = waiters[i]
          /\ waiters'[Len(waiters) + 1] = w
      BY <2>2, JoinQueue, LenProperties DEF TypeOK
    <3>5. \A i \in DOMAIN waiters : waiters[i] # w
      BY DEF WaitersBlocked
    <3>4. WaitersBlocked'
      <4>1. \A i \in DOMAIN waiters' : i \notin DOMAIN waiters => i = Len(waiters) + 1
        BY <3>3
      <4>2. pc' = [pc EXCEPT ![w] = "blocked"]
        BY <2>2
      <4>3. \A i \in DOMAIN waiters' : pc'[waiters'[i]] = "blocked"
        BY <3>3, <3>5, <4>1, <4>2 DEF WaitersBlocked, TypeOK
      <4>4. \A i, j \in DOMAIN waiters' : waiters'[i] = waiters'[j] => i = j
        BY <3>3, <3>5, <4>1 DEF WaitersBlocked
      <4>. QED
        BY <4>3, <4>4 DEF WaitersBlocked
    <3>. QED
      BY <3>2, <3>4
  <2>. QED
    BY <2>1, <2>2
<1>3. BufferPinned' /\ NoStaleCompletion' /\ ReturnsAfterSent'
  BY DEF BufferPinned, NoStaleCompletion, ReturnsAfterSent, Sending, TypeOK
<1>. QED
  BY <1>1, <1>2, <1>3

LEMMA StartWriteStep ==
    ASSUME Inv, NEW w \in Writers, StartWrite(w)
    PROVE  Inv'
<1>. USE DEF Inv, StartWrite, sems, flags
<1>1. TypeOK'
  BY DEF TypeOK
<1>2. Holders' = Holders /\ w \in Holders
  BY DEF Holders, TypeOK
<1>3. OneHolder' /\ WaitersBlocked'
  BY <1>2 DEF OneHolder, WaitersBlocked, TypeOK
<1>4. \A v \in Writers : pc[v] \notin {"wait", "release"}
  BY <1>2 DEF OneHolder, Holders
<1>5. (\A p \in Ports : ~Sending(p)) /\ ~(cdc_tx_busy > 0)
  BY <1>4 DEF BufferPinned, NoStaleCompletion, TypeOK
<1>6. BufferPinned' /\ NoStaleCompletion' /\ ReturnsAfterSent'
  BY <1>4, <1>5
     DEF BufferPinned, NoStaleCompletion, ReturnsAfterSent, Sending, TypeOK
<1>. QED
  BY <1>1, <1>3, <1>6

LEMMA TakeTxStep ==
    ASSUME Inv, NEW w \in Writers, TakeTx(w)
    PROVE  Inv'
<1>. USE DEF Inv, TakeTx, usb, flags
<1>1. TypeOK'
  BY DEF TypeOK
<1>2. Holders' = Holders /\ w \in Holders
  BY DEF Holders, TypeOK
<1>3. OneHolder' /\ WaitersBlocked'
  BY <1>2 DEF OneHolder, WaitersBlocked, TypeOK
<1>4. ended[w] /\ cdc_tx_busy = 1 /\ \A p \in Ports : ~Sending(p)
  BY <1>2 DEF NoStaleCompletion, OneHolder, Holders, TypeOK
<1>5. BufferPinned' /\ NoStaleCompletion' /\ ReturnsAfterSent'
  BY <1>4
     DEF BufferPinned, NoStaleCompletion, ReturnsAfterSent, Sending, TypeOK
<1>. QED
  BY <1>1, <1>3, <1>5

LEMMA ReleaseEpStep ==
    ASSUME Inv, NEW w \in Writers, ReleaseEp(w)
    PROVE  Inv'
<1>. USE DEF Inv, ReleaseEp, usb, flags
<1>1. Holders = {w} /\ ep_write_sem = 0
  BY DEF OneHolder, Holders, TypeOK
<1>2. TypeOK' /\ OneHolder' /\ WaitersBlocked'
  <2>1. CASE waiters = <<>>
    <3>1. TypeOK'
      BY <2>1 DEF TypeOK
    <3>2. Holders' = {}
      BY <1>1, <2>1 DEF Holders, TypeOK
    <3>. QED
      BY <1>1, <2>1, <3>1, <3>2 DEF OneHolder, WaitersBlocked
  <2>2. CASE waiters # <<>>
    <3>1. /\ waiters' \in Seq(Writers)
          /\ Head(waiters) \in Writers
          /\ Head(waiters) = waiters[1]
          /\ 1 \in DOMAIN waiters
          /\ \A i \in DOMAIN waiters' :
                /\ i \in Nat /\ i > 0
                /\ i + 1 \in DOMAIN waiters
                /\ waiters'[i] = waiters[i + 1]
      <4>1. waiters' = Tail(waiters) /\ waiters \in Seq(Writers)
        BY <2>2 DEF TypeOK
      <4>. QED
        BY <2>2, <4>1, LeaveQueue
    <3>2. TypeOK'
      BY <2>2, <3>1 DEF TypeOK
    <3>3. pc[Head(waiters)] = "blocked" /\ Head(waiters) # w
      BY <3>1 DEF WaitersBlocked
    <3>4. Holders' = {Head(waiters)}
      BY <1>1, <2>2, <3>1, <3>3 DEF Holders, TypeOK
    <3>5. OneHolder'
      BY <1>1, <2>2, <3>4 DEF OneHolder
    <3>6. \A i \in DOMAIN waiters' :
            waiters'[i] # Head(waiters) /\ pc[waiters'[i]] = "blocked"
      BY <3>1 DEF WaitersBlocked
    <3>7. WaitersBlocked'
      <4>1. \A i \in DOMAIN waiters' : pc'[waiters'[i]] = "blocked"
        BY <2>2, <3>6, <3>1 DEF TypeOK
      <4>2. \A i, j \in DOMAIN waiters' : waiters'[i] = waiters'[j] => i = j
        BY <3>1 DEF WaitersBlocked
      <4>. QED
        BY <4>1, <4>2 DEF WaitersBlocked
    <3>. QED
      BY <3>2, <3>5, <3>7
  <2>. QED
    BY <2>1, <2>2
<1>3. \A v \in Writers : pc[v] # "wait"
  BY <1>1 DEF Holders
<1>4. (\A p \in Ports : ~Sending(p)) /\ ~(cdc_tx_busy > 0)
  BY <1>3 DEF BufferPinned, NoStaleCompletion, TypeOK
<1>5. BufferPinned' /\ NoStaleCompletion'
  BY <1>4 DEF BufferPinned, NoStaleCompletion, Sending
<1>6. ReturnsAfterSent'
  <2>1. \A v \in Writers : pc'[v] # "release"
    BY <1>1 DEF Holders, TypeOK
  <2>. QED
    BY <2>1 DEF ReturnsAfterSent
<1>. QED
  BY <1>2, <1>5, <1>6

LEMMA BulkInStep ==
    ASSUME Inv, NEW p \in Ports, BulkIn(p)
    PROVE  Inv'
<1>. USE DEF Inv, BulkIn, NeedsZlp, thread, flags
<1>1. TypeOK'
  <2>1. /\ cdc_tx_busy' \in Nat
        /\ inEp' \in [Ports -> {"closed", "idle", "data", "zlp"}]
    <3>1. CASE TransferLen(p) # 0 /\ TransferLen(p) % MPS = 0
      BY <3>1 DEF TypeOK
    <3>2. CASE ~(TransferLen(p) # 0 /\ TransferLen(p) % MPS = 0)
      BY <3>2 DEF TypeOK
    <3>. QED
      BY <3>1, <3>2
  <2>2. ended' \in [Writers -> BOOLEAN]
    BY DEF TypeOK, EndsShort
  <2>. QED
    BY <2>1, <2>2 DEF TypeOK
<1>2. OneHolder' /\ WaitersBlocked'
  <2>1. Holders' = Holders
    BY DEF Holders
  <2>. QED
    BY <2>1 DEF OneHolder, WaitersBlocked
<1>3. /\ Sending(p)
      /\ source[p] \in Writers
      /\ pc[source[p]] = "wait"
      /\ port[source[p]] = p
  BY DEF BufferPinned, Sending, TypeOK
<1>4. \A q \in Ports : Sending(q) => q = p
  BY <1>3 DEF BufferPinned, OneHolder, Holders, TypeOK
<1>5. cdc_tx_busy = 0
  BY <1>3 DEF NoStaleCompletion, TypeOK
<1>6. BufferPinned'
  BY <1>3 DEF BufferPinned, Sending, TypeOK
<1>7. NoStaleCompletion'
  <2>1. CASE TransferLen(p) # 0 /\ TransferLen(p) % MPS = 0
    BY <1>5, <2>1 DEF NoStaleCompletion
  <2>2. CASE ~(TransferLen(p) # 0 /\ TransferLen(p) % MPS = 0)
    <3>1. EndsShort(p)
      BY <2>2 DEF EndsShort
    <3>2. cdc_tx_busy' = 1 /\ inEp' = [inEp EXCEPT ![p] = "idle"]
      BY <1>5, <2>2
    <3>3. \A q \in Ports : ~Sending(q)'
      BY <1>4, <3>2 DEF Sending, TypeOK
    <3>4. pc'[source[p]] = "wait" /\ ended'[source[p]]
      BY <1>3, <3>1 DEF TypeOK
    <3>. QED
      BY <1>3, <3>2, <3>3, <3>4 DEF NoStaleCompletion
  <2>. QED
    BY <2>1, <2>2
<1>8. ReturnsAfterSent'
  BY DEF ReturnsAfterSent, TypeOK
<1>. QED
  BY <1>1, <1>2, <1>6, <1>7, <1>8

LEMMA ControlStep ==
    ASSUME Inv,
           (\E p \in Ports, b \in BOOLEAN : SetDtr(p, b)) \/ Configured \/ Reset
    PROVE  Inv'
<1>. USE DEF Inv, thread, sems, usb, flags
<1>1. TypeOK'
  BY DEF TypeOK, SetDtr, Configured, Reset
<1>2. UNCHANGED <<thread, sems, source, ended>>
  BY DEF SetDtr, Configured, Reset
<1>3. Holders' = Holders
  BY <1>2 DEF Holders
<1>4. \A p \in Ports : Sending(p)' => Sending(p)
  BY DEF Sending, SetDtr, Configured, Reset, TypeOK
<1>5. OneHolder' /\ WaitersBlocked'
  BY <1>2, <1>3 DEF OneHolder, WaitersBlocked
<1>6. BufferPinned' /\ NoStaleCompletion' /\ ReturnsAfterSent'
  BY <1>2, <1>4 DEF BufferPinned, NoStaleCompletion, ReturnsAfterSent
<1>. QED
  BY <1>1, <1>5, <1>6

LEMMA InvStep == Inv /\ [Next]_vars => Inv'
<1>. SUFFICES ASSUME Inv, [Next]_vars PROVE Inv'
  OBVIOUS
<1>1. ASSUME NEW w \in Writers, Write(w) PROVE Inv'
  BY <1>1, TakeEpStep, StartWriteStep, TakeTxStep, ReleaseEpStep DEF Write
<1>2. ASSUME NEW w \in Writers, NEW p \in Ports, NEW n \in Lengths, Call(w, p, n)
      PROVE Inv'
  BY <1>2, CallStep
<1>3. ASSUME NEW p \in Ports, BulkIn(p) PROVE Inv'
  BY <1>3, BulkInStep
<1>4. CASE UNCHANGED vars
  BY <1>4 DEF vars, Inv, TypeOK, OneHolder, Holders, WaitersBlocked, BufferPinned,
     Sending, NoStaleCompletion, ReturnsAfterSent
<1>. QED
  BY <1>1, <1>2, <1>3, <1>4, ControlStep DEF Next

\* Whatever the bus does, a buffer stays with its writer while it is sent, no
\* completion is left for the wrong write, and a write that returns has been
\* sent to the end.
THEOREM WriteSafety ==
    Spec => [](BufferPinned /\ NoStaleCompletion /\ ReturnsAfterSent)
<1>1. Inv => BufferPinned /\ NoStaleCompletion /\ ReturnsAfterSent
  BY DEF Inv
<1>. QED
  BY <1>1, InvInit, InvStep, PTL DEF Spec

\* cdc0_write and cdc1_write return only when the host has the end of the message,
\* a zero-length packet included (usb_cdc.c:177-188, :197).
THEOREM ReturnMeansSent == Spec => []ReturnsAfterSent
BY WriteSafety, PTL

\* Every variable keeps its type.
THEOREM TypeCorrect == Spec => []TypeOK
<1>1. Inv => TypeOK
  BY DEF Inv
<1>. QED
  BY <1>1, InvInit, InvStep, PTL DEF Spec

(***************************************************************************)
(* The writers implement TxQueue.                                          *)
(***************************************************************************)

Queue == Served \o waiters

LEMMA ServedHolder ==
    ASSUME Inv
    PROVE  /\ \A w \in Holders : Served = <<w>>
           /\ Holders = {} => Served = <<>>
BY DEF Inv, OneHolder, Served

\* The same a step later (Inv' is known).
LEMMA ServedHolderNext ==
    ASSUME Inv'
    PROVE  /\ \A w \in Holders' : Served' = <<w>>
           /\ Holders' = {} => Served' = <<>>
BY DEF Inv, OneHolder, Served

\* The stage is that of the holder.
LEMMA StageHolder ==
    ASSUME Inv, NEW w \in Holders
    PROVE  /\ pc[w] = "start" => Stage = "none"
           /\ (pc[w] = "wait" /\ ~(cdc_tx_busy > 0)) => Stage = "sending"
           /\ (pc[w] = "wait" /\ cdc_tx_busy > 0) => Stage = "sent"
           /\ pc[w] = "release" => Stage = "sent"
<1>1. w \in Writers
  BY DEF Holders
<1>2. \A v \in Writers : pc[v] \in {"wait", "release"} => v = w
  BY DEF Inv, OneHolder, Holders
<1>. QED
  BY <1>1, <1>2 DEF Stage

LEMMA StageHolderNext ==
    ASSUME Inv', NEW w \in Holders'
    PROVE  /\ pc'[w] = "start" => Stage' = "none"
           /\ (pc'[w] = "wait" /\ ~(cdc_tx_busy' > 0)) => Stage' = "sending"
           /\ (pc'[w] = "wait" /\ cdc_tx_busy' > 0) => Stage' = "sent"
           /\ pc'[w] = "release" => Stage' = "sent"
<1>1. w \in Writers
  BY DEF Holders
<1>2. \A v \in Writers : pc'[v] \in {"wait", "release"} => v = w
  BY DEF Inv, OneHolder, Holders
<1>. QED
  BY <1>1, <1>2 DEF Stage

LEMMA StageNoHolder ==
    ASSUME Inv, Holders = {}
    PROVE  Stage = "none"
BY DEF Holders, Stage

\* A step that moves no thread, no semaphore and no waiter is a stutter.
LEMMA Stutter ==
    ASSUME UNCHANGED <<pc, waiters, cdc_tx_busy>>
    PROVE  UNCHANGED <<Queue, Stage>>
BY DEF Queue, Served, Holders, Stage

LEMMA CallMaps ==
    ASSUME Inv, NEW w \in Writers, NEW p \in Ports, NEW n \in Lengths, Call(w, p, n)
    PROVE  UNCHANGED <<Queue, Stage>>
<1>1. Holders' = Holders /\ UNCHANGED <<waiters, cdc_tx_busy>>
  BY DEF Call, sems, Holders, Inv, TypeOK
<1>2. \A v \in Writers :
        /\ pc'[v] = "wait" <=> pc[v] = "wait"
        /\ pc'[v] = "release" <=> pc[v] = "release"
  BY DEF Call, Inv, TypeOK
<1>. QED
  BY <1>1, <1>2 DEF Queue, Served, Stage

LEMMA StartWriteMaps ==
    ASSUME Inv, Inv', NEW w \in Writers, StartWrite(w)
    PROVE  Queue # <<>> /\ Stage = "none" /\ Stage' = "sending" /\ Queue' = Queue
<1>1. w \in Holders /\ Holders' = Holders /\ pc[w] = "start" /\ pc'[w] = "wait"
  BY DEF StartWrite, Holders, Inv, TypeOK
<1>2. UNCHANGED <<waiters, cdc_tx_busy>>
  BY DEF StartWrite, sems
<1>3. Queue' = Queue
  BY <1>1, <1>2 DEF Queue, Served
<1>4. Queue # <<>>
  <2>1. Served = <<w>> /\ <<w>> \in Seq(Writers) /\ waiters \in Seq(Writers)
    BY <1>1, ServedHolder DEF Inv, TypeOK
  <2>. QED
    BY <2>1, ConcatProperties DEF Queue
<1>5. ~(cdc_tx_busy > 0)
  BY <1>1 DEF Inv, NoStaleCompletion, OneHolder, Holders
<1>6. Stage = "none"
  BY <1>1, StageHolder
<1>7. Stage' = "sending"
  BY <1>1, <1>2, <1>5, StageHolderNext
<1>. QED
  BY <1>3, <1>4, <1>6, <1>7

LEMMA TakeTxMaps ==
    ASSUME Inv, Inv', NEW w \in Writers, TakeTx(w)
    PROVE  UNCHANGED <<Queue, Stage>>
<1>1. /\ w \in Holders /\ Holders' = Holders
      /\ pc[w] = "wait" /\ cdc_tx_busy > 0 /\ pc'[w] = "release"
  BY DEF TakeTx, Holders, Inv, TypeOK
<1>2. UNCHANGED waiters
  BY DEF TakeTx
<1>3. Queue' = Queue
  BY <1>1, <1>2 DEF Queue, Served
<1>. QED
  BY <1>1, <1>3, StageHolder, StageHolderNext

LEMMA BulkInMaps ==
    ASSUME Inv, Inv', NEW p \in Ports, BulkIn(p)
    PROVE  \/ UNCHANGED <<Queue, Stage>>
           \/ Stage = "sending" /\ Stage' = "sent" /\ Queue' = Queue
<1>1. CASE TransferLen(p) # 0 /\ TransferLen(p) % MPS = 0
  BY <1>1, Stutter DEF BulkIn, NeedsZlp, thread
<1>2. CASE ~(TransferLen(p) # 0 /\ TransferLen(p) % MPS = 0)
  <2>1. UNCHANGED <<pc, waiters>> /\ cdc_tx_busy' = cdc_tx_busy + 1
    BY <1>2 DEF BulkIn, NeedsZlp, thread
  <2>2. source[p] \in Writers /\ pc[source[p]] = "wait" /\ Sending(p)
    BY DEF BulkIn, NeedsZlp, Inv, BufferPinned, Sending, TypeOK
  <2>3. source[p] \in Holders /\ source[p] \in Holders' /\ Holders' = Holders
    BY <2>1, <2>2 DEF Holders
  <2>4. cdc_tx_busy \in Nat /\ ~(cdc_tx_busy > 0)
    BY <2>2 DEF Inv, NoStaleCompletion, TypeOK
  <2>5. cdc_tx_busy' > 0
    BY <2>1, <2>4
  <2>6. Stage = "sending"
    BY <2>2, <2>3, <2>4, StageHolder
  <2>7. Stage' = "sent"
    BY <2>1, <2>2, <2>3, <2>5, StageHolderNext
  <2>8. Queue' = Queue
    BY <2>1, <2>3 DEF Queue, Served
  <2>. QED
    BY <2>6, <2>7, <2>8
<1>. QED
  BY <1>1, <1>2

LEMMA TakeEpMaps ==
    ASSUME Inv, Inv', NEW w \in Writers, TakeEp(w)
    PROVE  /\ \A i \in DOMAIN Queue : Queue[i] # w
           /\ Queue' = Append(Queue, w)
           /\ Stage' = Stage
<1>. USE DEF TakeEp, usb, flags
<1>1. waiters \in Seq(Writers) /\ w \notin Holders
  BY DEF Inv, TypeOK, Holders
<1>2. CASE ep_write_sem > 0
  <2>1. Holders = {} /\ waiters = <<>>
    BY <1>2 DEF Inv, OneHolder
  <2>2. w \in Holders' /\ pc'[w] = "start" /\ waiters' = <<>>
    BY <1>2, <2>1 DEF Holders, Inv, TypeOK
  <2>3. Queue = <<>> \o <<>> /\ Queue' = <<w>> \o <<>>
    BY <2>1, <2>2, ServedHolder, ServedHolderNext DEF Queue
  <2>4. <<w>> \in Seq(Writers) /\ <<>> \in Seq(Writers)
    OBVIOUS
  <2>5. Queue = <<>> /\ Queue' = <<w>>
    BY <2>3, <2>4, ConcatEmptySeq
  <2>6. Append(<<>>, w) = <<w>>
    OBVIOUS
  <2>7. Stage = "none" /\ Stage' = "none"
    BY <2>1, <2>2, StageNoHolder, StageHolderNext
  <2>. QED
    BY <2>5, <2>6, <2>7
<1>3. CASE ~(ep_write_sem > 0)
  <2>1. Holders # {} /\ Holders' = Holders
    BY <1>3 DEF Inv, OneHolder, Holders, TypeOK
  <2>2. PICK h \in Holders : TRUE
    BY <2>1
  <2>3. h \in Writers /\ Served = <<h>> /\ Served' = Served /\ h # w
    BY <1>1, <2>1, <2>2, ServedHolder DEF Holders, Served
  <2>4. waiters' = Append(waiters, w)
    BY <1>3
  <2>5. <<h>> \in Seq(Writers) /\ <<w>> \in Seq(Writers) /\ Queue \in Seq(Writers)
    BY <1>1, <2>3, ConcatProperties DEF Queue
  <2>6. Queue' = Append(Queue, w)
    <3>1. Append(waiters, w) = waiters \o <<w>>
      BY <1>1, AppendIsConcat
    <3>2. Queue' = <<h>> \o (waiters \o <<w>>)
      BY <2>3, <2>4, <3>1 DEF Queue
    <3>3. Queue' = (<<h>> \o waiters) \o <<w>>
      BY <1>1, <2>5, <3>2, ConcatAssociative
    <3>. QED
      BY <2>3, <2>5, <3>3, AppendIsConcat DEF Queue
  <2>7. \A i \in DOMAIN Queue : Queue[i] # w
    <3>1. \A i \in DOMAIN waiters : waiters[i] # w
      BY DEF Inv, WaitersBlocked
    <3>2. DOMAIN Queue = 1 .. Len(Queue) /\ DOMAIN waiters = 1 .. Len(waiters)
      BY <1>1, <2>5, LenProperties
    <3>3. Len(<<h>>) = 1 /\ <<h>>[1] = h /\ Len(waiters) \in Nat
      BY <1>1, LenProperties
    <3>4. /\ Len(Queue) = 1 + Len(waiters)
          /\ \A i \in 1 .. 1 + Len(waiters) :
                Queue[i] = IF i <= 1 THEN <<h>>[i] ELSE waiters[i - 1]
      BY <1>1, <2>3, <2>5, <3>3, ConcatProperties DEF Queue
    <3>. QED
      <4>. SUFFICES ASSUME NEW i \in DOMAIN Queue PROVE Queue[i] # w
        OBVIOUS
      <4>1. CASE i = 1
        BY <2>3, <3>2, <3>3, <3>4, <4>1
      <4>2. CASE i # 1
        <5>1. i - 1 \in DOMAIN waiters /\ Queue[i] = waiters[i - 1]
          BY <3>2, <3>3, <3>4, <4>2
        <5>. QED
          BY <3>1, <5>1
      <4>. QED
        BY <4>1, <4>2
  <2>8. Stage' = Stage
    <3>1. UNCHANGED cdc_tx_busy
      BY DEF TakeEp
    <3>2. \A v \in Writers :
            /\ pc'[v] = "wait" <=> pc[v] = "wait"
            /\ pc'[v] = "release" <=> pc[v] = "release"
      BY <1>3 DEF Inv, TypeOK
    <3>. QED
      BY <3>1, <3>2 DEF Stage
  <2>. QED
    BY <2>6, <2>7, <2>8
<1>. QED
  BY <1>2, <1>3

LEMMA ReleaseEpMaps ==
    ASSUME Inv, Inv', NEW w \in Writers, ReleaseEp(w)
    PROVE  Stage = "sent" /\ Stage' = "none" /\ Queue' = Tail(Queue)
<1>. USE DEF ReleaseEp, usb, flags
<1>1. w \in Holders /\ pc[w] = "release" /\ waiters \in Seq(Writers)
  BY DEF Holders, Inv, TypeOK
<1>2. Stage = "sent"
  BY <1>1, StageHolder
<1>3. Queue = <<w>> \o waiters
  BY <1>1, ServedHolder DEF Queue
<1>4. Tail(Queue) = waiters
  <2>1. Len(<<w>>) = 1 /\ <<w>> \in Seq(Writers) /\ Len(waiters) \in Nat
    BY <1>1, LenProperties
  <2>2. /\ Queue \in Seq(Writers) /\ Len(Queue) = 1 + Len(waiters)
        /\ \A i \in 1 .. 1 + Len(waiters) :
              Queue[i] = IF i <= 1 THEN <<w>>[i] ELSE waiters[i - 1]
    BY <1>1, <1>3, <2>1, ConcatProperties
  <2>3. Queue # <<>>
    BY <2>1, <2>2
  <2>4. /\ Tail(Queue) \in Seq(Writers) /\ Len(Tail(Queue)) = Len(waiters)
        /\ \A i \in 1 .. Len(waiters) : Tail(Queue)[i] = Queue[i + 1]
    BY <2>1, <2>2, <2>3, HeadTailProperties
  <2>5. \A i \in 1 .. Len(waiters) : Tail(Queue)[i] = waiters[i]
    BY <2>1, <2>2, <2>4
  <2>. QED
    BY <1>1, <2>4, <2>5, SeqEqual
<1>5. CASE waiters = <<>>
  <2>1. Holders' = {} /\ waiters' = <<>>
    <3>1. Holders = {w}
      BY <1>1 DEF Inv, OneHolder
    <3>. QED
      BY <1>5, <3>1 DEF Holders, Inv, TypeOK
  <2>2. Stage' = "none"
    BY <2>1 DEF Holders, Stage
  <2>3. Queue' = <<>> \o <<>>
    BY <2>1, ServedHolderNext DEF Queue
  <2>4. <<>> \in Seq(Writers)
    OBVIOUS
  <2>. QED
    BY <1>2, <1>4, <1>5, <2>2, <2>3, <2>4, ConcatEmptySeq
<1>6. CASE waiters # <<>>
  <2>1. /\ waiters' = Tail(waiters)
        /\ Head(waiters) \in Writers
        /\ pc'[Head(waiters)] = "start"
    <3>1. Head(waiters) \in Writers
      BY <1>1, <1>6, HeadTailProperties
    <3>. QED
      BY <1>6, <3>1 DEF Inv, TypeOK
  <2>2. Head(waiters) \in Holders'
    BY <2>1 DEF Holders
  <2>3. Stage' = "none"
    BY <2>1, <2>2, StageHolderNext
  <2>4. Queue' = <<Head(waiters)>> \o Tail(waiters)
    BY <2>1, <2>2, ServedHolderNext DEF Queue
  <2>5. <<Head(waiters)>> \o Tail(waiters) = waiters
    BY <1>1, <1>6, Rejoin
  <2>. QED
    BY <1>2, <1>4, <2>3, <2>4, <2>5
<1>. QED
  BY <1>5, <1>6

LEMMA InitMaps == Init => TxQ!Init
<1>. SUFFICES ASSUME Init PROVE TxQ!Init
  OBVIOUS
<1>1. Holders = {} /\ waiters = <<>>
  BY DEF Init, Holders
<1>2. Inv
  BY InvInit
<1>3. Queue = <<>> \o <<>> /\ Stage = "none"
  BY <1>1, <1>2, ServedHolder, StageNoHolder DEF Queue
<1>4. <<>> \in Seq(Writers)
  OBVIOUS
<1>. QED
  BY <1>3, <1>4, ConcatEmptySeq DEF TxQ!Init, Queue

LEMMA StepMaps == Inv /\ Inv' /\ [Next]_vars => [TxQ!Next]_(TxQ!txvars)
<1>. SUFFICES ASSUME Inv, Inv', [Next]_vars PROVE [TxQ!Next]_<<Queue, Stage>>
  BY DEF TxQ!txvars, Queue
<1>. USE DEF TxQ!Next
<1>1. ASSUME NEW w \in Writers, TakeEp(w) PROVE TxQ!Enter(w)
  BY <1>1, TakeEpMaps DEF TxQ!Enter, Queue
<1>2. ASSUME NEW w \in Writers, StartWrite(w) PROVE TxQ!Begin
  BY <1>2, StartWriteMaps DEF TxQ!Begin, Queue
<1>3. ASSUME NEW w \in Writers, ReleaseEp(w) PROVE TxQ!Leave
  BY <1>3, ReleaseEpMaps DEF TxQ!Leave, Queue
<1>4. ASSUME NEW p \in Ports, BulkIn(p) PROVE TxQ!Finish \/ UNCHANGED <<Queue, Stage>>
  BY <1>4, BulkInMaps DEF TxQ!Finish, Queue
<1>5. ASSUME NEW w \in Writers, TakeTx(w) PROVE UNCHANGED <<Queue, Stage>>
  BY <1>5, TakeTxMaps
<1>6. ASSUME NEW w \in Writers, NEW p \in Ports, NEW n \in Lengths, Call(w, p, n)
      PROVE UNCHANGED <<Queue, Stage>>
  BY <1>6, CallMaps
<1>7. CASE (\E p \in Ports, b \in BOOLEAN : SetDtr(p, b)) \/ Configured \/ Reset
  BY <1>7, Stutter DEF SetDtr, Configured, Reset, thread, sems
<1>8. CASE UNCHANGED vars
  BY <1>8, Stutter DEF vars
<1>. QED
  BY <1>1, <1>2, <1>3, <1>4, <1>5, <1>6, <1>7, <1>8 DEF Next, Write

\* cdc0_write and cdc1_write, with their two semaphores and whatever the bus
\* does, are a first-come-first-served queue.
THEOREM ImplementsTxQueue == Spec => ServedInOrder
BY InitMaps, StepMaps, InvInit, InvStep, PTL DEF Spec, ServedInOrder, TxQ!Spec
=============================================================================
