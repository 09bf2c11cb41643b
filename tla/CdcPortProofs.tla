--------------------------- MODULE CdcPortProofs ---------------------------
(***************************************************************************)
(* Proofs about CdcPort, for any set of readers and any packet size, and   *)
(* about AuxCdc, which puts the terminal's two readers on such a port, for *)
(* any read size.                                                          *)
(***************************************************************************)
EXTENDS AuxCdc, TLAPS

(***************************************************************************)
(* The inductive invariant.                                                *)
(***************************************************************************)

\* The wait loop belongs to cdc0_getchar_timeout, and a thread inside
\* rt_wqueue_wait has a round left.
WaitLoopOK ==
    /\ \A r \in Readers :
          (after[r] = "poll" \/ pc[r] \in {"poll", "wait", "sleep", "woken"})
            => Port = "cdc0"
    /\ \A r \in Readers :
          pc[r] \in {"wait", "sleep", "woken"} => waits[r] < MaxWaits

\* A reader that has seen the flag down is alone in the re-arm code of an open
\* port.
Alone ==
    ep # "closed" =>
        \A r, q \in Readers :
            (pc[r] \in {"space", "arm"} /\ pc[q] \in {"space", "arm", "mark"})
                => r = q

\* The endpoint is not armed before such a reader arms it, and only with room.
ArmedAfterCheck == ep = "armed" => ~Deciding /\ Space >= MPS

\* An armed endpoint whose flag is down is one whose flag a reader will set.
FlagPending == ep = "armed" /\ ~busy => \E r \in Readers : pc[r] = "mark"

\* The room a reader has found is still there when it arms the endpoint.
Checked == \A r \in Readers : pc[r] = "arm" => Space >= MPS

\* All this holds unless a read is pending, or about to be, that nothing has
\* looked at the ring for.
RearmOK == ~forced => Alone /\ ArmedAfterCheck /\ FlagPending /\ Checked

\* A character that arrives after the test of the ring sets the queue's flag.
WakeOK ==
    \A r \in Readers : pc[r] = "wait" /\ len > 0 => wq

(***************************************************************************)
(* What the proofs use of the constants.                                   *)
(***************************************************************************)

LEMMA Sizes ==
    /\ MPS \in Nat
    /\ MPS > 0
    /\ GetMax \in Nat
    /\ MaxWaits \in Nat
    /\ RingSize \in Nat
    /\ RingSize = 2 * MPS
BY PortAssumption DEF RingSize

LEMMA Zero == 0 \in 0 .. RingSize /\ 0 \in 0 .. MaxWaits
BY Sizes

(***************************************************************************)
(* Type correctness.                                                       *)
(***************************************************************************)

TypeInv == TypeOK /\ WaitLoopOK

LEMMA TypeInit == Init => TypeInv
BY Zero DEF Init, TypeInv, TypeOK, WaitLoopOK

LEMMA TypeStep == TypeInv /\ [Next]_vars => TypeInv'
<1>. SUFFICES ASSUME TypeInv, [Next]_vars PROVE TypeInv'
  OBVIOUS
<1>. USE DEF TypeInv
<1>1. ASSUME NEW n \in 0 .. MPS, BulkOut(n) PROVE TypeInv'
  <2>1. len' \in 0 .. RingSize
    BY <1>1, Sizes DEF BulkOut, NotBusy, WakeUp, TypeOK, Min, Space
  <2>. QED
    BY <1>1, <2>1 DEF BulkOut, NotBusy, WakeUp, NextReadFromISR, StartRead, TypeOK, WaitLoopOK
<1>2. CASE SetDtr
  BY <1>2 DEF SetDtr, ArmUnchecked, NextReadFromISR, StartRead, TypeOK,
     WaitLoopOK
<1>3. CASE Configured
  BY <1>3 DEF Configured, TypeOK, WaitLoopOK
<1>4. CASE Reset
  BY <1>4, Zero DEF Reset, TypeOK, WaitLoopOK
<1>5. ASSUME NEW r \in Readers, NEW n \in 1 .. GetMax, Get(r, n) PROVE TypeInv'
  BY <1>5, Sizes DEF Get, TakeThen, Goto, Min, TypeOK, WaitLoopOK
<1>6. ASSUME NEW r \in Readers, GetChar(r) PROVE TypeInv'
  BY <1>6, Sizes DEF GetChar, TakeThen, Goto, Min, TypeOK, WaitLoopOK
<1>7. ASSUME NEW r \in Readers, GetCharTimeout(r) PROVE TypeInv'
  BY <1>7, Sizes DEF GetCharTimeout, TakeThen, Goto, Min, TypeOK, WaitLoopOK
<1>8. ASSUME NEW r \in Readers, CheckBusy(r) PROVE TypeInv'
  BY <1>8 DEF CheckBusy, Goto, OtherRearming, TypeOK, WaitLoopOK
<1>9. ASSUME NEW r \in Readers, CheckSpace(r) PROVE TypeInv'
  BY <1>9 DEF CheckSpace, Goto, TypeOK, WaitLoopOK
<1>10. ASSUME NEW r \in Readers, Arm(r) PROVE TypeInv'
  BY <1>10 DEF Arm, StartRead, Goto, TypeOK, WaitLoopOK
<1>11. ASSUME NEW r \in Readers, Mark(r) PROVE TypeInv'
  BY <1>11 DEF Mark, Goto, TypeOK, WaitLoopOK
<1>12. ASSUME NEW r \in Readers, Poll(r) PROVE TypeInv'
  BY <1>12, Sizes DEF Poll, Goto, TypeOK, WaitLoopOK
<1>13. ASSUME NEW r \in Readers, Wait(r) PROVE TypeInv'
  <2>1. waits[r] + 1 \in 0 .. MaxWaits
    BY <1>13, Sizes DEF Wait, WaitLoopOK, TypeOK
  <2>. QED
    BY <1>13, <2>1 DEF Wait, LeaveWait, Goto, TypeOK, WaitLoopOK
<1>14. ASSUME NEW r \in Readers, Woken(r) PROVE TypeInv'
  <2>1. waits[r] + 1 \in 0 .. MaxWaits
    BY <1>14, Sizes DEF Woken, WaitLoopOK, TypeOK
  <2>. QED
    BY <1>14, <2>1 DEF Woken, LeaveWait, Goto, TypeOK, WaitLoopOK
<1>15. ASSUME NEW r \in Readers, LastTake(r) PROVE TypeInv'
  BY <1>15, Sizes DEF LastTake, TakeThen, Goto, Min, TypeOK, WaitLoopOK
<1>16. ASSUME NEW r \in Readers, Tick(r) PROVE TypeInv'
  BY <1>16 DEF Tick, Goto, TypeOK, WaitLoopOK
<1>17. CASE UNCHANGED vars
  BY <1>17 DEF vars, TypeOK, WaitLoopOK
<1>. QED
  BY <1>1, <1>2, <1>3, <1>4, <1>5, <1>6, <1>7, <1>8, <1>9,
     <1>10, <1>11, <1>12, <1>13, <1>14, <1>15, <1>16, <1>17
     DEF Next, ISR, Call, Run

\* Every variable keeps its type; in particular the ring never holds more than
\* its size and the wait loop never counts past its bound.
THEOREM TypeCorrect == Spec => []TypeOK
<1>1. TypeInv => TypeOK
  BY DEF TypeInv
<1>. QED
  BY <1>1, TypeInit, TypeStep, PTL DEF Spec

(***************************************************************************)
(* Flow control.                                                           *)
(***************************************************************************)

FlowInv == TypeOK /\ RearmOK

LEMMA FlowInit == Init => RearmOK
BY Sizes DEF Init, RearmOK, Alone, ArmedAfterCheck, FlagPending,
   Checked, Deciding

LEMMA FlowStep == FlowInv /\ [Next]_vars => RearmOK'
<1>. SUFFICES ASSUME FlowInv, [Next]_vars PROVE RearmOK'
  OBVIOUS
<1>. USE Sizes
        DEF FlowInv, Alone, ArmedAfterCheck, FlagPending, Checked
<1>1. ASSUME NEW n \in 0 .. MPS, BulkOut(n) PROVE RearmOK'
  BY <1>1 DEF BulkOut, NotBusy, WakeUp, NextReadFromISR, StartRead, Deciding, Space, TypeOK,
     RearmOK
<1>2. CASE SetDtr
  <2>1. CASE forced'
    BY <1>2, <2>1 DEF SetDtr, ArmUnchecked, NextReadFromISR, StartRead,
       TypeOK, RearmOK
  <2>2. CASE ~forced'
    <3>1. ep' = "armed" => (Space >= MPS /\ ~Deciding)
      <4>1. ep' = "armed" => ~(Space < MPS) /\ ~Deciding
        BY <1>2, <2>2, Zenon DEF SetDtr, ArmUnchecked
      <4>. QED
        BY <4>1 DEF Space, TypeOK
    <3>2. ep' = IF ep = "closed" THEN "closed" ELSE "armed"
      BY <1>2 DEF SetDtr, ArmUnchecked, NextReadFromISR, StartRead
    <3>3. busy' /\ ~forced /\ UNCHANGED <<len, pc>>
      BY <1>2, <2>2 DEF SetDtr, ArmUnchecked, NextReadFromISR
    <3>4. Alone' /\ ArmedAfterCheck'
      BY <3>1, <3>2, <3>3, <2>2 DEF Deciding, Space, RearmOK
    <3>5. FlagPending' /\ Checked'
      BY <3>1, <3>2, <3>3, <2>2 DEF Space, RearmOK
    <3>. QED
      BY <3>1, <3>2, <3>3, <2>2, <3>4, <3>5 DEF RearmOK
  <2>. QED
    BY <2>1, <2>2
<1>3. CASE Configured
  <2>1. CASE forced'
    BY <1>3, <2>1 DEF Configured, TypeOK, RearmOK
  <2>2. CASE ~forced'
    <3>1. Space >= MPS /\ ~Deciding
      <4>1. ~(Space < MPS) /\ ~Deciding
        BY <1>3, <2>2, Zenon DEF Configured
      <4>. QED
        BY <4>1 DEF Space, TypeOK
    <3>2. ep' = "armed" /\ busy' /\ ~forced /\ UNCHANGED <<len, pc>>
      BY <1>3, <2>2 DEF Configured
    <3>4. Alone' /\ ArmedAfterCheck'
      BY <3>1, <3>2, <2>2 DEF Deciding, Space, RearmOK
    <3>5. FlagPending' /\ Checked'
      BY <3>1, <3>2, <2>2 DEF Space, RearmOK
    <3>. QED
      BY <3>1, <3>2, <2>2, <3>4, <3>5 DEF RearmOK
  <2>. QED
    BY <2>1, <2>2
<1>4. CASE Reset
  BY <1>4 DEF Reset, Deciding, Space, TypeOK, RearmOK
<1>5. ASSUME NEW r \in Readers, NEW n \in 1 .. GetMax, Get(r, n) PROVE RearmOK'
  BY <1>5 DEF Get, TakeThen, Goto, Min, Deciding, Space, TypeOK, RearmOK
<1>6. ASSUME NEW r \in Readers, GetChar(r) PROVE RearmOK'
  BY <1>6 DEF GetChar, TakeThen, Goto, Min, Deciding, Space, TypeOK, RearmOK
<1>7. ASSUME NEW r \in Readers, GetCharTimeout(r) PROVE RearmOK'
  BY <1>7 DEF GetCharTimeout, TakeThen, Goto, Min, Deciding, Space, TypeOK,
     RearmOK
<1>8. ASSUME NEW r \in Readers, CheckBusy(r) PROVE RearmOK'
  <2>1. CASE forced'
    BY <2>1 DEF RearmOK
  <2>2. CASE ~forced'
    <3>1. ~forced /\ (~busy => ~OtherRearming(r)) /\ UNCHANGED <<ep, busy, len>>
      BY <1>8, <2>2 DEF CheckBusy
    <3>2. CASE busy
      <4>1. ~(pc'[r] \in {"space", "arm", "mark"}) /\ pc[r] # "mark"
        BY <1>8, <3>2 DEF CheckBusy, Goto, TypeOK
      <4>2. \A q \in Readers \ {r} : pc'[q] = pc[q]
        BY <1>8 DEF CheckBusy, Goto, TypeOK
      <4>. QED
        BY <3>1, <3>2, <4>1, <4>2, <2>2 DEF Deciding, Space, RearmOK
    <3>3. CASE ~busy
      <4>1. pc' = [pc EXCEPT ![r] = "space"] /\ pc[r] = "busy"
        BY <1>8, <3>3 DEF CheckBusy, Goto
      <4>2. ep # "armed"
        BY <3>1, <3>3, <4>1 DEF OtherRearming, RearmOK
      <4>. QED
        BY <3>1, <3>3, <4>1, <4>2, <2>2 DEF OtherRearming, Deciding, Space, TypeOK, RearmOK
    <3>. QED
      BY <3>2, <3>3
  <2>. QED
    BY <2>1, <2>2
<1>9. ASSUME NEW r \in Readers, CheckSpace(r) PROVE RearmOK'
  BY <1>9 DEF CheckSpace, Goto, Deciding, Space, TypeOK, RearmOK
<1>10. ASSUME NEW r \in Readers, Arm(r) PROVE RearmOK'
  BY <1>10 DEF Arm, StartRead, Goto, Deciding, Space, TypeOK, RearmOK
<1>11. ASSUME NEW r \in Readers, Mark(r) PROVE RearmOK'
  BY <1>11 DEF Mark, Goto, Deciding, Space, TypeOK, RearmOK
<1>12. ASSUME NEW r \in Readers, Poll(r) PROVE RearmOK'
  BY <1>12 DEF Poll, Goto, Deciding, Space, TypeOK, RearmOK
<1>13. ASSUME NEW r \in Readers, Wait(r) PROVE RearmOK'
  BY <1>13 DEF Wait, LeaveWait, Goto, Deciding, Space, TypeOK, RearmOK
<1>14. ASSUME NEW r \in Readers, Woken(r) PROVE RearmOK'
  BY <1>14 DEF Woken, LeaveWait, Goto, Deciding, Space, TypeOK, RearmOK
<1>15. ASSUME NEW r \in Readers, LastTake(r) PROVE RearmOK'
  BY <1>15 DEF LastTake, TakeThen, Goto, Min, Deciding, Space, TypeOK,
     RearmOK
<1>16. ASSUME NEW r \in Readers, Tick(r) PROVE RearmOK'
  BY <1>16 DEF Tick, Goto, Deciding, Space, TypeOK, RearmOK
<1>17. CASE UNCHANGED vars
  BY <1>17 DEF vars, Deciding, Space, TypeOK, RearmOK
<1>. QED
  BY <1>1, <1>2, <1>3, <1>4, <1>5, <1>6, <1>7, <1>8, <1>9,
     <1>10, <1>11, <1>12, <1>13, <1>14, <1>15, <1>16, <1>17
     DEF Next, ISR, Call, Run

\* The endpoint is never armed without room for a whole packet, except for the one
\* read that was started without a test of the ring that still held.
THEOREM FlowControl == Spec => []RoomWhenArmed
<1>1. FlowInv => RoomWhenArmed
  BY DEF FlowInv, RearmOK, ArmedAfterCheck, RoomWhenArmed
<1>2. TypeOK /\ RearmOK => FlowInv
  BY DEF FlowInv
<1>. QED
  BY <1>1, <1>2, TypeCorrect, FlowInit, FlowStep, PTL DEF Spec

(***************************************************************************)
(* The wait queue.                                                         *)
(***************************************************************************)

WaitOK == WakeOK /\ NoSleepOnData
WaitInv == TypeInv /\ WaitOK

LEMMA WaitInit == Init => WaitOK
BY DEF WaitOK, Init, WakeOK, NoSleepOnData

LEMMA WaitStep == WaitInv /\ [Next]_vars => WaitOK'
<1>. SUFFICES ASSUME WaitInv, [Next]_vars PROVE WaitOK'
  OBVIOUS
<1>. USE DEF WaitInv, WaitOK, TypeInv
<1>1. ASSUME NEW n \in 0 .. MPS, BulkOut(n) PROVE WaitOK'
  BY <1>1, Sizes DEF BulkOut, NotBusy, WakeUp, Min, Space, TypeOK, WaitLoopOK, WakeOK,
     NoSleepOnData
<1>2. CASE SetDtr
  BY <1>2 DEF SetDtr, ArmUnchecked, NextReadFromISR, StartRead, TypeOK,
     WaitLoopOK, WakeOK, NoSleepOnData
<1>3. CASE Configured
  BY <1>3 DEF Configured, TypeOK, WaitLoopOK, WakeOK, NoSleepOnData
<1>4. CASE Reset
  BY <1>4 DEF Reset, TypeOK, WaitLoopOK, WakeOK, NoSleepOnData
<1>5. ASSUME NEW r \in Readers, NEW n \in 1 .. GetMax, Get(r, n) PROVE WaitOK'
  BY <1>5, Sizes DEF Get, TakeThen, Goto, Min, TypeOK, WaitLoopOK, WakeOK,
     NoSleepOnData
<1>6. ASSUME NEW r \in Readers, GetChar(r) PROVE WaitOK'
  BY <1>6, Sizes DEF GetChar, TakeThen, Goto, Min, TypeOK, WaitLoopOK,
     WakeOK, NoSleepOnData
<1>7. ASSUME NEW r \in Readers, GetCharTimeout(r) PROVE WaitOK'
  BY <1>7, Sizes DEF GetCharTimeout, TakeThen, Goto, Min, TypeOK, WaitLoopOK,
     WakeOK, NoSleepOnData
<1>8. ASSUME NEW r \in Readers, CheckBusy(r) PROVE WaitOK'
  BY <1>8 DEF CheckBusy, Goto, OtherRearming, TypeOK, WaitLoopOK, WakeOK,
     NoSleepOnData
<1>9. ASSUME NEW r \in Readers, CheckSpace(r) PROVE WaitOK'
  BY <1>9 DEF CheckSpace, Goto, TypeOK, WaitLoopOK, WakeOK, NoSleepOnData
<1>10. ASSUME NEW r \in Readers, Arm(r) PROVE WaitOK'
  BY <1>10 DEF Arm, StartRead, Goto, TypeOK, WaitLoopOK, WakeOK, NoSleepOnData
<1>11. ASSUME NEW r \in Readers, Mark(r) PROVE WaitOK'
  BY <1>11 DEF Mark, Goto, TypeOK, WaitLoopOK, WakeOK, NoSleepOnData
<1>12. ASSUME NEW r \in Readers, Poll(r) PROVE WaitOK'
  BY <1>12 DEF Poll, Goto, TypeOK, WaitLoopOK, WakeOK, NoSleepOnData
<1>13. ASSUME NEW r \in Readers, Wait(r) PROVE WaitOK'
  BY <1>13, PortAssumption DEF Wait, LeaveWait, Goto, TypeOK, WaitLoopOK,
     WakeOK, NoSleepOnData
<1>14. ASSUME NEW r \in Readers, Woken(r) PROVE WaitOK'
  BY <1>14, PortAssumption DEF Woken, LeaveWait, Goto, TypeOK, WaitLoopOK,
     WakeOK, NoSleepOnData
<1>15. ASSUME NEW r \in Readers, LastTake(r) PROVE WaitOK'
  BY <1>15, Sizes DEF LastTake, TakeThen, Goto, Min, TypeOK, WaitLoopOK,
     WakeOK, NoSleepOnData
<1>16. ASSUME NEW r \in Readers, Tick(r) PROVE WaitOK'
  BY <1>16 DEF Tick, Goto, TypeOK, WaitLoopOK, WakeOK, NoSleepOnData
<1>17. CASE UNCHANGED vars
  BY <1>17 DEF vars, TypeOK, WaitLoopOK, WakeOK, NoSleepOnData
<1>. QED
  BY <1>1, <1>2, <1>3, <1>4, <1>5, <1>6, <1>7, <1>8, <1>9,
     <1>10, <1>11, <1>12, <1>13, <1>14, <1>15, <1>16, <1>17
     DEF Next, ISR, Call, Run

\* No wake-up is lost: the gdb server is never suspended with a character in
\* the ring.
THEOREM NoLostWakeup == Spec => []NoSleepOnData
<1>1. TypeInv /\ WaitOK => WaitInv
  BY DEF WaitInv
<1>2. WaitInv /\ [Next]_vars => WaitInv'
  BY TypeStep, WaitStep DEF WaitInv
<1>3. WaitInv => NoSleepOnData
  BY DEF WaitInv, WaitOK
<1>. QED
  BY <1>1, <1>2, <1>3, TypeInit, WaitInit, PTL DEF Spec

(***************************************************************************)
(* The stall.                                                              *)
(***************************************************************************)

LEMMA StallStep ==
    TypeOK /\ [Next]_vars =>
        ((~Dead /\ Dead') =>
            \E r \in Readers : pc[r] = "mark" /\ pc'[r] # "mark")
<1>. DEFINE Late == \E r \in Readers : pc[r] = "mark" /\ pc'[r] # "mark"
<1>. SUFFICES ASSUME TypeOK, [Next]_vars, ~Dead, Dead' PROVE Late
  OBVIOUS
<1>1. ASSUME NEW n \in 0 .. MPS, BulkOut(n) PROVE Late
  BY <1>1 DEF BulkOut, NotBusy, WakeUp, NextReadFromISR, StartRead, TypeOK, Dead
<1>2. CASE SetDtr
  BY <1>2 DEF SetDtr, ArmUnchecked, NextReadFromISR, StartRead, TypeOK, Dead
<1>3. CASE Configured
  BY <1>3 DEF Configured, TypeOK, Dead
<1>4. CASE Reset
  BY <1>4 DEF Reset, TypeOK, Dead
<1>5. ASSUME NEW r \in Readers, NEW n \in 1 .. GetMax, Get(r, n) PROVE Late
  BY <1>5 DEF Get, TakeThen, Goto, TypeOK, Dead
<1>6. ASSUME NEW r \in Readers, GetChar(r) PROVE Late
  BY <1>6 DEF GetChar, TakeThen, Goto, TypeOK, Dead
<1>7. ASSUME NEW r \in Readers, GetCharTimeout(r) PROVE Late
  BY <1>7 DEF GetCharTimeout, TakeThen, Goto, TypeOK, Dead
<1>8. ASSUME NEW r \in Readers, CheckBusy(r) PROVE Late
  BY <1>8 DEF CheckBusy, Goto, OtherRearming, TypeOK, Dead
<1>9. ASSUME NEW r \in Readers, CheckSpace(r) PROVE Late
  BY <1>9 DEF CheckSpace, Goto, TypeOK, Dead
<1>10. ASSUME NEW r \in Readers, Arm(r) PROVE Late
  BY <1>10 DEF Arm, StartRead, Goto, TypeOK, Dead
<1>11. ASSUME NEW r \in Readers, Mark(r) PROVE Late
  BY <1>11 DEF Mark, Goto, TypeOK, Dead
<1>12. ASSUME NEW r \in Readers, Poll(r) PROVE Late
  BY <1>12 DEF Poll, Goto, TypeOK, Dead
<1>13. ASSUME NEW r \in Readers, Wait(r) PROVE Late
  BY <1>13 DEF Wait, LeaveWait, Goto, TypeOK, Dead
<1>14. ASSUME NEW r \in Readers, Woken(r) PROVE Late
  BY <1>14 DEF Woken, LeaveWait, Goto, TypeOK, Dead
<1>15. ASSUME NEW r \in Readers, LastTake(r) PROVE Late
  BY <1>15 DEF LastTake, TakeThen, Goto, TypeOK, Dead
<1>16. ASSUME NEW r \in Readers, Tick(r) PROVE Late
  BY <1>16 DEF Tick, Goto, TypeOK, Dead
<1>17. CASE UNCHANGED vars
  BY <1>17 DEF vars, TypeOK, Dead
<1>. QED
  BY <1>1, <1>2, <1>3, <1>4, <1>5, <1>6, <1>7, <1>8, <1>9,
     <1>10, <1>11, <1>12, <1>13, <1>14, <1>15, <1>16, <1>17
     DEF Next, ISR, Call, Run

\* The only way into the dead state of the port is the late store to
\* cdcN_read_busy in a thread.
THEOREM StallCause == Spec => StallOnlyByLateStore
BY TypeCorrect, StallStep, PTL DEF Spec, StallOnlyByLateStore

(***************************************************************************)
(* AuxCdc uses the port as CdcPort says it may be used.                    *)
(***************************************************************************)

LEMMA PortNext == [AuxNext]_allvars => [Next]_vars \/ TakeEvent
<1>. SUFFICES ASSUME [AuxNext]_allvars PROVE [Next]_vars \/ TakeEvent
  OBVIOUS
<1>. USE AuxAssumption DEF Next, Call
<1>1. CASE USB
  BY <1>1 DEF USB
<1>2. CASE AuxEvent
  BY <1>2 DEF AuxEvent
<1>3. CASE AuxGet
  <2>1. GetMax \in 1 .. GetMax /\ "aux" \in Readers
    BY PortAssumption
  <2>. QED
    BY <1>3, <2>1 DEF AuxGet
<1>4. CASE AuxGetting \/ RttRun \/ RttGetChar
  BY <1>4 DEF AuxGetting, RttRun, RttGetChar
<1>5. CASE AuxWait \/ AuxRtt \/ AuxEmpty \/ AuxGot \/ AuxSend \/ RttToggle
  BY <1>5 DEF AuxWait, AuxRtt, AuxEmpty, AuxGot, AuxSend, RttToggle
<1>6. CASE UNCHANGED allvars
  BY <1>6 DEF allvars
<1>. QED
  BY <1>1, <1>2, <1>3, <1>4, <1>5, <1>6 DEF AuxNext, Aux

\* The event is no part of the port's invariants.
LEMMA EventStep ==
    ASSUME TakeEvent
    PROVE  /\ TypeInv => TypeInv'
           /\ RearmOK => RearmOK'
<1>1. TypeInv => TypeInv'
  BY DEF TakeEvent, TypeInv, TypeOK, WaitLoopOK
<1>2. RearmOK => RearmOK'
  BY DEF TakeEvent, RearmOK, Alone, ArmedAfterCheck, FlagPending, Checked, Deciding, Space
<1>. QED
  BY <1>1, <1>2

LEMMA AuxTypeStep == TypeInv /\ [AuxNext]_allvars => TypeInv'
BY PortNext, TypeStep, EventStep

LEMMA AuxFlowStep == FlowInv /\ [AuxNext]_allvars => RearmOK'
BY PortNext, FlowStep, EventStep DEF FlowInv

\* With its two readers the terminal's port is still never armed without room,
\* with the same exception.
THEOREM TerminalFlowControl == AuxSpec => []RoomWhenArmed
<1>1. AuxInit => Init
  BY DEF AuxInit
<1>2. TypeInv => TypeOK
  BY DEF TypeInv
<1>3. TypeOK /\ RearmOK => FlowInv
  BY DEF FlowInv
<1>4. FlowInv => RoomWhenArmed
  BY DEF FlowInv, RearmOK, ArmedAfterCheck, RoomWhenArmed
<1>. QED
  BY <1>1, <1>2, <1>3, <1>4, TypeInit, AuxTypeStep, FlowInit, AuxFlowStep, PTL
     DEF AuxSpec

(***************************************************************************)
(* No input is forgotten.                                                  *)
(***************************************************************************)

Inv == TypeInv /\ NoForgottenInput

LEMMA InvInit == AuxInit => Inv
<1>. SUFFICES ASSUME AuxInit PROVE Inv
  OBVIOUS
<1>1. TypeInv
  BY TypeInit DEF AuxInit
<1>2. ~(len > 0)
  BY DEF AuxInit, Init
<1>. QED
  BY <1>1, <1>2 DEF Inv, NoForgottenInput

\* A packet that adds to the ring sets the event.
LEMMA IsrStep ==
    ASSUME Inv, ISR
    PROVE  (len' > 0 /\ ~rx_event') => (len > 0 /\ ~rx_event)
<1>. USE AuxAssumption, Sizes DEF Inv, TypeInv
<1>1. ASSUME NEW n \in 0 .. MPS, BulkOut(n)
      PROVE  (len' > 0 /\ ~rx_event') => (len > 0 /\ ~rx_event)
  <2>1. rx_event' = (rx_event \/ n > 0)
    BY <1>1 DEF BulkOut, NotBusy, WakeUp
  <2>2. len' = len + Min(n, Space)
    BY <1>1 DEF BulkOut, NotBusy, WakeUp
  <2>3. ~rx_event' => ~rx_event /\ ~(n > 0)
    BY <2>1, Zenon
  <2>4. ~(n > 0) => len' = len
    BY <2>2 DEF Min, Space, TypeOK
  <2>. QED
    BY <2>1, <2>3, <2>4
<1>2. CASE SetDtr \/ Configured
  BY <1>2 DEF SetDtr, ArmUnchecked, Configured
<1>3. CASE Reset
  BY <1>3 DEF Reset
<1>. QED
  BY <1>1, <1>2, <1>3 DEF ISR

\* A step of the console neither adds to the ring nor takes the event.
LEMMA RttStep ==
    ASSUME Inv, RttRun \/ RttGetChar
    PROVE  /\ UNCHANGED <<rx_event, auxvars>>
           /\ len' > 0 => len > 0
<1>. USE AuxAssumption, Sizes DEF Inv, TypeInv
<1>1. CASE RttGetChar
  BY <1>1 DEF RttGetChar, GetChar, TakeThen, Goto, Min, TypeOK
<1>2. CASE RttRun
  <2>1. CASE LastTake("rtt")
    BY <1>2, <2>1 DEF RttRun, LastTake, TakeThen, Goto, Min, TypeOK
  <2>2. CASE \/ CheckBusy("rtt") \/ CheckSpace("rtt") \/ Arm("rtt") \/ Mark("rtt")
             \/ Poll("rtt") \/ Wait("rtt") \/ Woken("rtt")
    BY <1>2, <2>2 DEF RttRun, CheckBusy, CheckSpace, Arm, Mark, Poll, Wait, Woken,
       LeaveWait, Goto, TypeOK
  <2>. QED
    BY <1>2, <2>1, <2>2 DEF RttRun, Run
<1>. QED
  BY <1>1, <1>2

LEMMA InvStep == Inv /\ [AuxNext]_allvars => Inv'
<1>. SUFFICES ASSUME Inv, [AuxNext]_allvars PROVE NoForgottenInput'
  BY AuxTypeStep DEF Inv
<1>. USE AuxAssumption DEF NoForgottenInput
<1>1. CASE USB
  BY <1>1, IsrStep DEF USB, Inv, auxvars
<1>2. CASE RttGetChar \/ RttRun
  BY <1>2, RttStep DEF Inv, auxvars
<1>3. CASE AuxWait
  BY <1>3 DEF AuxWait, vars, Inv
<1>4. CASE AuxEvent
  BY <1>4 DEF AuxEvent
<1>5. CASE AuxRtt \/ AuxEmpty \/ AuxGot \/ AuxSend \/ RttToggle
  <2>1. UNCHANGED <<len, rx_event>>
    BY <1>5 DEF AuxRtt, AuxEmpty, AuxGot, AuxSend, RttToggle, vars
  <2>2. (apc' \in {"top", "wait"} /\ len > 0) =>
           (apc \in {"top", "wait"} /\ skipped' = skipped) \/ skipped'
    BY <1>5 DEF AuxRtt, AuxEmpty, AuxGot, AuxSend, RttToggle
  <2>. QED
    BY <2>1, <2>2 DEF Inv
<1>6. CASE AuxGet
  BY <1>6 DEF AuxGet, Get, TakeThen, Goto, Inv, TypeInv, TypeOK
<1>7. CASE AuxGetting
  BY <1>7 DEF AuxGetting, auxvars
<1>8. CASE UNCHANGED allvars
  BY <1>8 DEF allvars, vars, auxvars, Inv
<1>. QED
  BY <1>1, <1>2, <1>3, <1>4, <1>5, <1>6, <1>7, <1>8 DEF AuxNext, Aux

\* Input is left in the ring without a wake-up pending only if the thread has
\* left it to the rtt console.
THEOREM NoInputForgotten == AuxSpec => []NoForgottenInput
<1>1. Inv => NoForgottenInput
  BY DEF Inv
<1>. QED
  BY <1>1, InvInit, InvStep, PTL DEF AuxSpec
=============================================================================
