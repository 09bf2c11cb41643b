------------------------------ MODULE CdcPort ------------------------------
(***************************************************************************)
(* The receive half of one CDC port of src/applications/usb_cdc.c: the     *)
(* path from the bulk OUT endpoint through the ring buffer to a reading    *)
(* thread.  Port = "cdc0" is the gdb server's port (wait queue and         *)
(* cdc0_getchar_timeout), Port = "cdc1" is the terminal's port, whose reader *)
(* waits for rx_event in cdc1_wait_for_char: see AuxCdc.                   *)
(*                                                                         *)
(* Two kinds of actor.  The USB interrupt (bulk OUT completion, DTR,       *)
(* reset, configured) runs to completion, so each handler is one action.   *)
(* A reading thread can be interrupted between any two accesses to the     *)
(* variables it shares with the interrupt, so its functions are cut into   *)
(* one action per access.  The ring buffer is represented by its length.   *)
(***************************************************************************)
EXTENDS Integers

CONSTANTS
    Port,      \* which of the two ports: "cdc0" or "cdc1"
    Readers,   \* the threads that call this port's read functions
    MPS,       \* CDC_MAX_MPS, the largest packet of the bulk endpoints
    GetMax,    \* largest length passed to cdc0_get / cdc1_get
    MaxWaits   \* rounds of the wait loop of cdc0_getchar_timeout

\* cdc0 is read by the gdb server thread only; cdc1 by the aux cdc thread and,
\* when RTT is on, by the gdb server thread.
ASSUME PortAssumption ==
    /\ Port \in {"cdc0", "cdc1"}
    /\ Port = "cdc0" => \A r, q \in Readers : r = q
    /\ MPS \in Nat \ {0}
    /\ GetMax \in Nat \ {0}
    /\ MaxWaits \in Nat

RingSize == 2 * MPS

VARIABLES
    ep,        \* OUT endpoint: "closed", "idle" (NAKs the host) or "armed"
    busy,      \* cdcN_read_busy
    len,       \* bytes in the ring buffer
    rx_event,  \* bit EVENT_CDCN_RX of cdc_event
    wq,        \* cdc0_wqueue.flag is RT_WQ_FLAG_WAKEUP
    pc,        \* pc[r]: where reader r is
    after,     \* after[r]: where r goes when the re-arm code is done
    got,       \* got[r]: r's last access to the ring returned data
    waits,     \* waits[r]: rounds of the wait loop done so far
    forced     \* history: the read that is pending, or that a reader is about to
               \* start, was not preceded by a test of the ring that still holds

vars == <<ep, busy, len, rx_event, wq, pc, after, got, waits, forced>>

\* Mutant of Min: the ring does not truncate.
MinUncut(a, b) == a

Min(a, b) == IF a <= b THEN a ELSE b

Space == RingSize - len

TypeOK ==
    /\ ep \in {"closed", "idle", "armed"}
    /\ busy \in BOOLEAN
    /\ len \in 0 .. RingSize
    /\ rx_event \in BOOLEAN
    /\ wq \in BOOLEAN
    /\ pc \in [Readers -> {"idle", "busy", "space", "arm", "mark", "poll",
                           "wait", "sleep", "woken", "last"}]
    /\ after \in [Readers -> {"idle", "poll"}]
    /\ got \in [Readers -> BOOLEAN]
    /\ waits \in [Readers -> 0 .. MaxWaits]
    /\ forced \in BOOLEAN

Init ==
    /\ ep = "closed"
    /\ busy = FALSE
    /\ len = 0
    /\ rx_event = FALSE
    /\ wq = FALSE
    /\ pc = [r \in Readers |-> "idle"]
    /\ after = [r \in Readers |-> "idle"]
    /\ got = [r \in Readers |-> FALSE]
    /\ waits = [r \in Readers |-> 0]
    /\ forced = FALSE

\* The endpoint after usbd_ep_start_read: a closed endpoint refuses, and the
\* code ignores the error.
StartRead == IF ep = "closed" THEN "closed" ELSE "armed"

\* Some reader has found the port free but has not armed it yet.
Deciding == \E r \in Readers : pc[r] \in {"space", "arm"}

\* A reader other than r is between its test of the flag and its store to it.
OtherRearming(r) ==
    \E q \in Readers \ {r} : pc[q] \in {"space", "arm", "mark"}

(***************************************************************************)
(* The USB interrupt.                                                      *)
(***************************************************************************)

\* cdcN_next_read as the interrupt calls it: nothing can come between the two
\* statements.
NextReadFromISR == ep' = StartRead /\ busy' = TRUE

\* The other branch: the port is free.
\* Mutant: the flag is not cleared.
StaysBusy == ep' = "idle" /\ UNCHANGED busy

NotBusy == ep' = "idle" /\ busy' = FALSE

\* rt_wqueue_wakeup_all: sets the flag and makes the sleepers ready.
\* Mutant: it only sets the flag.
OnlySetFlag == wq' = TRUE /\ UNCHANGED pc

WakeUp == /\ wq' = TRUE
          /\ pc' = [r \in Readers |-> IF pc[r] = "sleep" THEN "woken" ELSE pc[r]]

\* usbd_cdcN_acm_bulk_out: a packet of n bytes has arrived in the read buffer.
BulkOut(n) ==
    /\ ep = "armed"
    /\ len' = len + Min(n, Space)
    /\ rx_event' = (rx_event \/ n > 0)
    /\ IF Port = "cdc0" /\ n > 0
         THEN WakeUp
         ELSE UNCHANGED <<wq, pc>>
    /\ IF RingSize - len' >= MPS
         THEN NextReadFromISR
         ELSE NotBusy
    /\ forced' = (forced /\ Deciding)
    /\ UNCHANGED <<after, got, waits>>

\* cdcN_next_read called without looking at the ring: by
\* usbd_cdc_acm_set_dtr, whatever the new value of DTR, and by cdc_configured.
\* The flags cdc_is_configured and cdcN_dtr only concern writers; they are in
\* CdcWrite.
ArmUnchecked ==
    /\ NextReadFromISR
    /\ forced' = (forced \/ (ep' = "armed" /\ (Space < MPS \/ Deciding)))
    /\ UNCHANGED <<len, rx_event, wq, pc, after, got, waits>>

SetDtr == ArmUnchecked

\* The stack opens the endpoints, then calls cdc_configured.
Configured ==
    /\ ep' = "armed"
    /\ busy' = TRUE
    /\ forced' = (forced \/ Space < MPS \/ Deciding)
    /\ UNCHANGED <<len, rx_event, wq, pc, after, got, waits>>

\* The stack closes the endpoints on a bus reset, then calls cdc_reset.
Reset ==
    /\ ep' = "closed"
    /\ busy' = FALSE
    /\ len' = 0
    /\ forced' = FALSE
    /\ UNCHANGED <<rx_event, wq, pc, after, got, waits>>

(***************************************************************************)
(* A reading thread.                                                       *)
(***************************************************************************)

Goto(r, l) == pc' = [pc EXCEPT ![r] = l]

\* rt_ringbuffer_get / rt_ringbuffer_getchar of at most n bytes; the re-arm
\* code that follows it goes to dest if the ring was empty, else returns.
TakeThen(r, n, dest) ==
    /\ len' = len - Min(n, len)
    /\ got' = [got EXCEPT ![r] = len > 0]
    /\ after' = [after EXCEPT ![r] = IF len > 0 THEN "idle" ELSE dest]
    /\ Goto(r, "busy")
    /\ UNCHANGED <<ep, busy, rx_event, wq, forced>>

\* cdcN_get(buf, n)
Get(r, n) ==
    /\ pc[r] = "idle"
    /\ TakeThen(r, n, "idle")
    /\ UNCHANGED waits

\* cdcN_getchar
GetChar(r) ==
    /\ pc[r] = "idle"
    /\ TakeThen(r, 1, "idle")
    /\ UNCHANGED waits

\* cdc0_getchar_timeout, the first attempt
GetCharTimeout(r) ==
    /\ Port = "cdc0"
    /\ pc[r] = "idle"
    /\ TakeThen(r, 1, "poll")
    /\ waits' = [waits EXCEPT ![r] = 0]

\* !cdcN_read_busy
CheckBusy(r) ==
    /\ pc[r] = "busy"
    /\ Goto(r, IF busy THEN after[r] ELSE "space")
    /\ forced' = (forced \/ (~busy /\ OtherRearming(r)))
    /\ UNCHANGED <<ep, busy, len, rx_event, wq, after, got, waits>>

\* rt_ringbuffer_space_len(...) >= CDC_MAX_MPS
\* Mutant: any space will do.
CheckSomeSpace(r) ==
    /\ pc[r] = "space"
    /\ Goto(r, IF Space > 0 THEN "arm" ELSE after[r])
    /\ UNCHANGED <<ep, busy, len, rx_event, wq, after, got, waits, forced>>

CheckSpace(r) ==
    /\ pc[r] = "space"
    /\ Goto(r, IF Space >= MPS THEN "arm" ELSE after[r])
    /\ UNCHANGED <<ep, busy, len, rx_event, wq, after, got, waits, forced>>

\* cdcN_next_read in a thread, first statement: usbd_ep_start_read
Arm(r) ==
    /\ pc[r] = "arm"
    /\ ep' = StartRead
    /\ Goto(r, "mark")
    /\ UNCHANGED <<busy, len, rx_event, wq, after, got, waits, forced>>

\* cdcN_next_read in a thread, second statement: cdcN_read_busy = true
Mark(r) ==
    /\ pc[r] = "mark"
    /\ busy' = TRUE
    /\ Goto(r, after[r])
    /\ UNCHANGED <<ep, len, rx_event, wq, after, got, waits, forced>>

\* The condition of cdc0_getchar_timeout's for loop.
Poll(r) ==
    /\ pc[r] = "poll"
    /\ Goto(r, IF waits[r] < MaxWaits /\ len = 0 THEN "wait" ELSE "last")
    /\ UNCHANGED <<ep, busy, len, rx_event, wq, after, got, waits, forced>>

\* rt_wqueue_wait, the way out: the flag is cleared; then t += 100.
LeaveWait(r) ==
    /\ wq' = FALSE
    /\ waits' = [waits EXCEPT ![r] = @ + 1]
    /\ Goto(r, "poll")
    /\ UNCHANGED <<ep, busy, len, rx_event, after, got, forced>>

\* rt_wqueue_wait, the way in: leaves at once if a wake-up is pending, else
\* suspends the thread; one critical section either way.
\* Mutant: a pending wake-up is not looked at.
WaitAnyway(r) ==
    /\ pc[r] = "wait"
    /\ Goto(r, "sleep")
    /\ UNCHANGED <<ep, busy, len, rx_event, wq, after, got, waits, forced>>

Wait(r) ==
    /\ pc[r] = "wait"
    /\ IF wq THEN LeaveWait(r)
             ELSE /\ Goto(r, "sleep")
                  /\ UNCHANGED <<ep, busy, len, rx_event, wq, after, got, waits,
                                 forced>>

\* The 100 ms timer of rt_wqueue_wait.
Tick(r) ==
    /\ pc[r] = "sleep"
    /\ Goto(r, "woken")
    /\ UNCHANGED <<ep, busy, len, rx_event, wq, after, got, waits, forced>>

\* The thread runs again after a wake-up or a timeout.
Woken(r) ==
    /\ pc[r] = "woken"
    /\ LeaveWait(r)

\* cdc0_getchar_timeout, the second attempt
LastTake(r) ==
    /\ pc[r] = "last"
    /\ TakeThen(r, 1, "idle")
    /\ UNCHANGED waits

(***************************************************************************)
(* The specification.                                                      *)
(***************************************************************************)

ISR == (\E n \in 0 .. MPS : BulkOut(n)) \/ SetDtr \/ Configured \/ Reset

Call(r) ==
    \/ \E n \in 1 .. GetMax : Get(r, n)
    \/ GetChar(r)
    \/ GetCharTimeout(r)

\* The steps of a call that has begun and is not suspended.
Run(r) ==
    \/ CheckBusy(r) \/ CheckSpace(r) \/ Arm(r) \/ Mark(r)
    \/ Poll(r) \/ Wait(r) \/ Woken(r) \/ LastTake(r)

Next == ISR \/ \E r \in Readers : Call(r) \/ Run(r) \/ Tick(r)

\* The scheduler runs a thread that is ready; nothing is assumed of the host,
\* of the callers, or of the timer.
Fairness == \A r \in Readers : WF_vars(Run(r))

Spec == Init /\ [][Next]_vars /\ Fairness

(***************************************************************************)
(* Properties.                                                             *)
(***************************************************************************)

\* The flow control of the port: whenever the endpoint may receive a packet,
\* the ring has room for a whole one, so no byte of the host is dropped.  The
\* exception is a read that was started without the test of the ring, by a DTR
\* change or a repeated configuration, or after a test that two readers made at the
\* same time.  It ends with the packet that completes this read: the interrupt looks
\* at the ring again, so one truncated packet is the most that it costs, unless a
\* second reader is still on its way to start a read of its own.
RoomWhenArmed == (ep = "armed" /\ ~forced) => Space >= MPS

\* A port that looks busy while no transfer is pending is dead: no reader will
\* arm it again.  The only step that can bring the port into this state is the
\* store at the end of cdcN_next_read in a thread, coming after the interrupt
\* has already received the packet.
Dead == busy /\ ep = "idle"
StallOnlyByLateStore ==
    [][(~Dead /\ Dead') => \E r \in Readers : pc[r] = "mark" /\ pc'[r] # "mark"]_vars

\* cdc0_getchar_timeout: no reader is suspended on the wait queue while there
\* is a character in the ring, whatever the stale state of the queue's flag
\* and wherever between the test of the ring and the suspension it arrives.
NoSleepOnData == \A r \in Readers : pc[r] = "sleep" => len = 0

\* A reader in the wait loop gets the character that arrives, without the help
\* of the timer, unless a bus reset empties the ring.
CharDelivered ==
    \A r \in Readers :
        (pc[r] \in {"wait", "sleep", "woken"} /\ len > 0)
            ~> (len = 0 \/ (pc[r] = "busy" /\ got[r]))

\* What usb_cdc.c:284 says of the code below it ("schedule next usb read"):
\* when no call is in progress, an open port with room for a packet has a read
\* scheduled (here: even if the flow control was never upset).
NextReadScheduled ==
    (/\ \A r \in Readers : pc[r] = "idle"
     /\ ep # "closed"
     /\ Space >= MPS
     /\ ~forced)
        => ep = "armed"
=============================================================================
