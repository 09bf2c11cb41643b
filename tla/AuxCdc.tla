------------------------------- MODULE AuxCdc -------------------------------
(***************************************************************************)
(* Terminal input: src/applications/aux_cdc.c on top of the receive half   *)
(* of port cdc1 (CdcPort with Port = "cdc1").  The aux cdc thread waits    *)
(* for the receive event and, unless RTT is on, drains the port into the   *)
(* target's UART.  While RTT is on the port is read, one character at a    *)
(* time, by the rtt console, which runs in the gdb server thread.          *)
(***************************************************************************)
EXTENDS CdcPort

ASSUME AuxAssumption == Port = "cdc1" /\ Readers = {"aux", "rtt"}

VARIABLES
    apc,          \* where aux_cdc_thread is
    rtt_enabled,  \* the global of the rtt console
    skipped       \* history: the last event was answered by "rtt is running"

auxvars == <<apc, rtt_enabled, skipped>>
allvars == <<vars, auxvars>>

AuxTypeOK ==
    /\ apc \in {"top", "wait", "rtt", "empty", "get", "getting", "send"}
    /\ rtt_enabled \in BOOLEAN
    /\ skipped \in BOOLEAN

AuxInit ==
    /\ Init
    /\ apc = "top"
    /\ rtt_enabled = FALSE
    /\ skipped = FALSE

(***************************************************************************)
(* aux_cdc_thread.                                                         *)
(***************************************************************************)

\* rt_event_recv with RT_EVENT_FLAG_CLEAR
TakeEvent ==
    /\ rx_event' = FALSE
    /\ UNCHANGED <<ep, busy, len, wq, pc, after, got, waits, forced>>

\* cdc1_wait_for_char(): called, and returning with the event cleared.
\* Mutant: an event that came while the thread was busy is cleared before the wait.
AuxWaitFresh ==
    /\ apc = "top"
    /\ apc' = "wait"
    /\ rx_event' = FALSE
    /\ UNCHANGED <<ep, busy, len, wq, pc, after, got, waits, forced, rtt_enabled, skipped>>

AuxWait ==
    /\ apc = "top"
    /\ apc' = "wait"
    /\ UNCHANGED <<vars, rtt_enabled, skipped>>

AuxEvent ==
    /\ apc = "wait"
    /\ rx_event
    /\ TakeEvent
    /\ apc' = "rtt"
    /\ UNCHANGED <<rtt_enabled, skipped>>

\* if (!rtt_enabled)
AuxRtt ==
    /\ apc = "rtt"
    /\ apc' = IF rtt_enabled THEN "top" ELSE "empty"
    /\ skipped' = rtt_enabled
    /\ UNCHANGED <<vars, rtt_enabled>>

\* while (!cdc1_recv_empty())
AuxEmpty ==
    /\ apc = "empty"
    /\ apc' = IF len = 0 THEN "top" ELSE "get"
    /\ UNCHANGED <<vars, rtt_enabled, skipped>>

\* cdc1_get(rx_buffer, sizeof(rx_buffer)): the call, its steps and its return.
AuxGet ==
    /\ apc = "get"
    /\ Get("aux", GetMax)
    /\ apc' = "getting"
    /\ UNCHANGED <<rtt_enabled, skipped>>

AuxGetting ==
    /\ apc = "getting"
    /\ Run("aux")
    /\ UNCHANGED auxvars

AuxGot ==
    /\ apc = "getting"
    /\ pc["aux"] = "idle"
    /\ apc' = IF got["aux"] THEN "send" ELSE "empty"
    /\ UNCHANGED <<vars, rtt_enabled, skipped>>

\* aux_uart_send blocks until the UART has taken the bytes.
\* Mutant: the port is read once per event (if in place of while).
AuxSendOnce ==
    /\ apc = "send"
    /\ apc' = "top"
    /\ UNCHANGED <<vars, rtt_enabled, skipped>>

AuxSend ==
    /\ apc = "send"
    /\ apc' = "empty"
    /\ UNCHANGED <<vars, rtt_enabled, skipped>>

Aux == \/ AuxWait \/ AuxEvent \/ AuxRtt \/ AuxEmpty
       \/ AuxGet \/ AuxGetting \/ AuxGot \/ AuxSend

(***************************************************************************)
(* The gdb server thread: "monitor rtt enable / disable" and the polling   *)
(* of the console.                                                         *)
(***************************************************************************)

RttToggle ==
    /\ pc["rtt"] = "idle"
    /\ rtt_enabled' = ~rtt_enabled
    /\ UNCHANGED <<vars, apc, skipped>>

RttGetChar ==
    /\ rtt_enabled
    /\ GetChar("rtt")
    /\ UNCHANGED auxvars

RttRun == Run("rtt") /\ UNCHANGED auxvars

(***************************************************************************)
(* The specification.                                                      *)
(***************************************************************************)

USB == ISR /\ UNCHANGED auxvars

AuxNext == USB \/ Aux \/ RttToggle \/ RttGetChar \/ RttRun

\* Both threads run when they can and the UART drains; the rtt console need not
\* poll, and nothing is assumed of the host.
AuxSpec ==
    /\ AuxInit
    /\ [][AuxNext]_allvars
    /\ WF_allvars(Aux)
    /\ WF_allvars(RttRun)

(***************************************************************************)
(* Properties.                                                             *)
(***************************************************************************)

\* No input is forgotten: if the thread is about to wait, or waiting, with no
\* event pending although the ring holds data, then it left the data to the
\* rtt console.
NoForgottenInput ==
    (apc \in {"top", "wait"} /\ len > 0 /\ ~rx_event) => skipped

\* A port that had to stop the host is opened again, by the drain loop, unless
\* the thread left the data to the rtt console or a late store killed the port
\* (see CdcPort).
FlowResumes == ep = "idle" ~> (ep # "idle" \/ Dead \/ skipped)
=============================================================================
