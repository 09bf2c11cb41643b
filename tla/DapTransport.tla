---------------------------- MODULE DapTransport ----------------------------
(***************************************************************************)
(* The CMSIS-DAP pipe: src/applications/usb_dap.c with the dispatcher      *)
(* dap_process_request of free-dap/dap.c.  There is one request buffer and *)
(* one response buffer.  The bulk OUT completion processes the request and *)
(* starts to send the response; the bulk IN completion opens the OUT       *)
(* endpoint for the next request.  All of it runs in the USB interrupt, so *)
(* each callback is one action.                                            *)
(*                                                                         *)
(* The host may have several requests under way (the probe announces       *)
(* DAP_CONFIG_PACKET_COUNT buffers).  It reads an answer only when it      *)
(* waits for one, and it drops what it waits for when it resets or         *)
(* configures the device.                                                  *)
(***************************************************************************)
EXTENDS Integers, Sequences

CONSTANT MaxOutstanding  \* bound: requests the host has under way

ASSUME TransportAssumption == MaxOutstanding \in Nat \ {0}

\* What a request can be, as far as the dispatcher and dap_port can tell; the
\* default port is SWD, and "transfer" stands for all that leave dap_port alone.
Commands == {"connect_swd", "connect_jtag", "connect_other", "disconnect",
             "transfer", "abort", "unknown"}

\* Enough numbers to tell the requests under way apart.
Ids == 0 .. MaxOutstanding

Requests == [id : Ids, cmd : Commands]

PortModes == {"disabled", "swd", "jtag"}

VARIABLES
    outEp,         \* DAP_OUT_EP: "closed", "idle" (NAKs the host) or "armed"
    inEp,          \* DAP_IN_EP: "closed", "idle" or "busy"
    USB_Response,  \* the request that the response buffer answers, and the port
                   \* that the answer to a connect names
    dap_port,      \* the global of dap.c
    queued,        \* host: requests not yet taken by the probe
    waiting,       \* host: requests, answered or not, whose answer it has not read
    nextId,        \* host: number of the next request
    seenPort,      \* host: the port mode according to the answers it has read
    stale          \* history: since the last reset, the device was configured
                   \* while a response was being sent

vars == <<outEp, inEp, USB_Response, dap_port, queued, waiting, nextId,
          seenPort, stale>>

host == <<queued, waiting, nextId, seenPort>>

TypeOK ==
    /\ outEp \in {"closed", "idle", "armed"}
    /\ inEp \in {"closed", "idle", "busy"}
    /\ USB_Response \in [id : Ids, cmd : Commands, answer : PortModes]
    /\ dap_port \in PortModes
    /\ queued \in Seq(Requests)
    /\ waiting \in Seq(Requests)
    /\ nextId \in Ids
    /\ seenPort \in PortModes
    /\ stale \in BOOLEAN

Init ==
    /\ outEp = "closed"
    /\ inEp = "closed"
    /\ USB_Response = [id |-> 0, cmd |-> "unknown", answer |-> "disabled"]
    /\ dap_port = "disabled"
    /\ queued = <<>>
    /\ waiting = <<>>
    /\ nextId = 0
    /\ seenPort = "disabled"
    /\ stale = FALSE

(***************************************************************************)
(* dap_process_request.                                                    *)
(***************************************************************************)

\* Mutant of PortAfter: dap_connect stores any port it is given.
PortUnchecked(cmd) ==
    CASE cmd = "connect_swd" -> "swd"
      [] cmd = "connect_jtag" -> "jtag"
      [] cmd = "connect_other" -> "other"
      [] cmd = "disconnect" -> "disabled"
      [] OTHER -> dap_port

\* dap_connect and dap_disconnect; no other handler writes dap_port.
PortAfter(cmd) ==
    CASE cmd = "connect_swd" -> "swd"
      [] cmd = "connect_jtag" -> "jtag"
      [] cmd \in {"connect_other", "disconnect"} -> "disabled"
      [] OTHER -> dap_port

\* The response begins with the command, or ID_DAP_INVALID; dap_connect adds the
\* port.
ProcessRequest(r) ==
    /\ dap_port' = PortAfter(r.cmd)
    /\ USB_Response' = [id |-> r.id, cmd |-> r.cmd, answer |-> dap_port']

(***************************************************************************)
(* The callbacks.                                                          *)
(***************************************************************************)

\* Mutant of OutCallback: the endpoint is opened again at once.
OutCallbackRearms ==
    /\ outEp = "armed"
    /\ queued # <<>>
    /\ ProcessRequest(Head(queued))
    /\ queued' = Tail(queued)
    /\ inEp' = "busy"
    /\ UNCHANGED <<outEp, waiting, nextId, seenPort, stale>>

\* dap_out_callback: the next request is in USB_Request.  The endpoint is not
\* closed: the bus reset would have disarmed DAP_OUT_EP too.  A response that
\* is still being sent is replaced.
OutCallback ==
    /\ outEp = "armed"
    /\ queued # <<>>
    /\ ProcessRequest(Head(queued))
    /\ queued' = Tail(queued)
    /\ outEp' = "idle"
    /\ inEp' = "busy"
    /\ UNCHANGED <<waiting, nextId, seenPort, stale>>

\* The mode of the port for a host that thought it was p and reads response r: it
\* learns the mode from the answers to connect and disconnect.
Learn(r, p) ==
    CASE r.cmd \in {"connect_swd", "connect_jtag", "connect_other"} -> r.answer
      [] r.cmd = "disconnect" -> "disabled"
      [] OTHER -> p

\* Mutant of InCallback: the next request is not asked for.
InCallbackOnly ==
    /\ inEp = "busy"
    /\ waiting # <<>>
    /\ inEp' = "idle"
    /\ waiting' = Tail(waiting)
    /\ UNCHANGED <<outEp, USB_Response, dap_port, queued, nextId, seenPort,
                   stale>>

\* dap_in_callback: the host has read the response, as the answer to its oldest
\* request.
InCallback ==
    /\ inEp = "busy"
    /\ waiting # <<>>
    /\ inEp' = "idle"
    /\ outEp' = "armed"
    /\ waiting' = Tail(waiting)
    /\ seenPort' = Learn(USB_Response, seenPort)
    /\ UNCHANGED <<USB_Response, dap_port, queued, nextId, stale>>

\* Mutant of Configured: without dap_init.
ConfiguredNoInit ==
    /\ outEp' = "armed"
    /\ inEp' = IF inEp = "closed" THEN "idle" ELSE inEp
    /\ stale' = (stale \/ inEp = "busy")
    /\ queued' = <<>>
    /\ waiting' = <<>>
    /\ seenPort' = "disabled"
    /\ UNCHANGED <<USB_Response, dap_port, nextId>>

\* SET_CONFIGURATION: the stack opens the endpoints that are closed, then
\* dap_configured calls dap_init and starts to read.
Configured ==
    /\ outEp' = "armed"
    /\ inEp' = IF inEp = "closed" THEN "idle" ELSE inEp
    /\ dap_port' = "disabled"
    /\ stale' = (stale \/ inEp = "busy")
    /\ queued' = <<>>
    /\ waiting' = <<>>
    /\ seenPort' = "disabled"
    /\ UNCHANGED <<USB_Response, nextId>>

\* USBD_EVENT_RESET does nothing to the DAP; the stack closes the endpoints and
\* drops their transfers.
Reset ==
    /\ outEp' = "closed"
    /\ inEp' = "closed"
    /\ stale' = FALSE
    /\ queued' = <<>>
    /\ waiting' = <<>>
    /\ UNCHANGED <<USB_Response, dap_port, nextId, seenPort>>

(***************************************************************************)
(* The host.                                                               *)
(***************************************************************************)

\* The host puts a request on its way, once it has configured the device.
HostSend(cmd) ==
    /\ outEp # "closed"
    /\ Len(waiting) < MaxOutstanding
    /\ Len(queued) < MaxOutstanding
    /\ queued' = Append(queued, [id |-> nextId, cmd |-> cmd])
    /\ waiting' = Append(waiting, [id |-> nextId, cmd |-> cmd])
    /\ nextId' = (nextId + 1) % (MaxOutstanding + 1)
    /\ UNCHANGED <<outEp, inEp, USB_Response, dap_port, seenPort, stale>>

Next ==
    \/ OutCallback
    \/ InCallback
    \/ Configured
    \/ Reset
    \/ \E cmd \in Commands : HostSend(cmd)

\* The host sends what it has queued and reads the answers it waits for.
Spec == Init /\ [][Next]_vars /\ WF_vars(OutCallback) /\ WF_vars(InCallback)

(***************************************************************************)
(* Properties.                                                             *)
(***************************************************************************)

\* The response that is being sent answers the oldest request the host waits
\* for, and all younger ones are still with the host: the single response
\* buffer is never overwritten while in use, and requests that are sent ahead
\* are answered in order.  The exception: the device was configured again while
\* a response was being sent, which leaves that response in the endpoint.
AnswersInOrder ==
    ~stale =>
        IF inEp = "busy"
        THEN waiting = <<[id |-> USB_Response.id, cmd |-> USB_Response.cmd]>> \o queued
        ELSE waiting = queued

\* The pipe never stops: the probe is either ready for a request or sending an
\* answer, each of which leads to the other.
PipeAlive == outEp # "closed" => outEp = "armed" \/ inEp = "busy"

\* When nothing is under way the probe is in the mode that the host thinks it is
\* in, also when the device has been configured anew (dap_init) in between.
HostKnowsPort ==
    (outEp # "closed" /\ waiting = <<>> /\ queued = <<>> /\ ~stale)
        => dap_port = seenPort

\* Every request that is on its way gets an answer, or is dropped by a reset or
\* a configuration.
RequestAnswered ==
    \A i \in Ids :
        (\E k \in 1 .. Len(waiting) : waiting[k].id = i)
            ~> ~(\E k \in 1 .. Len(waiting) : waiting[k].id = i)

\* dap.c:1095-1096 says that DAP_TransferAbort "is handled outside of the normal
\* queue" and that its handler is never reached: no response comes from it.
AbortNotQueued == USB_Response.cmd # "abort"
=============================================================================
