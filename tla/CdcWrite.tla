------------------------------ MODULE CdcWrite ------------------------------
(***************************************************************************)
(* The transmit half of src/applications/usb_cdc.c: cdc0_write and         *)
(* cdc1_write, called by threads, share two semaphores.  ep_write_sem lets *)
(* one writer at a time use the IN endpoints of BOTH ports, and            *)
(* cdc_tx_busy_sem is released by the bulk IN completion of either port.   *)
(*                                                                         *)
(* A writer is cut at every call that may block or that the USB interrupt  *)
(* may come before; the interrupt handlers are one action each.            *)
(***************************************************************************)
EXTENDS Integers, Sequences

CONSTANTS
    Ports,     \* the CDC ports
    Writers,   \* the threads that write
    MayWrite,  \* MayWrite[w]: the ports thread w writes to
    MPS,       \* CDC_MAX_MPS
    MaxLen     \* bound: the longest write

ASSUME WriteAssumption ==
    /\ Ports # {}
    /\ Writers # {}
    /\ MayWrite \in [Writers -> SUBSET Ports]
    /\ MPS \in Nat \ {0}
    /\ MaxLen \in Nat

Lengths == 0 .. MaxLen

VARIABLES
    configured,    \* cdc_is_configured
    dtr,           \* dtr[p]: cdcN_dtr
    ep_write_sem,  \* value of ep_write_sem, created with 1
    waiters,       \* the threads suspended on ep_write_sem, first come first
    cdc_tx_busy,   \* value of cdc_tx_busy_sem, created with 0
    pc,            \* pc[w]: where writer w is
    port,          \* port[w]: the port w is writing to
    nbytes,        \* nbytes[w]: the length of w's write
    inEp,          \* inEp[p]: IN endpoint "closed", "idle", sending "data" or a "zlp"
    source,        \* source[p]: the writer whose buffer the endpoint sends
    ended,         \* history: the host has got the end of w's message
    cut            \* history: some write met a closed endpoint or a bus reset

vars == <<configured, dtr, ep_write_sem, waiters, cdc_tx_busy, pc, port, nbytes,
          inEp, source, ended, cut>>

thread == <<pc, port, nbytes>>
sems == <<ep_write_sem, waiters, cdc_tx_busy>>
usb == <<inEp, source, ended, cut>>
flags == <<configured, dtr>>

TypeOK ==
    /\ configured \in BOOLEAN
    /\ dtr \in [Ports -> BOOLEAN]
    /\ ep_write_sem \in Nat
    /\ waiters \in Seq(Writers)
    /\ cdc_tx_busy \in Nat
    /\ pc \in [Writers -> {"idle", "take", "blocked", "start", "wait", "release"}]
    /\ port \in [Writers -> Ports]
    /\ nbytes \in [Writers -> Lengths]
    /\ inEp \in [Ports -> {"closed", "idle", "data", "zlp"}]
    /\ source \in [Ports -> Writers]
    /\ ended \in [Writers -> BOOLEAN]
    /\ cut \in BOOLEAN

Init ==
    /\ configured = FALSE
    /\ dtr = [p \in Ports |-> FALSE]
    /\ ep_write_sem = 1
    /\ waiters = <<>>
    /\ cdc_tx_busy = 0
    /\ pc = [w \in Writers |-> "idle"]
    /\ port = [w \in Writers |-> CHOOSE p \in Ports : TRUE]
    /\ nbytes = [w \in Writers |-> 0]
    /\ inEp = [p \in Ports |-> "closed"]
    /\ source = [p \in Ports |-> CHOOSE w \in Writers : TRUE]
    /\ ended = [w \in Writers |-> FALSE]
    /\ cut = FALSE

(***************************************************************************)
(* cdcN_write.                                                             *)
(***************************************************************************)

\* cdcN_connected
Connected(p) == configured /\ dtr[p]

\* The call; a port that is not connected discards the data and returns.
Call(w, p, n) ==
    /\ pc[w] = "idle"
    /\ p \in MayWrite[w]
    /\ Connected(p)
    /\ pc' = [pc EXCEPT ![w] = "take"]
    /\ port' = [port EXCEPT ![w] = p]
    /\ nbytes' = [nbytes EXCEPT ![w] = n]
    /\ UNCHANGED <<flags, sems, usb>>

\* rt_sem_take(ep_write_sem): take it or join the queue.
\* Mutant: the last to come is the first in the queue.
TakeEpLifo(w) ==
    /\ pc[w] = "take"
    /\ IF ep_write_sem > 0
         THEN /\ ep_write_sem' = ep_write_sem - 1
              /\ pc' = [pc EXCEPT ![w] = "start"]
              /\ UNCHANGED waiters
         ELSE /\ waiters' = <<w>> \o waiters
              /\ pc' = [pc EXCEPT ![w] = "blocked"]
              /\ UNCHANGED ep_write_sem
    /\ UNCHANGED <<cdc_tx_busy, port, nbytes, flags, usb>>

TakeEp(w) ==
    /\ pc[w] = "take"
    /\ IF ep_write_sem > 0
         THEN /\ ep_write_sem' = ep_write_sem - 1
              /\ pc' = [pc EXCEPT ![w] = "start"]
              /\ UNCHANGED waiters
         ELSE /\ waiters' = Append(waiters, w)
              /\ pc' = [pc EXCEPT ![w] = "blocked"]
              /\ UNCHANGED ep_write_sem
    /\ UNCHANGED <<cdc_tx_busy, port, nbytes, flags, usb>>

\* usbd_ep_start_write; the error of a closed endpoint is ignored.
StartWrite(w) ==
    /\ pc[w] = "start"
    /\ pc' = [pc EXCEPT ![w] = "wait"]
    /\ IF inEp[port[w]] = "closed"
         THEN cut' = TRUE /\ UNCHANGED <<inEp, source>>
         ELSE /\ inEp' = [inEp EXCEPT ![port[w]] = "data"]
              /\ source' = [source EXCEPT ![port[w]] = w]
              /\ UNCHANGED cut
    /\ ended' = [ended EXCEPT ![w] = FALSE]
    /\ UNCHANGED <<port, nbytes, sems, flags>>

\* rt_sem_take(cdc_tx_busy_sem)
\* Mutants: the thread does not wait for the semaphore, and counts it down all
\* the same, or leaves it if it is not there.
TakeTxNoWait(w) ==
    /\ pc[w] = "wait"
    /\ cdc_tx_busy' = cdc_tx_busy - 1
    /\ pc' = [pc EXCEPT ![w] = "release"]
    /\ UNCHANGED <<port, nbytes, ep_write_sem, waiters, usb, flags>>

TakeTxTry(w) ==
    /\ pc[w] = "wait"
    /\ cdc_tx_busy' = IF cdc_tx_busy > 0 THEN cdc_tx_busy - 1 ELSE 0
    /\ pc' = [pc EXCEPT ![w] = "release"]
    /\ UNCHANGED <<port, nbytes, ep_write_sem, waiters, usb, flags>>

TakeTx(w) ==
    /\ pc[w] = "wait"
    /\ cdc_tx_busy > 0
    /\ cdc_tx_busy' = cdc_tx_busy - 1
    /\ pc' = [pc EXCEPT ![w] = "release"]
    /\ UNCHANGED <<port, nbytes, ep_write_sem, waiters, usb, flags>>

\* rt_sem_release(ep_write_sem), which hands the semaphore to the first
\* waiter, and the return.
ReleaseEp(w) ==
    /\ pc[w] = "release"
    /\ IF waiters = <<>>
         THEN /\ ep_write_sem' = ep_write_sem + 1
              /\ pc' = [pc EXCEPT ![w] = "idle"]
              /\ UNCHANGED waiters
         ELSE /\ pc' = [pc EXCEPT ![w] = "idle", ![Head(waiters)] = "start"]
              /\ waiters' = Tail(waiters)
              /\ UNCHANGED ep_write_sem
    /\ UNCHANGED <<cdc_tx_busy, port, nbytes, flags, usb>>

(***************************************************************************)
(* The USB interrupt.                                                      *)
(***************************************************************************)

\* The length of the transfer that endpoint p is doing.
TransferLen(p) == IF inEp[p] = "zlp" THEN 0 ELSE nbytes[source[p]]

\* The transfer that endpoint p is doing ends with a short packet, which is
\* how the host knows that the message is complete.
EndsShort(p) == TransferLen(p) % MPS # 0 \/ TransferLen(p) = 0

\* (nbytes != 0) && (nbytes % CDC_MAX_MPS == 0)
\* Mutants: no zero-length packet; a zero-length packet also after another.
NeverZlp(p) == FALSE
ZlpAfterZlp(p) == TransferLen(p) % MPS = 0

NeedsZlp(p) == TransferLen(p) # 0 /\ TransferLen(p) % MPS = 0

\* usbd_cdcN_acm_bulk_in(nbytes): the host has taken the whole transfer.
BulkIn(p) ==
    /\ inEp[p] \in {"data", "zlp"}
    /\ ended' = [ended EXCEPT ![source[p]] = @ \/ EndsShort(p)]
    /\ IF NeedsZlp(p)
         THEN inEp' = [inEp EXCEPT ![p] = "zlp"] /\ UNCHANGED cdc_tx_busy
         ELSE /\ inEp' = [inEp EXCEPT ![p] = "idle"]
              /\ cdc_tx_busy' = cdc_tx_busy + 1
    /\ UNCHANGED <<thread, ep_write_sem, waiters, source, cut, flags>>

\* usbd_cdc_acm_set_dtr: the host opens (TRUE) or closes (FALSE) a port.
SetDtr(p, b) ==
    /\ dtr' = [dtr EXCEPT ![p] = b]
    /\ UNCHANGED <<configured, thread, sems, usb>>

\* The stack opens the endpoints that are closed and calls cdc_configured.
Configured ==
    /\ configured' = TRUE
    /\ inEp' = [p \in Ports |-> IF inEp[p] = "closed" THEN "idle" ELSE inEp[p]]
    /\ UNCHANGED <<dtr, thread, sems, source, ended, cut>>

\* The stack closes the endpoints and drops their transfers; cdc_reset leaves
\* the flags and the semaphores as they are.
Reset ==
    /\ inEp' = [p \in Ports |-> "closed"]
    /\ cut' = (cut \/ \E p \in Ports : inEp[p] \in {"data", "zlp"})
    /\ UNCHANGED <<flags, thread, sems, source, ended>>

(***************************************************************************)
(* The specification.                                                      *)
(***************************************************************************)

Write(w) == TakeEp(w) \/ StartWrite(w) \/ TakeTx(w) \/ ReleaseEp(w)

Next ==
    \/ \E w \in Writers :
          Write(w) \/ \E p \in Ports, n \in Lengths : Call(w, p, n)
    \/ \E p \in Ports : BulkIn(p) \/ \E b \in BOOLEAN : SetDtr(p, b)
    \/ Configured
    \/ Reset

\* Threads that can run do; the host reads a port while it holds it open.
Fairness ==
    /\ \A w \in Writers : WF_vars(Write(w))
    /\ \A p \in Ports : WF_vars(dtr[p] /\ BulkIn(p))

Spec == Init /\ [][Next]_vars /\ Fairness

(***************************************************************************)
(* Properties.                                                             *)
(***************************************************************************)

\* The writers between the two uses of ep_write_sem.
Holders == {w \in Writers : pc[w] \in {"start", "wait", "release"}}

Sending(p) == inEp[p] \in {"data", "zlp"}

\* A buffer handed to the USB stack stays untouched until the transfer is over:
\* the thread that owns it is still in cdcN_write, waiting, on that very port.
\* (cdcN_write takes the caller's buffer without copying it.)
BufferPinned ==
    \A p \in Ports : Sending(p) => /\ pc[source[p]] = "wait"
                                   /\ port[source[p]] = p

\* The two ports share one completion semaphore; a completion is never left
\* over for a later write: when it is there, its writer is waiting for it and
\* no endpoint is sending.
NoStaleCompletion ==
    cdc_tx_busy > 0 =>
        /\ cdc_tx_busy = 1
        /\ \A p \in Ports : ~Sending(p)
        /\ \E w \in Writers : pc[w] = "wait" /\ ended[w]

\* A write returns only after the host has got the end of the message, be it by
\* a short packet or by the zero-length packet after a full one.
ReturnsAfterSent == \A w \in Writers : pc[w] = "release" => ended[w]

\* Every write returns.  Only two things can hold a writer up: a port to which a
\* message is being sent and which the host has closed, which need not be the
\* writer's own, and a write, of any thread to any port, that has met a bus reset or
\* a closed endpoint.
WriteReturns ==
    \A w \in Writers :
        pc[w] # "idle" ~> \/ pc[w] = "idle"
                          \/ \E p \in Ports : Sending(p) /\ ~dtr[p]
                          \/ cut

\* What usb_cdc.c:196 and :222 say of the take that follows ("wait until usb
\* write finished"): the wait is for the end of a write, so it ends if the host
\* is there for good, with the device configured, the ports open and being read.
WriteFinishes ==
    (<>[](\A p \in Ports : dtr[p] /\ inEp[p] # "closed")) =>
        \A w \in Writers : pc[w] = "wait" ~> pc[w] # "wait"

\* The writers implement the queue: the first in it holds ep_write_sem, the
\* others are suspended on it, in the same order.
Served == IF Holders = {} THEN <<>> ELSE <<CHOOSE w \in Holders : TRUE>>

Stage ==
    IF \E w \in Writers : pc[w] = "release" \/ (pc[w] = "wait" /\ cdc_tx_busy > 0)
    THEN "sent"
    ELSE IF \E w \in Writers : pc[w] = "wait" THEN "sending" ELSE "none"

TxQ == INSTANCE TxQueue WITH queue <- Served \o waiters, stage <- Stage

\* cdc0_write and cdc1_write serve their callers one at a time, first come first
\* served, across both ports.
ServedInOrder == TxQ!Spec
=============================================================================
