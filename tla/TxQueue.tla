------------------------------ MODULE TxQueue ------------------------------
(***************************************************************************)
(* What cdc0_write and cdc1_write of src/applications/usb_cdc.c promise to *)
(* their callers, without the semaphores and the endpoints: the writes of  *)
(* all threads, to both ports, are served one at a time and in the order   *)
(* in which they queued up, and a write leaves the queue only after it has *)
(* been sent.  Nothing is promised about a write being sent: the host may  *)
(* stop reading.                                                           *)
(***************************************************************************)
EXTENDS Sequences

CONSTANT Writers   \* the threads that write to the CDC ports

VARIABLES
    queue,   \* the writers that have queued up, the one being served first
    stage    \* of the first one: "none" (not begun), "sending" or "sent"

txvars == <<queue, stage>>

Init == queue = <<>> /\ stage = "none"

\* A writer queues up (it is not in the queue already: its thread is in the
\* call).
Enter(w) ==
    /\ \A i \in DOMAIN queue : queue[i] # w
    /\ queue' = Append(queue, w)
    /\ UNCHANGED stage

Begin ==
    /\ queue # <<>>
    /\ stage = "none"
    /\ stage' = "sending"
    /\ UNCHANGED queue

Finish ==
    /\ stage = "sending"
    /\ stage' = "sent"
    /\ UNCHANGED queue

Leave ==
    /\ stage = "sent"
    /\ stage' = "none"
    /\ queue' = Tail(queue)

Next == (\E w \in Writers : Enter(w)) \/ Begin \/ Finish \/ Leave

Spec == Init /\ [][Next]_txvars
=============================================================================
