------------------------------ MODULE AuxUart ------------------------------
(***************************************************************************)
(* Terminal output: src/applications/aux_uart.c, from the target's UART to *)
(* cdc1_write.  The UART interrupt announces the number of bytes in the    *)
(* driver's receive FIFO through a message queue; the aux uart thread      *)
(* reads as many bytes as the message says and writes them to port cdc1.   *)
(* The USB interrupt reopens the UART when the host sets the line speed,   *)
(* also while aux_uart_init has not run yet (USB starts first).            *)
(***************************************************************************)
EXTENDS Integers, Sequences

CONSTANTS
    FifoSize,  \* receive FIFO of the serial driver
    QueueLen,  \* messages that fit in MSG_POOL_SIZE bytes
    Speeds     \* the line codings the host uses

ASSUME UartAssumption ==
    /\ FifoSize \in Nat \ {0}
    /\ QueueLen \in Nat \ {0}
    /\ "default" \notin Speeds

VARIABLES
    upc,         \* where aux_uart_init, then aux_uart_thread, is
    rx_mq,       \* the sizes announced in the message queue
    size,        \* msg.size of the thread
    fifo,        \* bytes in the receive FIFO
    refs,        \* open count of the serial device
    indicate,    \* uart_input is the device's receive callback
    speed,       \* line speed of the UART
    cdc_line,    \* cdc_line[1], the last coding; "default" at first
    refused,     \* history: the driver refused the last coding
    unannounced  \* history: bytes came in after the last message that was queued

line == <<speed, cdc_line, refused>>

vars == <<upc, rx_mq, size, fifo, refs, indicate, line, unannounced>>

\* Mutant of Least: the FIFO has no end.
LeastUncut(a, b) == a

Least(a, b) == IF a <= b THEN a ELSE b

TypeOK ==
    /\ upc \in {"mq", "open", "indicate", "start", "recv", "read", "write"}
    /\ rx_mq \in Seq(1 .. FifoSize)
    /\ Len(rx_mq) <= QueueLen
    /\ size \in 0 .. FifoSize
    /\ fifo \in 0 .. FifoSize
    /\ refs \in 0 .. 2
    /\ indicate \in BOOLEAN
    /\ {speed, cdc_line} \subseteq Speeds \cup {"default"}
    /\ {refused, unannounced} \subseteq BOOLEAN

Init ==
    /\ upc = "mq"
    /\ rx_mq = <<>>
    /\ size = 0
    /\ fifo = 0
    /\ refs = 0
    /\ indicate = FALSE
    /\ speed = "default" /\ cdc_line = "default" /\ refused = FALSE
    /\ unannounced = FALSE

(***************************************************************************)
(* aux_uart_init.                                                          *)
(***************************************************************************)

\* rt_mq_init
InitQueue ==
    /\ upc = "mq"
    /\ upc' = "open"
    /\ rx_mq' = <<>>
    /\ UNCHANGED <<line, size, fifo, refs, indicate, unannounced>>

\* rt_device_open: only counts if the USB interrupt has opened the device.
InitOpen ==
    /\ upc = "open"
    /\ upc' = "indicate"
    /\ refs' = refs + 1
    /\ UNCHANGED <<line, rx_mq, size, fifo, indicate, unannounced>>

\* rt_device_set_rx_indicate
InitIndicate ==
    /\ upc = "indicate"
    /\ upc' = "start"
    /\ indicate' = TRUE
    /\ UNCHANGED <<line, rx_mq, size, fifo, refs, unannounced>>

\* rt_thread_startup
InitThread ==
    /\ upc = "start"
    /\ upc' = "recv"
    /\ UNCHANGED <<line, rx_mq, size, fifo, refs, indicate, unannounced>>

(***************************************************************************)
(* aux_uart_thread.                                                        *)
(***************************************************************************)

\* rt_mq_recv, forever
Recv ==
    /\ upc = "recv"
    /\ rx_mq # <<>>
    /\ size' = Head(rx_mq)
    /\ rx_mq' = Tail(rx_mq)
    /\ upc' = "read"
    /\ UNCHANGED <<line, fifo, refs, indicate, unannounced>>

\* rt_device_read(msg.dev, 0, rx_buffer, msg.size); an empty read is not
\* written.
Read ==
    /\ upc = "read"
    /\ fifo' = fifo - Least(size, fifo)
    /\ size' = 0
    /\ upc' = IF fifo > 0 THEN "write" ELSE "recv"
    /\ UNCHANGED <<line, rx_mq, refs, indicate, unannounced>>

\* cdc1_write (see CdcWrite) returns.
Write ==
    /\ upc = "write"
    /\ upc' = "recv"
    /\ UNCHANGED <<line, rx_mq, size, fifo, refs, indicate, unannounced>>

(***************************************************************************)
(* The interrupts.                                                         *)
(***************************************************************************)

\* Mutant of Receive: only the new bytes are announced.
ReceiveNew(n) ==
    /\ refs > 0
    /\ fifo' = Least(fifo + n, FifoSize)
    /\ IF indicate /\ upc # "mq" /\ Len(rx_mq) < QueueLen
         THEN rx_mq' = Append(rx_mq, n) /\ unannounced' = FALSE
         ELSE unannounced' = TRUE /\ UNCHANGED rx_mq
    /\ UNCHANGED <<line, upc, size, refs, indicate>>

\* The UART interrupt puts n bytes in the FIFO and calls uart_input with the
\* total.  rt_mq_send fails if the queue is full, or not there yet; the error
\* is only logged.
Receive(n) ==
    /\ refs > 0
    /\ fifo' = Least(fifo + n, FifoSize)
    /\ IF indicate /\ upc # "mq" /\ Len(rx_mq) < QueueLen
         THEN rx_mq' = Append(rx_mq, fifo') /\ unannounced' = FALSE
         ELSE unannounced' = TRUE /\ UNCHANGED rx_mq
    /\ UNCHANGED <<line, upc, size, refs, indicate>>

\* Mutant of SetSpeed: the device is not opened again.
SetSpeedNoOpen(s, outcome) ==
    LET left == IF refs > 0 THEN refs - 1 ELSE 0
    IN  /\ refs' = left
        /\ speed' = IF outcome = "no_config" THEN speed ELSE s
        /\ indicate' = (indicate \/ outcome = "done")
        /\ refused' = (outcome # "done")
        /\ IF left = 0
             THEN fifo' = 0 /\ unannounced' = FALSE
             ELSE UNCHANGED <<fifo, unannounced>>

\* cdc1_set_speed, in the USB interrupt: close, configure, open, set the
\* callback; it returns early if the driver refuses to configure or to open the
\* device.  The FIFO goes away with the last close; the messages stay in the
\* queue.
SetSpeed(s, outcome) ==
    LET left == IF refs > 0 THEN refs - 1 ELSE 0
    IN  /\ refs' = IF outcome = "done" THEN left + 1 ELSE left
        /\ speed' = IF outcome = "no_config" THEN speed ELSE s
        /\ indicate' = (indicate \/ outcome = "done")
        /\ refused' = (outcome # "done")
        /\ IF left = 0
             THEN fifo' = 0 /\ unannounced' = FALSE
             ELSE UNCHANGED <<fifo, unannounced>>

\* usbd_cdc_acm_set_line_coding: only a coding that differs from the last one is
\* passed on, and it is remembered before it is known to work.
SetLineCoding(s, outcome) ==
    /\ s # cdc_line
    /\ cdc_line' = s
    /\ SetSpeed(s, outcome)
    /\ UNCHANGED <<upc, rx_mq, size>>

(***************************************************************************)
(* The specification.                                                      *)
(***************************************************************************)

Thread == InitQueue \/ InitOpen \/ InitIndicate \/ InitThread \/ Recv \/ Read \/ Write

Next ==
    \/ Thread
    \/ \E n \in 1 .. FifoSize : Receive(n)
    \/ \E s \in Speeds, outcome \in {"done", "no_config", "no_open"} :
          SetLineCoding(s, outcome)

Spec == Init /\ [][Next]_vars

(***************************************************************************)
(* Properties.                                                             *)
(***************************************************************************)

\* Once there is nothing left to do for the thread, the FIFO is empty: every
\* byte of the target has been passed on, although the sizes in the messages
\* are out of date when they are used, whatever the USB interrupt has done to
\* the device meanwhile.  The exception: the message for the last bytes could
\* not be queued.
NothingStranded ==
    (upc = "recv" /\ rx_mq = <<>> /\ ~unannounced) => fifo = 0

\* When the host has set a line coding and the driver did not refuse it, the UART
\* is open, at that speed, with uart_input as its callback: also when the coding
\* came before or during aux_uart_init, and when the same one came again, which
\* is not passed on.
SettingTakesEffect ==
    (cdc_line # "default" /\ ~refused) => refs > 0 /\ indicate /\ speed = cdc_line
=============================================================================
