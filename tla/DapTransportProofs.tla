------------------------- MODULE DapTransportProofs -------------------------
(***************************************************************************)
(* Proofs about DapTransport: for every number of requests under way, the  *)
(* answers come in order, the pipe never stops, and host and probe agree   *)
(* on the port mode.                                                       *)
(***************************************************************************)
EXTENDS DapTransport, SequenceTheorems, TLAPS

\* Both endpoints are open or none is.
BothOpen == outEp = "closed" <=> inEp = "closed"

\* A request is asked for only when no response is being sent.
OneBuffer == ~stale => ~(outEp = "armed" /\ inEp = "busy")

\* What the host will think when it has read the response on its way.
PortKnown ==
    (outEp # "closed" /\ ~stale) =>
        dap_port = IF inEp = "busy" THEN Learn(USB_Response, seenPort) ELSE seenPort

Inv ==
    /\ TypeOK
    /\ AnswersInOrder
    /\ PipeAlive
    /\ BothOpen
    /\ OneBuffer
    /\ PortKnown

\* A request sent joins both of the host's sequences, whatever comes first.
LEMMA AppendBoth ==
    ASSUME NEW S, NEW x \in S, NEW s \in Seq(S), NEW r \in S
    PROVE  Append(<<x>> \o s, r) = <<x>> \o Append(s, r)
<1>1. <<x>> \in Seq(S) /\ <<r>> \in Seq(S) /\ <<x>> \o s \in Seq(S)
  BY ConcatProperties
<1>2. Append(<<x>> \o s, r) = (<<x>> \o s) \o <<r>>
  BY <1>1, AppendIsConcat
<1>3. Append(s, r) = s \o <<r>>
  BY AppendIsConcat
<1> QED
  BY <1>1, <1>2, <1>3, ConcatAssociative

LEMMA Dispatch ==
    ASSUME NEW cmd \in Commands, dap_port \in PortModes
    PROVE  /\ PortAfter(cmd) \in PortModes
           /\ \A id \in Ids, p \in PortModes :
                 Learn([id |-> id, cmd |-> cmd, answer |-> PortAfter(cmd)], dap_port)
                    = PortAfter(cmd)
<1>1. cmd \in {"connect_swd", "connect_jtag", "connect_other"} \/ cmd = "disconnect"
         \/ cmd \in {"transfer", "abort", "unknown"}
  BY DEF Commands
<1> QED
  BY <1>1 DEF Commands, PortAfter, PortModes, Learn

LEMMA TailAfterHead ==
    ASSUME NEW S, NEW x \in S, NEW s \in Seq(S)
    PROVE  Tail(<<x>> \o s) = s
<1>1. <<x>> \in Seq(S) /\ Len(<<x>>) = 1
  OBVIOUS
<1>2. /\ <<x>> \o s \in Seq(S)
      /\ Len(<<x>> \o s) = 1 + Len(s)
      /\ \A k \in 1 .. 1 + Len(s) :
            (<<x>> \o s)[k] = IF k <= 1 THEN <<x>>[k] ELSE s[k - 1]
  BY <1>1, ConcatProperties
<1>3. <<x>> \o s # <<>>
  BY <1>2
<1>4. /\ Tail(<<x>> \o s) \in Seq(S)
      /\ Len(Tail(<<x>> \o s)) = Len(s)
      /\ \A k \in 1 .. Len(s) : Tail(<<x>> \o s)[k] = (<<x>> \o s)[k + 1]
  BY <1>2, <1>3, HeadTailProperties
<1>5. \A k \in 1 .. Len(s) : Tail(<<x>> \o s)[k] = s[k]
  BY <1>2, <1>4
<1> QED
  BY <1>4, <1>5, SeqEqual

LEMMA InitInv == Init => Inv
<1> SUFFICES ASSUME Init PROVE Inv
  OBVIOUS
<1>1. 0 \in Ids
  BY TransportAssumption DEF Ids
<1>2. USB_Response \in [id : Ids, cmd : Commands, answer : PortModes]
  BY <1>1 DEF Init, Commands, PortModes
<1>3. queued \in Seq(Requests) /\ waiting \in Seq(Requests)
  BY EmptySeq DEF Init
<1>4. TypeOK
  BY <1>1, <1>2, <1>3 DEF Init, TypeOK, PortModes
<1> QED
  BY <1>4 DEF Init, Inv, AnswersInOrder, PipeAlive, BothOpen, OneBuffer, PortKnown

LEMMA NextInv == Inv /\ [Next]_vars => Inv'
<1> SUFFICES ASSUME Inv, [Next]_vars PROVE Inv'
  OBVIOUS
<1> USE DEF Inv
<1>1. CASE OutCallback
  <2> DEFINE r == Head(queued)
  <2>1. /\ r \in Requests
        /\ Tail(queued) \in Seq(Requests)
        /\ queued = <<r>> \o Tail(queued)
    BY <1>1, HeadTailProperties DEF OutCallback, TypeOK
  <2>2. r.id \in Ids /\ r.cmd \in Commands /\ r = [id |-> r.id, cmd |-> r.cmd]
    BY <2>1 DEF Requests
  <2>3. /\ dap_port' = PortAfter(r.cmd)
        /\ USB_Response' = [id |-> r.id, cmd |-> r.cmd, answer |-> PortAfter(r.cmd)]
    BY <1>1 DEF OutCallback, ProcessRequest
  <2>4. dap_port' \in PortModes
    BY <2>2, <2>3, Dispatch DEF TypeOK
  <2>5. TypeOK'
    BY <1>1, <2>1, <2>2, <2>3, <2>4 DEF OutCallback, TypeOK
  <2>6. AnswersInOrder'
    <3>1. ~stale => waiting = queued
      BY <1>1 DEF OutCallback, AnswersInOrder, OneBuffer
    <3>2. USB_Response'.id = r.id /\ USB_Response'.cmd = r.cmd
      BY <2>3
    <3> QED
      BY <1>1, <2>1, <2>2, <3>1, <3>2 DEF OutCallback, AnswersInOrder
  <2>7. PortKnown'
    <3>1. Learn(USB_Response', seenPort) = dap_port' \/ stale
      <4> SUFFICES ASSUME ~stale PROVE Learn(USB_Response', seenPort) = dap_port'
        OBVIOUS
      <4>1. seenPort = dap_port
        BY <1>1 DEF OutCallback, PortKnown, OneBuffer
      <4> QED
        BY <2>2, <2>3, <4>1, Dispatch DEF TypeOK
    <3> QED
      BY <1>1, <3>1 DEF OutCallback, PortKnown
  <2> QED
    BY <1>1, <2>5, <2>6, <2>7 DEF OutCallback, PipeAlive, BothOpen, OneBuffer
<1>2. CASE InCallback
  <2>1. Tail(waiting) \in Seq(Requests)
    BY <1>2, HeadTailProperties DEF InCallback, TypeOK
  <2>2. seenPort' \in PortModes
    BY <1>2 DEF InCallback, Learn, TypeOK, PortModes
  <2>3. TypeOK'
    BY <1>2, <2>1, <2>2 DEF InCallback, TypeOK
  <2>4. AnswersInOrder'
    <3>1. ASSUME ~stale PROVE Tail(waiting) = queued
      <4> DEFINE x == [id |-> USB_Response.id, cmd |-> USB_Response.cmd]
      <4>1. waiting = <<x>> \o queued
        BY <1>2, <3>1 DEF InCallback, AnswersInOrder
      <4>2. x \in Requests /\ queued \in Seq(Requests)
        BY DEF TypeOK, Requests
      <4> QED
        BY <4>1, <4>2, TailAfterHead
    <3> QED
      BY <1>2, <3>1 DEF InCallback, AnswersInOrder
  <2>5. PortKnown'
    BY <1>2 DEF InCallback, PortKnown, BothOpen
  <2> QED
    BY <1>2, <2>3, <2>4, <2>5 DEF InCallback, PipeAlive, BothOpen, OneBuffer
<1>3. CASE Configured
  <2>1. TypeOK'
    BY <1>3, EmptySeq DEF Configured, TypeOK, PortModes
  <2> QED
    BY <1>3, <2>1 DEF Configured, TypeOK, AnswersInOrder, PipeAlive, BothOpen,
                      OneBuffer, PortKnown
<1>4. CASE Reset
  <2>1. TypeOK'
    BY <1>4, EmptySeq DEF Reset, TypeOK
  <2> QED
    BY <1>4, <2>1 DEF Reset, AnswersInOrder, PipeAlive, BothOpen, OneBuffer, PortKnown
<1>5. ASSUME NEW cmd \in Commands, HostSend(cmd) PROVE Inv'
  <2> DEFINE r == [id |-> nextId, cmd |-> cmd]
             x == [id |-> USB_Response.id, cmd |-> USB_Response.cmd]
  <2>1. r \in Requests /\ x \in Requests
    BY DEF TypeOK, Requests
  <2>2. nextId' \in Ids
    BY <1>5, TransportAssumption DEF HostSend, TypeOK, Ids
  <2>3. queued' \in Seq(Requests) /\ waiting' \in Seq(Requests)
    BY <1>5, <2>1, AppendProperties DEF HostSend, TypeOK
  <2>4. TypeOK'
    BY <1>5, <2>2, <2>3 DEF HostSend, TypeOK
  <2>5. AnswersInOrder'
    <3>1. queued \in Seq(Requests)
      BY DEF TypeOK
    <3>2. Append(<<x>> \o queued, r) = <<x>> \o Append(queued, r)
      BY <2>1, <3>1, AppendBoth
    <3> QED
      BY <1>5, <3>2 DEF HostSend, AnswersInOrder
  <2> QED
    BY <1>5, <2>4, <2>5 DEF HostSend, PipeAlive, BothOpen, OneBuffer, PortKnown
<1>6. CASE UNCHANGED vars
  BY <1>6 DEF vars, TypeOK, AnswersInOrder, PipeAlive, BothOpen, OneBuffer, PortKnown
<1> QED
  BY <1>1, <1>2, <1>3, <1>4, <1>5, <1>6 DEF Next

\* The queues hold requests, and the port has one of its three modes
\* (dap_connect with a port that does not exist, dap.c:860).
THEOREM TypeCorrect == Spec => []TypeOK
<1>1. Inv => TypeOK
  BY DEF Inv
<1> QED
  BY InitInv, NextInv, <1>1, PTL DEF Spec

\* Every answer in order, from a single pair of buffers (usb_dap.c), for any
\* number of requests under way.
THEOREM InOrder == Spec => []AnswersInOrder
<1>1. Inv => AnswersInOrder
  BY DEF Inv
<1> QED
  BY InitInv, NextInv, <1>1, PTL DEF Spec

\* The pipe never stops: ready for a request or sending an answer (usb_dap.c).
THEOREM Alive == Spec => []PipeAlive
<1>1. Inv => PipeAlive
  BY DEF Inv
<1> QED
  BY InitInv, NextInv, <1>1, PTL DEF Spec

\* Host and probe agree on the port mode when nothing is under way (dap_connect,
\* dap_disconnect, dap_init).
THEOREM PortAgreed == Spec => []HostKnowsPort
<1>1. Inv => HostKnowsPort
  <2> SUFFICES ASSUME Inv, outEp # "closed", waiting = <<>>, queued = <<>>, ~stale
               PROVE  dap_port = seenPort
    BY DEF HostKnowsPort
  <2>1. inEp # "busy"
    <3> SUFFICES ASSUME inEp = "busy" PROVE FALSE
      OBVIOUS
    <3> DEFINE x == [id |-> USB_Response.id, cmd |-> USB_Response.cmd]
    <3>1. <<>> = <<x>> \o <<>>
      BY DEF Inv, AnswersInOrder
    <3>2. x \in Requests
      BY DEF Inv, TypeOK, Requests
    <3> QED
      BY <3>1, <3>2, ConcatEmptySeq
  <2> QED
    BY <2>1 DEF Inv, PortKnown
<1> QED
  BY InitInv, NextInv, <1>1, PTL DEF Spec
=============================================================================
