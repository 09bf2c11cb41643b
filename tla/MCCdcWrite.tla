---------------------------- MODULE MCCdcWrite -----------------------------
(* Instances of CdcWrite for TLC. *)
EXTENDS CdcWrite

\* The gdb server writes to cdc0 and, for the rtt console, to cdc1; the aux
\* uart thread writes to cdc1.
MCPorts == {"cdc0", "cdc1"}
MCTwoWriters == {"gdb", "aux"}
MCMayWriteTwo == [w \in MCTwoWriters |-> IF w = "gdb" THEN MCPorts ELSE {"cdc1"}]

\* A third thread, so that two can be suspended and their order matters.
MCThreeWriters == MCTwoWriters \cup {"other"}
MCMayWriteThree == [w \in MCThreeWriters |-> IF w = "gdb" THEN {"cdc0"} ELSE {"cdc1"}]
=============================================================================
