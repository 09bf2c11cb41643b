----------------------------- MODULE MCCdcPort -----------------------------
(* Instances of CdcPort for TLC. *)
EXTENDS CdcPort

\* cdc0 is read by the gdb server thread.
MCReader == {"gdb"}
=============================================================================
