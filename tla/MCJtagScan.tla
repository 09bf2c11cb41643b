----------------------------- MODULE MCJtagScan -----------------------------
(* Instances of JtagScan for TLC. *)
EXTENDS JtagScan

\* Instruction registers of 2 (a debug port) and 3 bits; a device with neighbours
\* on no, one or both sides.
MCChains == {<<2>>, <<2, 3, 2>>, <<3, 2, 2>>}
=============================================================================
