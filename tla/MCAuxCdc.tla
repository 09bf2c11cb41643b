------------------------------ MODULE MCAuxCdc ------------------------------
(* Instances of AuxCdc for TLC. *)
EXTENDS AuxCdc

MCReaders == {"aux", "rtt"}
=============================================================================
