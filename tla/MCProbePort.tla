----------------------------- MODULE MCProbePort -----------------------------
(***************************************************************************)
(* ProbePort for TLC.                                                      *)
(***************************************************************************)
EXTENDS ProbePort

\* The two settings differ in both parts.
MCSettings == {DefaultSettings, [trn |-> 2, phase |-> TRUE]}

\* A read and a write, with either parity.
MCRequests == {<<FALSE, TRUE, FALSE, FALSE>>, <<TRUE, FALSE, TRUE, FALSE>>}

MCWords == {<<TRUE, FALSE>>, <<TRUE, TRUE>>}

MCFrequencies == {-1, 0, 4, 10}

\* The last that is in range, the first that overflows, one that overflows when
\* it is made a time, and a negative one.
MCWaits == {117, 118, 3277, -1}
=============================================================================
