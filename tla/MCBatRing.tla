------------------------------ MODULE MCBatRing -------------------------------
(***************************************************************************)
(* BatRing on small rings, for TLC.                                        *)
(***************************************************************************)
EXTENDS BatRing

CONSTANTS viewer, worker, pixels   (* a C reader, a Python one, a payload  *)

OnePayload == {pixels}
Viewer     == {viewer}
Worker     == {worker}
Nobody     == {}
===============================================================================
