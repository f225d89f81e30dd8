------------------------------ MODULE MCPyRing --------------------------------
(***************************************************************************)
(* PyRing on small rings, for TLC.                                         *)
(***************************************************************************)
EXTENDS PyRing

CONSTANTS viewer, worker, pixels   (* a C reader, a Python one, a payload  *)

OnePayload == {pixels}
Viewer     == {viewer}
Worker     == {worker}
Nobody     == {}
===============================================================================
