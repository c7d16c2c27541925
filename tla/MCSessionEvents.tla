--------------------------- MODULE MCSessionEvents ---------------------------
(***************************************************************************)
(* Instances of SessionEvents for TLC; the configurations give the         *)
(* constants their values.                                                 *)
(***************************************************************************)
EXTENDS SessionEvents

CONSTANTS a, b, c1, c2
=============================================================================
