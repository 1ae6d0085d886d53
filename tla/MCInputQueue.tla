--------------------------- MODULE MCInputQueue ---------------------------
(* Instances of InputQueue for TLC. *)
EXTENDS InputQueue

\* The addresses of the pending lines.
CONSTANTS a1, a2, a3
=============================================================================
