--------------------------- MODULE MCSessionSpool ---------------------------
(* The instances of SessionSpool that TLC checks.                          *)
EXTENDS SessionSpool
=============================================================================
