------------------------- MODULE MCAgentMaintenance -------------------------
(* The instances of AgentMaintenance that TLC checks: one failure fits     *)
(* into the last third of a certificate, a second one lets it expire.      *)
EXTENDS AgentMaintenance
=============================================================================
