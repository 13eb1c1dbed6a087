------------------------- MODULE MCPrincipalsCache -------------------------
(* The instance of PrincipalsCache that TLC checks: one local user, two    *)
(* concurrent lookups, time in units of apiTimeout.                        *)
EXTENDS PrincipalsCache
=============================================================================
