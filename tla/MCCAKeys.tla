------------------------------ MODULE MCCAKeys ------------------------------
(* The instance of CAKeys for the bootstrap question alone: two replicas   *)
(* start on an empty table.  MCSigning checks the life of the keys.        *)
EXTENDS CAKeys
=============================================================================
