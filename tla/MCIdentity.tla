----------------------------- MODULE MCIdentity -----------------------------
(* The instance of Identity that TLC checks: one subject, two groups of    *)
(* which one carries a grant, concurrent requests and a sync.              *)
EXTENDS Identity

CONSTANTS n1, n2, ops, dev

(* A member of ops; renamed and moved to dev; disabled; without groups.    *)
MCAccounts == {[active |-> TRUE,  name |-> n1, groups |-> {ops}],
               [active |-> TRUE,  name |-> n2, groups |-> {dev}],
               [active |-> FALSE, name |-> n1, groups |-> {ops}],
               [active |-> TRUE,  name |-> n1, groups |-> {}]}
=============================================================================
