---------------------------- MODULE PinRegister ----------------------------
(***************************************************************************)
(* What the pin provider promises the rollout gate: a register that        *)
(* follows the certificates of the public endpoint.  It is empty until a   *)
(* pin is learned, then it is never emptied and never falls back to the    *)
(* pin of an earlier certificate.                                          *)
(***************************************************************************)
EXTENDS Naturals

VARIABLES current,  \* the number of the certificate the endpoint presents
          known     \* the certificate whose pin is served, 0 for none

RegisterInit == current = 1 /\ known = 0

Rotation == current' = current + 1 /\ UNCHANGED known

Learning == /\ known' \in {n \in 1..current : n >= known}
            /\ UNCHANGED current

RegisterNext == Rotation \/ Learning

RegisterSpec == RegisterInit /\ [][RegisterNext]_<<current, known>>
=============================================================================
