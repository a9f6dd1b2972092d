--------------------------- MODULE MCProfileChains ---------------------------
(* Two models of the tenant and one of another tenant.                      *)
EXTENDS ProfileChains

CONSTANTS m1, m2, m3, here, there

Owners == [m \in {m1, m2, m3} |-> IF m = m3 THEN there ELSE here]
=============================================================================
