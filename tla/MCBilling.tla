------------------------------ MODULE MCBilling ------------------------------
(* Two payments, the first delivered twice, and two audits.                  *)
EXTENDS Billing, TLC

CONSTANTS e1, e2, d1, d2, d3, a1, a2

MCEvents == {e1, e2}
MCAudits == {a1, a2}
MCRefs == MCEvents \cup MCAudits
MCValue == e1 :> 1 @@ e2 :> 1 @@ a1 :> -1 @@ a2 :> -1
MCDeliveries == {d1, d2, d3}
MCEventOf == d1 :> e1 @@ d2 :> e1 @@ d3 :> e2
MCSymmetry == Permutations({d1, d2}) \cup Permutations(MCAudits)
=============================================================================
