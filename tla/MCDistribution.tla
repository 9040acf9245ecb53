--------------------------- MODULE MCDistribution ---------------------------
(***************************************************************************)
(* Every list of up to three installments over small principals, fees and  *)
(* earlier payments, and every small payment.                              *)
(***************************************************************************)
EXTENDS Distribution

SmallInstallment == {x \in [p : {0, 1, 3}, fee : {0, 2}, before : {0, 1}] :
                       x.before <= x.p}

ErrorDef == -1..1

DuesDef == {<<>>} \cup {<<x>> : x \in SmallInstallment}
           \cup {<<x, y>> : x, y \in SmallInstallment}
           \cup {<<x, y, z>> : x, y, z \in {s \in SmallInstallment : s.p = 3 /\ s.fee = 2}}
=============================================================================
