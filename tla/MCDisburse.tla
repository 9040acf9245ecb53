----------------------------- MODULE MCDisburse -----------------------------
(***************************************************************************)
(* Two loans of one borrower and two handlers: claims, payouts and         *)
(* rollbacks of disbursements, with failures.                              *)
(***************************************************************************)
EXTENDS LoanSystem, TLC

CONSTANTS l1, l2, alice

OwnerDef     == l1 :> alice @@ l2 :> alice
AmountDef    == l1 :> 2 @@ l2 :> 5
PrincipalDef == l1 :> <<2>> @@ l2 :> <<5>>
SeedDef      == [a \in Accounts |-> IF a = Platform THEN Funding ELSE 0]
=============================================================================
