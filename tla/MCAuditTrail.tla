---------------------------- MODULE MCAuditTrail ----------------------------
(***************************************************************************)
(* A rollback by an admin, a loan change, a payment and a disbursement.    *)
(***************************************************************************)
EXTENDS AuditTrail, TLC

CONSTANTS undo1, loan1, pay1, disburse1

KindDef == undo1 :> "undo" @@ loan1 :> "loan" @@ pay1 :> "pay"
           @@ disburse1 :> "disburse"
=============================================================================
