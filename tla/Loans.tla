-------------------------------- MODULE Loans --------------------------------
(***************************************************************************)
(* LoansService: POST /loans and PATCH /loans/:id/status.  Each writes one *)
(* row with one statement; what updateLoanStatus reads first goes to the   *)
(* audit log only.                                                         *)
(***************************************************************************)
EXTENDS LoanDatabase

CONSTANT PatchStatuses  \* the statuses the clients of the API send

ASSUME PatchAssumption == PatchStatuses \subseteq LoanStatus

CreateLoan(l) ==
  /\ loan[l].status = "NONE"
  /\ loan' = [loan EXCEPT ![l] = [status |-> "PENDING", outstanding |-> 0]]
  /\ UNCHANGED <<disb, sched, payments, balance, disbTxns, repaid, reversals,
                 handler, locks>>

\* Any status may follow any other.
UpdateLoanStatus(l, s) ==
  /\ loan[l].status # "NONE"
  /\ \A v \in Workers : LoanRow(l) \notin holds[v]
  /\ loan' = [loan EXCEPT ![l].status = s]
  /\ UNCHANGED <<disb, sched, payments, balance, disbTxns, repaid, reversals,
                 handler, locks>>
=============================================================================
