---------------------------- MODULE Disbursements ----------------------------
(***************************************************************************)
(* DisbursementsService.disburseLoan: claim the loan by creating its only  *)
(* disbursement row (unique loan_id), move the money in a transaction,     *)
(* mark the row COMPLETED; an error after the commit is compensated by     *)
(* rollbackDisbursement, and any error marks the row FAILED.               *)
(* Days are counted from the disbursement date.                            *)
(***************************************************************************)
EXTENDS Rollback

CONSTANT Funding   \* sum of the transactions of type ADDING_FUNDS, in cents

ASSUME FundingAssumption == Funding \in Nat

\* TransactionsService.getAvailableFunds.  An outflow is a negative amount.
Inflow  == Funding + repaid
Outflow == SumFunction([l \in Loans |-> -(disbTxns[l] * Amount[l])])
AvailableFunds == Inflow - Outflow

\* The checks of disburseLoan before it writes; any failing one is an answer.
StartDisburse(w, l) ==
  /\ pc[w] = "idle"
  /\ disb[l] = "NONE"
  /\ loan[l].status = "APPROVED"
  /\ Begin(w, "claim", [op |-> "disburse", loan |-> l], <<>>)

\* No row of the loan violates the unique index on loan_id.
UnclaimedWithoutIndex(l) == TRUE   \* mutant
Unclaimed(l) == disb[l] = "NONE"

\* The unique index on loan_id lets one request through.  When the answer to
\* the INSERT is lost the request ends, outside the try block.
ClaimDisbursement(w) ==
  LET l == req[w].loan IN
  /\ pc[w] = "claim"
  /\ UNCHANGED <<loan, sched, payments, balance, disbTxns, repaid, reversals,
                 locks>>
  /\ \/ /\ Unclaimed(l)
        /\ disb' = [disb EXCEPT ![l] = "PENDING"]
        /\ \/ Goto(w, "funds") /\ UNCHANGED req
           \/ "ack" \in Faults /\ Answer(w)
     \/ /\ ~Unclaimed(l) \/ "db" \in Faults
        /\ Answer(w) /\ UNCHANGED disb

CheckFunds(w) ==
  LET l == req[w].loan IN
  /\ pc[w] = "funds"
  /\ IF AvailableFunds < Amount[l] THEN RollBack(w)
     ELSE Begin(w, "fund", req[w],
                <<AccountRow(Platform), AccountRow(Owner[l]), LoanRow(l)>>)

\* The commit of the transaction; "ack" here is a commit reported as failed.
CommitDisbursement(w) ==
  LET l == req[w].loan IN
  /\ pc[w] = "fund" /\ wants[w] = <<>>
  /\ disbTxns' = [disbTxns EXCEPT ![l] = @ + 1]
  /\ balance' = Transferred(Platform, Owner[l], Exact(Amount[l]))
  /\ loan' = [loan EXCEPT ![l] = [status |-> "ACTIVE",
                                  outstanding |-> Amount[l]]]
  /\ sched' = [sched EXCEPT ![l] = [i \in Installments(l) |-> "PENDING"]]
  /\ ReleaseAll(w)
  /\ \/ Goto(w, "complete")
     \/ "ack" \in Faults /\ Goto(w, "fail")
  /\ UNCHANGED <<disb, payments, repaid, reversals, req>>

\* A disbursement row is updated outside a transaction when nobody holds it.
MarkDisbursed(w, status) ==   \* mutant: a status the schema does not know
  /\ Unlocked(w, DisbRow(req[w].loan))
  /\ disb' = [disb EXCEPT ![req[w].loan] = "DISBURSED"]
  /\ UNCHANGED <<loan, sched, payments, balance, disbTxns, repaid, reversals,
                 locks>>
MarkDisbursement(w, status) ==
  /\ Unlocked(w, DisbRow(req[w].loan))
  /\ disb' = [disb EXCEPT ![req[w].loan] = status]
  /\ UNCHANGED <<loan, sched, payments, balance, disbTxns, repaid, reversals,
                 locks>>

\* Past the commit: an error, before or after the row is COMPLETED, leads to
\* the compensation.
CompleteDisbursement(w) ==
  /\ pc[w] = "complete"
  /\ \/ /\ MarkDisbursement(w, "COMPLETED")
        /\ \/ Answer(w)
           \/ /\ {"ack", "inject"} \cap Faults # {}
              /\ Goto(w, "rollback") /\ UNCHANGED req
     \/ "db" \in Faults /\ Continue(w, "rollback")

\* The outer catch block; when its own update fails the row stays as it is.
FailDisbursement(w) ==
  /\ pc[w] = "fail"
  /\ Answer(w)
  /\ \/ MarkDisbursement(w, "FAILED")
     \/ "db" \in Faults /\ UNCHANGED <<tables, locks>>

DisburseStep(w) ==
  \/ ClaimDisbursement(w) \/ CheckFunds(w) \/ CommitDisbursement(w)
  \/ CompleteDisbursement(w) \/ FailDisbursement(w)
=============================================================================
